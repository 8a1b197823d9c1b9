---------------------------- MODULE MCBugPlatform ----------------------------
(***************************************************************************)
(* Small instances for TLC of components that never meet, side by side:    *)
(* each behaviour is one of the component that part names.  BugInbox and   *)
(* AnalysisCache have their own variables; the others share s1, s2, ...;   *)
(* those that a component does not use are None.                           *)
(*                                                                         *)
(*   inbox      one poller, one binding, two tickets (BugInbox)            *)
(*   session    the login that both use (PlatformSession)                  *)
(*   cache      a deployment and a refresh of one repository               *)
(*              (AnalysisCache)                                            *)
(*   client     lists of three tickets on pages of one (ZentaoClient)      *)
(***************************************************************************)
EXTENDS BugInbox, AnalysisCache, Integers

CONSTANT None

VARIABLES
  part,  \* the component that this behaviour is of
  s1, s2, s3, s4, s5, s6, s7, s8, s9  \* its variables

slots == <<s1, s2, s3, s4, s5, s6, s7, s8, s9>>

vars == <<part, slots, inboxVars, cacheVars>>

Session == INSTANCE PlatformSession WITH
  Poller <- Poller, Callers <- Bindings, Sessions <- 3, MaxTicks <- 2, Grace <- 1, MaxCalls <- 2,
  MaxExpiries <- 1, saved <- s1, op <- s2, alive <- s3, minted <- s4, calls <- s5,
  expiries <- s6, raced <- s7

Client == INSTANCE ZentaoClient WITH
  Tickets <- {1, 2, 3}, Products <- 2, Limit <- 1, MaxChanges <- 1, listing <- s1, status <- s2,
  counts <- s3, task <- s4, got <- s5, result <- s6, posts <- s7, changes <- s8, moved <- s9

ASSUME
  /\ BugInboxAssumption
  /\ Session!PlatformSessionAssumption
  /\ AnalysisCacheAssumption
  /\ Client!ZentaoClientAssumption

Slots ==
  \/ part = "session" /\ Session!Init
     /\ s8 = None /\ s9 = None
  \/ part \in {"inbox", "cache"}
     /\ s1 = None /\ s2 = None /\ s3 = None /\ s4 = None /\ s5 = None /\ s6 = None /\ s7 = None
     /\ s8 = None /\ s9 = None
  \/ part = "client" /\ Client!Init

Init == Slots /\ InboxInit /\ CacheInit

Next ==
  /\ UNCHANGED part
  /\ part # "inbox" => UNCHANGED inboxVars
  /\ part # "cache" => UNCHANGED cacheVars
  /\ CASE part = "inbox" -> InboxNext /\ UNCHANGED slots
       [] part = "session" -> Session!Next /\ UNCHANGED <<s8, s9>>
       [] part = "cache" -> CacheNext /\ UNCHANGED slots
       [] part = "client" -> Client!Next

InboxStep(A) == part = "inbox" /\ A /\ UNCHANGED <<part, slots, cacheVars>>
SessionStep(A) == part = "session" /\ A /\ UNCHANGED <<part, s8, s9, inboxVars, cacheVars>>
ScanStep(A) == part = "cache" /\ A /\ UNCHANGED <<part, slots, inboxVars>>

(* The fairness of each component's specification. *)
Fairness ==
  /\ SF_vars(InboxStep(FetchAssigned(Poller)))
  /\ \A p \in Procs : WF_vars(InboxStep(Continue(p)))
  /\ SF_vars(SessionStep(Session!KeepAlive(Poller)))
  /\ SF_vars(SessionStep(Session!Request(Poller)))
  /\ \A p \in Procs : WF_vars(SessionStep(Session!Proceed(p)))
  /\ \A f \in Scans : WF_vars(ScanStep(Deadline(f))) /\ WF_vars(ScanStep(Publish(f, "none")))
  /\ \A c \in Callers :
       /\ WF_vars(ScanStep(Receive(c)))
       /\ WF_vars(ScanStep(Invalidate(c)))
       /\ WF_vars(ScanStep(TakeKey(c)))

Spec == Init /\ [][Next]_vars /\ Fairness
-----------------------------------------------------------------------------
(* What each component promises: its own properties, under the names they have in
   its module; P!1 is the action [A]_v of a property P == [][A]_v.  InboxIsKept
   (BugInbox) and ScanIsShared (AnalysisCache) are stated there. *)

Refused == part = "session" /\ Session!Refused
Capturing(p) == part = "session" /\ Session!InCapture(p)

(* The inbox of tickets, the login that it needs and the client that fills it
   (BugInbox, PlatformSession, ZentaoClient): however the operations on the inbox
   overlapped, the poller repairs it.  No recovery gives up a session that
   works, a session that the platform refuses is replaced or cleared, and every
   capture of a session ends.  The pages cover the list, and a ticket is resolved
   once.  And every call for a shared scan ends (AnalysisCache). *)
PlatformRecovers ==
  /\ [](/\ part = "session" => Session!TypeOK
        /\ part = "client" => Client!TypeOK /\ Client!PagesCoverList)
  /\ [][/\ part = "session" => Session!WorkingSessionKept!1
        /\ part = "client" => Client!ResolvedOnce!1]_vars
  /\ <>[](part = "inbox" => Repaired)
  /\ Refused ~> ~Refused
  /\ \A p \in Procs : Capturing(p) ~> ~Capturing(p)
  /\ EveryCallEnds
=============================================================================
