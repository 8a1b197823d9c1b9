--------------------------- MODULE PlatformSession ---------------------------
(***************************************************************************)
(* The login of a bug platform: the session header kept in platforms.json  *)
(* (platform.go), captured from a controlled browser                       *)
(* (bug_login_chrome.go), used by every request to the platform, refreshed *)
(* or cleared when the platform refuses it (bindings_bug.go,               *)
(* bug_sync_poller.go).                                                    *)
(*                                                                         *)
(* A request carries the header of a copy of the platform read when the    *)
(* operation began; what follows a refusal - a silent recapture of up to   *)
(* 25 seconds, then SetSessionHeader or ClearSessionHeader - acts on the   *)
(* file as it is by then, by id.  The file is read, truncated and written  *)
(* back without a lock, as bugs.json is (BugInbox).                        *)
(***************************************************************************)
EXTENDS Integers, FiniteSets

CONSTANTS
  Poller, Callers,  \* the polling goroutine; goroutines of bindings
  Sessions,         \* how many sessions the platform may open: 1..Sessions
  MaxTicks,         \* polls of the browser before a capture times out
  Grace,            \* polls before a browser that never answers counts as closed
  MaxCalls,         \* bound: operations begun by Callers
  MaxExpiries       \* bound: sessions the platform ends

PlatformSessionAssumption ==
  /\ Sessions \in Nat /\ MaxTicks \in Nat /\ Grace \in 0..MaxTicks
  /\ MaxCalls \in Nat /\ MaxExpiries \in Nat

Procs == {Poller} \cup Callers
NoHeader == 0
Modes == {"feishu_sso", "token"}
Platform == [mode : Modes, header : 0..Sessions]

VARIABLES
  saved,     \* platforms.json: {} or the one platform
  op,        \* what each goroutine is doing
  alive,     \* sessions the platform accepts
  minted,    \* sessions opened so far
  calls, expiries,
  raced      \* history: operations overlapped

vars == <<saved, op, alive, minted, calls, expiries, raced>>

Idle == [pc |-> "idle", kind |-> "none", copy |-> {}, got |-> NoHeader,
         window |-> "closed", seen |-> FALSE, ticks |-> 0, img |-> {}, then |-> "idle"]

Busy(p) == op[p].pc # "idle"

(* bugPlatformUsesCapturedSession *)
Captured(pl) == pl.header # NoHeader /\ pl.mode = "feishu_sso"

Copy(p) == CHOOSE pl \in op[p].copy : TRUE

Init ==
  /\ saved = {[mode |-> "feishu_sso", header |-> NoHeader]}
  /\ op = [p \in Procs |-> Idle]
  /\ alive = {} /\ minted = 0
  /\ calls = 0 /\ expiries = 0 /\ raced = FALSE

-----------------------------------------------------------------------------
(* Operations begin by reading the platform: getBugPlatform, or the List of
   the poller. *)

Begin(p, kind, pc) ==
  /\ ~Busy(p)
  /\ p \in Callers => calls < MaxCalls
  /\ calls' = IF p \in Callers THEN calls + 1 ELSE calls
  /\ raced' = (raced \/ \E q \in Procs \ {p} : Busy(q))
  /\ op' = [op EXCEPT ![p] = [Idle EXCEPT !.pc = pc, !.kind = kind, !.copy = saved]]
  /\ UNCHANGED <<saved, alive, minted, expiries>>

(* SyncBugPlatform, FetchBugByID, PreviewBugAttachment and the poll: a
   request, recovered once. *)
Sync(p) == saved # {} /\ Begin(p, "sync", "request")

(* shouldKeepAliveBugPlatform, keepAliveBugPlatform. *)
KeepAlive(p) ==
  /\ \E pl \in saved : Captured(pl)
  /\ Begin(p, "keepalive", "request")

(* LoginBugPlatform drops the old header first. *)
LoginBugPlatform(p) == saved # {} /\ Begin(p, "login", "clear")

ClearBugPlatformLogin(p) == saved # {} /\ Begin(p, "logout", "clear")

(* SaveBugPlatform: the form carries no header. *)
SaveBugPlatform(p) == Begin(p, "save", "upsert")

DeleteBugPlatform(p) == saved # {} /\ Begin(p, "delete", "delete")

-----------------------------------------------------------------------------
Step(p, rec) == op' = [op EXCEPT ![p] = rec]
Rest == UNCHANGED <<calls, expiries, raced>>

(* captureZentaoLoginSession begins: a browser with the platform's profile. *)
Capturing(p) == [op[p] EXCEPT !.pc = "capture", !.window = "opening",
                              !.ticks = 0, !.seen = FALSE, !.img = {}]

(* The platform's answer to a request with the header read at the start, or
   with the refreshed one.  Only a refusal (401) of a captured session is
   recovered. *)
Request(p) ==
  /\ op[p].pc = "request"
  /\ LET pl == Copy(p)
         header == IF op[p].got # NoHeader THEN op[p].got ELSE pl.header
         refused == pl.mode = "feishu_sso" /\ header \notin alive
     IN  Step(p, IF ~refused \/ ~Captured(pl) THEN Idle
                 ELSE IF op[p].got = NoHeader THEN Capturing(p)
                 ELSE [op[p] EXCEPT !.pc = "clear"])
  /\ UNCHANGED <<saved, alive, minted>> /\ Rest

(* Mutant: any failure of the request is taken for a refusal. *)
UnreachableRecovers(p) ==
  /\ op[p].pc = "request"
  /\ Step(p, IF Captured(Copy(p)) THEN Capturing(p) ELSE Idle)
  /\ UNCHANGED <<saved, alive, minted>> /\ Rest

(* Any other error ends the operation. *)
Unreachable(p) ==
  /\ op[p].pc = "request"
  /\ Step(p, Idle)
  /\ UNCHANGED <<saved, alive, minted>> /\ Rest

(* Mutant: a failed recovery leaves the refused session. *)
CaptureGivenUp(p) == Idle

(* A capture that ended without a session: a login fails; a recovery goes on
   to clear the refused session (clearExpiredZentaoSession). *)
CaptureFailed(p) ==
  IF op[p].kind = "login" THEN Idle
  ELSE [op[p] EXCEPT !.pc = "clear", !.window = "closed"]

(* Mutant: the wait has no end of its own. *)
CaptureWaits(p) ==
  /\ op[p].pc = "capture"
  /\ \/ /\ op[p].window = "open" /\ minted < Sessions
        /\ minted' = minted + 1
        /\ alive' = alive \cup {minted + 1}
        /\ Step(p, [op[p] EXCEPT !.pc = "set", !.got = minted + 1, !.window = "closed"])
     \/ /\ op[p].window # "open" /\ op[p].seen
        /\ Step(p, CaptureFailed(p))
        /\ UNCHANGED <<alive, minted>>
     \/ /\ op[p].window = "open"
        /\ Step(p, [op[p] EXCEPT !.seen = TRUE])
        /\ UNCHANGED <<alive, minted>>
  /\ UNCHANGED saved /\ Rest

(* Mutant: the wait polls on after its time, and takes no session. *)
CaptureCountsOn(p) ==
  /\ op[p].pc = "capture"
  /\ Step(p, IF op[p].ticks > MaxTicks THEN CaptureFailed(p)
             ELSE [op[p] EXCEPT !.ticks = @ + 1, !.seen = (@ \/ op[p].window = "open")])
  /\ UNCHANGED <<saved, alive, minted>> /\ Rest

(* waitForVerifiedZentaoSession, one poll: the cookies of an open page make a
   header that the platform verifies; otherwise the wait goes on until the
   time is up, or until the window is gone - which a browser that has not
   answered yet is taken for only after the grace. *)
CapturePoll(p) ==
  /\ op[p].pc = "capture"
  /\ LET gone == op[p].window # "open"
     IN  \/ /\ op[p].window = "open" /\ minted < Sessions
            /\ minted' = minted + 1
            /\ alive' = alive \cup {minted + 1}
            /\ Step(p, [op[p] EXCEPT !.pc = "set", !.got = minted + 1, !.window = "closed"])
         \/ /\ gone /\ (op[p].seen \/ op[p].ticks >= Grace)
            /\ Step(p, CaptureFailed(p))
            /\ UNCHANGED <<alive, minted>>
         \/ /\ ~(gone /\ (op[p].seen \/ op[p].ticks >= Grace))
            /\ Step(p, IF op[p].ticks >= MaxTicks THEN CaptureFailed(p)
                       ELSE [op[p] EXCEPT !.ticks = @ + 1, !.seen = (@ \/ ~gone)])
            /\ UNCHANGED <<alive, minted>>
  /\ UNCHANGED saved /\ Rest

(* The controlled browser comes up, or the user closes it. *)
Window(p) ==
  /\ op[p].pc = "capture"
  /\ \/ op[p].window = "opening" /\ Step(p, [op[p] EXCEPT !.window = "open"])
     \/ op[p].window = "open" /\ Step(p, [op[p] EXCEPT !.window = "closed"])
  /\ UNCHANGED <<saved, alive, minted>> /\ Rest

-----------------------------------------------------------------------------
(* The store: readAll and the new image, then the truncation, then the write. *)

Rewrite(p, img, then) ==
  Step(p, [op[p] EXCEPT !.pc = "write", !.img = img, !.then = then])

(* What follows a failed store call (no such platform). *)
AfterFailure(p) ==
  CASE op[p].pc = "clear" /\ op[p].kind = "login" ->
         Capturing(p)
    [] op[p].pc = "set" /\ op[p].kind # "login" -> [op[p] EXCEPT !.pc = "clear"]
    [] OTHER -> Idle

ClearSessionHeader(p) ==
  /\ op[p].pc = "clear"
  /\ IF saved = {} THEN Step(p, AfterFailure(p))
     ELSE Rewrite(p, {[pl EXCEPT !.header = NoHeader] : pl \in saved},
                  IF op[p].kind = "login" THEN "capture" ELSE "idle")
  /\ UNCHANGED <<saved, alive, minted>> /\ Rest

(* SetSessionHeader, of a login after verifyZentaoSession and of a refresh.
   A keep-alive trusts the refreshed session; a sync runs again with it. *)
SetSessionHeader(p) ==
  /\ op[p].pc = "set"
  /\ \/ op[p].kind = "login" /\ Step(p, Idle)
     \/ /\ op[p].kind = "login" => op[p].got \in alive
        /\ IF saved = {} THEN Step(p, AfterFailure(p))
           ELSE Rewrite(p, {[mode |-> "feishu_sso", header |-> op[p].got] : pl \in saved},
                        IF op[p].kind = "sync" THEN "request" ELSE "idle")
  /\ UNCHANGED <<saved, alive, minted>> /\ Rest

(* PlatformStore.Upsert: an empty header in the input keeps the stored one. *)
Upsert(p) ==
  /\ op[p].pc = "upsert"
  /\ \E m \in Modes :
       Rewrite(p, IF saved = {} THEN {[mode |-> m, header |-> NoHeader]}
                  ELSE {[pl EXCEPT !.mode = m] : pl \in saved}, "idle")
  /\ UNCHANGED <<saved, alive, minted>> /\ Rest

Delete(p) ==
  /\ op[p].pc = "delete"
  /\ IF saved = {} THEN Step(p, Idle) ELSE Rewrite(p, {}, "idle")
  /\ UNCHANGED <<saved, alive, minted>> /\ Rest

Truncate(p) ==
  /\ op[p].pc = "write"
  /\ saved' = {}
  /\ Step(p, [op[p] EXCEPT !.pc = "fill"])
  /\ UNCHANGED <<alive, minted>> /\ Rest

Fill(p) ==
  /\ op[p].pc = "fill"
  /\ saved' = op[p].img
  /\ Step(p, CASE op[p].then = "idle" -> Idle
               [] op[p].then = "capture" -> Capturing(p)
               [] op[p].then = "request" -> [op[p] EXCEPT !.pc = "request", !.img = {}])
  /\ UNCHANGED <<alive, minted>> /\ Rest

(* The platform ends a session. *)
Expire ==
  /\ expiries < MaxExpiries
  /\ expiries' = expiries + 1
  /\ \E s \in alive : alive' = alive \ {s}
  /\ UNCHANGED <<saved, op, minted, calls, raced>>

Start(p) ==
  \/ Sync(p) \/ KeepAlive(p)
  \/ p \in Callers /\ \/ LoginBugPlatform(p) \/ ClearBugPlatformLogin(p)
                      \/ SaveBugPlatform(p) \/ DeleteBugPlatform(p)

Proceed(p) == \/ Request(p) \/ CapturePoll(p) \/ ClearSessionHeader(p)
              \/ SetSessionHeader(p) \/ Upsert(p) \/ Delete(p) \/ Truncate(p) \/ Fill(p)

Next == \/ \E p \in Procs : Start(p) \/ Proceed(p) \/ Window(p) \/ Unreachable(p)
        \/ Expire

(* The ticker keeps the session alive every five minutes and the platform
   answers in the end; a running goroutine goes on (its waits are bounded by
   timeouts). *)
Fairness ==
  /\ SF_vars(KeepAlive(Poller)) /\ SF_vars(Request(Poller))
  /\ \A p \in Procs : WF_vars(Proceed(p))

Spec == Init /\ [][Next]_vars /\ Fairness

-----------------------------------------------------------------------------
TypeOK ==
  /\ saved \subseteq Platform /\ Cardinality(saved) <= 1
  /\ op \in [Procs ->
       [pc : {"idle", "request", "capture", "clear", "set", "upsert", "delete", "write", "fill"},
        kind : {"none", "sync", "keepalive", "login", "logout", "save", "delete"},
        copy : SUBSET Platform, got : 0..Sessions,
        window : {"opening", "open", "closed"}, seen : BOOLEAN, ticks : 0..MaxTicks,
        img : SUBSET Platform, then : {"idle", "capture", "request"}]]
  /\ alive \subseteq 1..minted /\ minted \in 0..Sessions
  /\ calls \in 0..MaxCalls /\ expiries \in 0..MaxExpiries /\ raced \in BOOLEAN

Header == IF \E pl \in saved : Captured(pl)
          THEN (CHOOSE pl \in saved : TRUE).header ELSE NoHeader

(* A session the platform still accepts is given up only when the user asks:
   by a login, a logout or the deletion of the platform.
   Alone, a recovery never throws away a session that works.  (Overlapping
   operations do: a refusal that is answered late clears, by id, the session
   of a login made meanwhile.) *)
WorkingSessionKept ==
  [][ \A s \in alive :
        ~raced /\ Header = s /\ (\E p \in Procs : op[p].pc = "write" /\ op'[p].pc = "fill"
                                   /\ \A pl \in op[p].img : pl.header # s)
        => \E p \in Procs : op[p].kind \in {"login", "logout", "delete"} /\ Busy(p) ]_vars

Refused == Header # NoHeader /\ Header \notin alive

(* A captured session the platform refuses does not stay: the keep-alive
   replaces it with a session from the browser or clears it, so that the
   user is asked to log in again - however the callers raced. *)
RefusedSessionGoes == Refused ~> ~Refused

InCapture(p) == op[p].pc = "capture"

(* A login or a recovery ends in the user's hands, never in a wait: every
   capture, the one whose window is closed or never opens included, ends. *)
CaptureEnds == \A p \in Procs : InCapture(p) ~> ~InCapture(p)
=============================================================================
