---------------------------- MODULE CaseStoreKeys ----------------------------
(***************************************************************************)
(* The keys of the workflow store (workflow_store.go).  A request carries  *)
(* an idempotency key chosen by its caller; the store remembers, with the  *)
(* event the request committed, a fingerprint of the request and the       *)
(* answer.  A caller whose answer was lost - Studio killed, a context that *)
(* ran out after the commit - sends the same request again, and callers    *)
(* that read the same Case write against the same expected version.        *)
(*                                                                         *)
(* Every operation is one transaction; they are begun with                 *)
(* "_txlock=immediate", so each is one step here.  A fingerprint is the    *)
(* request itself: the hashes cover all of it.                             *)
(***************************************************************************)
EXTENDS Integers, CaseStatus

CONSTANTS
  Cases,         \* ids of Cases, all of one ticket
  Clients,       \* goroutines and instances of Studio
  Keys,          \* idempotency keys of events
  RecordKeys,    \* idempotency keys of approvals and observations
  Contents,      \* what else distinguishes two requests
  AskedStatuses, \* statuses a transition may ask for
  Requests,      \* those of EveryRequest that clients make
  Nothing,
  MaxVersion,    \* bound: versions of a Case
  MaxSends       \* bound: requests sent

AttemptEndings == {"succeeded", "failed"}

EveryRequest ==
  [op : {"create"}, key : Keys, case : Cases, content : Contents]
  \cup [op : {"transition", "mutate"}, key : Keys, case : Cases, expected : 1..MaxVersion,
        to : AskedStatuses, finish : AttemptEndings \cup {Nothing}]
  \cup [op : {"finish"}, case : Cases, result : AttemptEndings, timed : BOOLEAN]
  \cup [op : {"approve", "observe"}, key : RecordKeys, content : Contents, timed : BOOLEAN]

(* The version and status of a Case, and what an event keeps. *)
Snapshots == [version : Nat, status : Status]
Events ==
  [case : Cases, kind : {"case_created", "open_case_reused", "transition", "compound_mutation"},
   fingerprint : Requests, result : Snapshots]

CaseStoreKeysAssumption ==
  /\ MaxVersion \in Nat \ {0} /\ MaxSends \in Nat /\ Requests \subseteq EveryRequest
  /\ Nothing \notin AttemptEndings /\ Nothing \notin EveryRequest /\ Nothing \notin Events

VARIABLES
  case,      \* each Case: version (0: none), status
  events,    \* by key: the event, its fingerprint and its stored answer
  attempt,   \* the first attempt of each Case, and whether it ended at a time its
             \* request named
  records,   \* approvals and observations by key
  call,      \* each client's request and what it knows of its outcome
  sends,
  answers    \* history: every successful answer

keysVars == <<case, events, attempt, records, call, sends, answers>>

Ended(result, named) == [state |-> result, named |-> named]
NoAttempt == Ended("none", FALSE)
Running == Ended("running", FALSE)
NoCase == [version |-> 0, status |-> Absent]

IdleClient == [pc |-> "idle", req |-> Nothing]

KeysInit ==
  /\ case = [c \in Cases |-> NoCase]
  /\ events = [k \in Keys |-> Nothing]
  /\ attempt = [c \in Cases |-> NoAttempt]
  /\ records = [k \in RecordKeys |-> Nothing]
  /\ call = [u \in Clients |-> IdleClient]
  /\ sends = 0
  /\ answers = {}

-----------------------------------------------------------------------------
(* A request commits, is replayed, or fails and changes nothing. *)

Req(u) == call[u].req

(* The answer is received, or it is lost and the client may ask again. *)
Answered(u, result) ==
  /\ call' = [call EXCEPT ![u].pc = "answered"]
  /\ answers' = answers \cup {[req |-> Req(u), result |-> result]}

Fails(u) ==
  /\ call' = [call EXCEPT ![u] = IdleClient]
  /\ UNCHANGED answers
  /\ UNCHANGED <<case, events, attempt, records>>

(* The first thing every keyed transaction does: a known key is answered with
   the stored result if it was this request, and refused otherwise. *)
AnyRequest(e, r) == TRUE
SameRequest(e, r) == e.fingerprint = r

Replay(u) ==
  LET e == events[Req(u).key] IN
  IF SameRequest(e, Req(u))
    THEN /\ Answered(u, e.result)
         /\ UNCHANGED <<case, events, attempt, records>>
    ELSE Fails(u)

Event(r, c, kind, snapshot) ==
  [case |-> c, kind |-> kind, fingerprint |-> r, result |-> snapshot]

IsOpen(c) == case[c].version > 0 /\ ~IsTerminalCaseStatus(case[c].status)
NothingReusable == {}
Reusable == {c \in Cases : IsOpen(c)}

(* CreateCaseWithIdentity: the open Case of the ticket is reused, and its
   reuse recorded under the key without a new version. *)
CreateCaseWithIdentity(u) ==
  /\ call[u].pc = "sent" /\ Req(u).op = "create"
  /\ LET r == Req(u)
         created == [version |-> 1, status |-> "pending_investigation"]
     IN  IF events[r.key] # Nothing THEN Replay(u)
         ELSE IF Reusable # {}
           THEN \E c \in Reusable :
                  /\ events' = [events EXCEPT ![r.key] = Event(r, c, "open_case_reused", case[c])]
                  /\ Answered(u, case[c])
                  /\ UNCHANGED <<case, attempt, records>>
         ELSE IF case[r.case].version > 0 THEN Fails(u)
         ELSE /\ case' = [case EXCEPT ![r.case] = created]
              /\ events' = [events EXCEPT ![r.key] = Event(r, r.case, "case_created", created)]
              /\ Answered(u, created)
              /\ UNCHANGED <<attempt, records>>
  /\ UNCHANGED sends

(* The Case is as the caller read it; the attempt can be finished. *)
FreshOrNot(r) == TRUE
UpToDate(r) == case[r.case].version = r.expected
FinishableAgain(c) == attempt[c] # NoAttempt
Finishable(c) == attempt[c] = Running

(* TransitionWithUpdate, and applyCaseMutation with one step that may finish
   the current attempt and starts one when it enters "investigating". *)
TransitionWithUpdate(u) ==
  /\ call[u].pc = "sent" /\ Req(u).op \in {"transition", "mutate"}
  /\ LET r == Req(u)
         next == [version |-> case[r.case].version + 1, status |-> r.to]
         kind == IF r.op = "mutate" THEN "compound_mutation" ELSE "transition"
     IN  IF events[r.key] # Nothing THEN Replay(u)
         ELSE IF \/ ~UpToDate(r)
                 \/ ~CanTransition(case[r.case].status, r.to)
                 \/ r.finish # Nothing /\ (r.op = "transition" \/ ~Finishable(r.case))
           THEN Fails(u)
         ELSE /\ case' = [case EXCEPT ![r.case] = next]
              /\ events' = [events EXCEPT ![r.key] = Event(r, r.case, kind, next)]
              /\ attempt' = [attempt EXCEPT ![r.case] =
                               IF r.op = "transition" THEN @
                               ELSE IF r.finish # Nothing THEN Ended(r.finish, FALSE)
                               ELSE IF r.to = "investigating" /\ @ = NoAttempt THEN Running
                               ELSE @]
              /\ Answered(u, next)
              /\ UNCHANGED records
  /\ UNCHANGED sends

(* FinishAttempt has no key: an attempt that ended already is a success if it
   ended the same way, at the same time if the request names one. *)
FinishAttempt(u) ==
  /\ call[u].pc = "sent" /\ Req(u).op = "finish"
  /\ LET r == Req(u) IN
       IF Finishable(r.case)
         THEN /\ attempt' = [attempt EXCEPT ![r.case] = Ended(r.result, r.timed)]
              /\ Answered(u, Nothing)
              /\ UNCHANGED <<case, events, records>>
       ELSE IF attempt[r.case] \in {Ended(r.result, TRUE), Ended(r.result, r.timed)}
         THEN Answered(u, Nothing) /\ UNCHANGED <<case, events, attempt, records>>
       ELSE Fails(u)
  /\ UNCHANGED sends

(* RecordApproval and RecordDeploymentObservation insert under a key of their
   own or compare with what is stored.  A time the request leaves out is now:
   an approval does not compare it, an observation compares observed_at all
   the same, unless another of its times stands for it. *)
SameRecordAndTime(stored, r) == stored = r /\ r.timed
SameRecord(stored, r) ==
  /\ stored = r
  /\ r.op = "observe" => r.timed

Record(u) ==
  /\ call[u].pc = "sent" /\ Req(u).op \in {"approve", "observe"}
  /\ LET r == Req(u) IN
       IF records[r.key] = Nothing
         THEN /\ records' = [records EXCEPT ![r.key] = r]
              /\ Answered(u, Nothing)
              /\ UNCHANGED <<case, events, attempt>>
       ELSE IF SameRecord(records[r.key], r)
         THEN Answered(u, Nothing) /\ UNCHANGED <<case, events, attempt, records>>
       ELSE Fails(u)
  /\ UNCHANGED sends

-----------------------------------------------------------------------------
(* A client sends a request, against the version it has read, or an earlier
   request that was answered once more. *)
Send(u, r) ==
  /\ call[u].pc # "sent" /\ sends < MaxSends
  /\ r.op \in {"transition", "mutate"} =>
       r.expected = case[r.case].version /\ r.expected < MaxVersion
  /\ sends' = sends + 1
  /\ call' = [call EXCEPT ![u] = [pc |-> "sent", req |-> r]]
  /\ UNCHANGED <<case, events, attempt, records, answers>>

SendAgain(u) ==
  /\ call[u].pc = "answered" /\ sends < MaxSends
  /\ sends' = sends + 1
  /\ call' = [call EXCEPT ![u].pc = "sent"]
  /\ UNCHANGED <<case, events, attempt, records, answers>>

KeysNext == \E u \in Clients :
  \/ CreateCaseWithIdentity(u) \/ TransitionWithUpdate(u) \/ FinishAttempt(u) \/ Record(u)
  \/ \E r \in Requests : Send(u, r)
  \/ SendAgain(u)

KeysSpec == KeysInit /\ [][KeysNext]_keysVars

-----------------------------------------------------------------------------
KeysTypeOK ==
  /\ case \in [Cases -> [version : 0..MaxVersion, status : Status \cup {Absent}]]
  /\ attempt \in [Cases -> [state : AttemptEndings \cup {"none", "running"}, named : BOOLEAN]]
  /\ \A k \in Keys : events[k] # Nothing =>
       /\ events[k].case \in Cases /\ events[k].fingerprint \in Requests
       /\ events[k].result.version \in 1..MaxVersion
  /\ \A k \in RecordKeys : records[k] = Nothing \/ records[k] \in Requests
  /\ \A u \in Clients : /\ call[u].pc \in {"idle", "sent", "answered"}
                        /\ call[u].pc = "idle" \/ Req(u) \in Requests
  /\ sends \in 0..MaxSends

(* The audit trail of a Case explains every version: whoever wrote it and
   however often requests were repeated, each version has exactly one event
   that made it, asked for by somebody who had read the version before, and
   the last one's stored answer is the Case as it is. *)
Makes(k, c, v) ==
  /\ events[k] # Nothing /\ events[k].case = c
  /\ events[k].kind # "open_case_reused" /\ events[k].result.version = v
EventsExplainCase ==
  \A c \in Cases :
    /\ \A v \in 1..case[c].version :
         \E k \in Keys : Makes(k, c, v) /\ \A j \in Keys : Makes(j, c, v) => j = k
    /\ \A k \in Keys : Makes(k, c, case[c].version) => events[k].result = case[c]
    /\ \A k \in Keys, v \in 2..MaxVersion : Makes(k, c, v) => events[k].fingerprint.expected = v - 1
    /\ \A k \in Keys, v \in (case[c].version + 1)..MaxVersion : ~Makes(k, c, v)

(* A key decides: two requests under one key are never both answered with
   success, and all answers to one request are the same, also when the Case
   has moved on since. *)
Family(r) == IF r.op \in {"approve", "observe"} THEN "record"
             ELSE IF r.op = "finish" THEN "none" ELSE "event"
KeyDecides ==
  \A a, b \in answers :
    /\ Family(a.req) # "none" /\ Family(a.req) = Family(b.req) /\ a.req.key = b.req.key
    => a = b

(* A ticket has one open Case, whoever opens one under whatever key. *)
OneOpenCase == \A c, d \in Cases : IsOpen(c) /\ IsOpen(d) => c = d

(* How an attempt ended is never changed, by a late FinishAttempt or by a
   mutation. *)
FinishedForGood ==
  [][\A c \in Cases : attempt[c].state \in AttemptEndings => attempt'[c] = attempt[c]]_keysVars

(* A request that succeeded and is sent again - its answer was lost - is not
   refused, whatever happened in between.  Except an observation that names
   no time: its repetition is a conflict with itself. *)
RetrySucceeds ==
  [][\A u \in Clients :
       /\ call[u].pc = "sent" /\ call'[u].pc = "idle"
       /\ \E a \in answers : a.req = Req(u)
       => Req(u).op = "observe" /\ ~Req(u).timed]_keysVars

(* All of it: a key stands for one request and always gets its first answer,
   and the rows agree with the events that explain them. *)
KeysDecide ==
  /\ [](KeysTypeOK /\ EventsExplainCase /\ KeyDecides /\ OneOpenCase)
  /\ FinishedForGood
  /\ RetrySucceeds
=============================================================================
