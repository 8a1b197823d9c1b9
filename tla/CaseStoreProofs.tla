--------------------------- MODULE CaseStoreProofs ---------------------------
(***************************************************************************)
(* Proofs about CaseStoreKeys for every set of Cases, clients, keys and    *)
(* requests, about StoreOpening for any number of instances, legacy        *)
(* runs, tickets and resets, and every database an earlier release left,   *)
(* and, in the last section, about the inbox of tickets (BugInbox).        *)
(*                                                                         *)
(* That a key decides is a property of answers that were given, perhaps    *)
(* long ago; a step looks at rows.  AnswersStored ties the two: whatever   *)
(* was answered with success is still in the row of its key, or of its     *)
(* attempt, as it was answered.                                            *)
(*                                                                         *)
(* What an instance has open is safe because only one holds a transaction  *)
(* and nobody else writes meanwhile: its image is the committed database,  *)
(* or, during an upgrade, a supported database brought some way forward    *)
(* with everything in it but the schema (ImageFits).  What an instance     *)
(* has verified stays true, as no commit goes back (PastFits).             *)
(***************************************************************************)
EXTENDS CaseStoreKeys, StoreOpening, BugInbox, FiniteSetTheorems, TLAPS

(* The rows of the store. *)
RowsTyped ==
  /\ case \in [Cases -> [version : 0..MaxVersion, status : Status \cup {Absent}]]
  /\ \A c \in Cases : case[c].version > 0 => case[c].status \in Status
  /\ attempt \in [Cases -> [state : AttemptEndings \cup {"none", "running"}, named : BOOLEAN]]
  /\ events \in [Keys -> Events \cup {Nothing}]
  /\ records \in [RecordKeys -> Requests \cup {Nothing}]

(* The clients.  What they ask of a Case leaves its version within the bound. *)
CallsTyped ==
  /\ call \in [Clients -> [pc : {"idle", "sent", "answered"}, req : Requests \cup {Nothing}]]
  /\ \A u \in Clients : call[u].pc # "idle" =>
       /\ Req(u) \in Requests
       /\ Req(u).op \in {"transition", "mutate"} => Req(u).expected < MaxVersion
  /\ answers \subseteq [req : Requests, result : Snapshots \cup {Nothing}]
  /\ sends \in 0..MaxSends

(* An event records a version that its Case has had. *)
EventsArePast ==
  \A k \in Keys : events[k] # Nothing => events[k].result.version \in 1..case[events[k].case].version

(* An attempt that ended as request r asks. *)
EndedAs(r) == attempt[r.case] \in {Ended(r.result, TRUE), Ended(r.result, r.timed)}

Stands(a) ==
  /\ Family(a.req) = "event" =>
       events[a.req.key] # Nothing /\ events[a.req.key].fingerprint = a.req /\ events[a.req.key].result = a.result
  /\ Family(a.req) = "record" => records[a.req.key] = a.req /\ a.result = Nothing
  /\ Family(a.req) = "none" => EndedAs(a.req)

AnswersStored == \A a \in answers : Stands(a)

KeysInv == RowsTyped /\ CallsTyped /\ EventsArePast /\ EventsExplainCase /\ OneOpenCase /\ AnswersStored

-----------------------------------------------------------------------------
(* The fields of a request, by its operation. *)
LEMMA RequestFields ==
  ASSUME CaseStoreKeysAssumption, NEW r \in Requests
  PROVE  /\ r # Nothing
         /\ r.op \in {"create", "transition", "mutate", "finish", "approve", "observe"}
         /\ r.op = "create" => r.key \in Keys /\ r.case \in Cases
         /\ r.op \in {"transition", "mutate"} =>
              /\ r.key \in Keys /\ r.case \in Cases /\ r.expected \in 1..MaxVersion
              /\ r.finish \in AttemptEndings \cup {Nothing}
         /\ r.op = "finish" => r.case \in Cases /\ r.result \in AttemptEndings /\ r.timed \in BOOLEAN
         /\ r.op \in {"approve", "observe"} => r.key \in RecordKeys /\ r.timed \in BOOLEAN
  BY DEF CaseStoreKeysAssumption, EveryRequest

(* No transition leaves a terminal status, and all stay within the statuses. *)
LEMMA TerminalStays ==
  ASSUME NEW s, NEW t, CanTransition(s, t)
  PROVE  s \in Status /\ t \in Status /\ ~IsTerminalCaseStatus(s)
  BY DEF CanTransition, AllowedCaseTransitions, Status, IsTerminalCaseStatus

-----------------------------------------------------------------------------
(* What a request does to the clients, answered or refused. *)
LEMMA PcChanged ==
  ASSUME CallsTyped, NEW u \in Clients, NEW p \in {"sent", "answered"}, call' = [call EXCEPT ![u].pc = p]
  PROVE  \A v \in Clients : call'[v].pc = IF v = u THEN p ELSE call[v].pc
<1> TAKE v \in Clients
<1>1. call[v] \in [pc : {"idle", "sent", "answered"}, req : Requests \cup {Nothing}]
  BY DEF CallsTyped
<1>2. call' = [call EXCEPT ![u].pc = p] /\ DOMAIN call = Clients
  BY DEF CallsTyped
<1>3. QED
  BY <1>1, <1>2

LEMMA AnsweredTyped ==
  ASSUME CallsTyped, NEW u \in Clients, call[u].pc = "sent", UNCHANGED sends,
         NEW x \in Snapshots \cup {Nothing}, Answered(u, x)
  PROVE  CallsTyped'
<1>1. Req(u) \in Requests
  BY DEF CallsTyped
<1>2. answers' \subseteq [req : Requests, result : Snapshots \cup {Nothing}]
  BY <1>1 DEF CallsTyped, Answered
<1>3. \A v \in Clients : call'[v].req = call[v].req /\ call'[v].pc = (IF v = u THEN "answered" ELSE call[v].pc)
  BY DEF CallsTyped, Answered
<1>4. call' \in [Clients -> [pc : {"idle", "sent", "answered"}, req : Requests \cup {Nothing}]]
  BY DEF CallsTyped, Answered
<1>5. QED
  BY <1>2, <1>3, <1>4 DEF CallsTyped, Req

LEMMA RefusedTyped ==
  ASSUME CallsTyped, NEW u \in Clients, UNCHANGED sends, Fails(u)
  PROVE  CallsTyped'
<1>1. call' \in [Clients -> [pc : {"idle", "sent", "answered"}, req : Requests \cup {Nothing}]]
  BY DEF CallsTyped, Fails, IdleClient
<1>2. \A v \in Clients : v # u => call'[v] = call[v]
  BY DEF CallsTyped, Fails
<1>3. call'[u].pc = "idle"
  BY DEF CallsTyped, Fails, IdleClient
<1>4. QED
  BY <1>1, <1>2, <1>3 DEF CallsTyped, Req, Fails

(* A step that writes no row and answers nothing but what stands. *)
LEMMA RowsKept ==
  ASSUME KeysInv, CallsTyped', UNCHANGED <<case, events, attempt, records>>,
         \A a \in answers' : a \in answers \/ Stands(a)
  PROVE  KeysInv'
<1>1. RowsTyped' /\ EventsArePast' /\ EventsExplainCase' /\ OneOpenCase'
  BY DEF KeysInv, RowsTyped, EventsArePast, EventsExplainCase, Makes, OneOpenCase, IsOpen
<1>2. AnswersStored'
  BY DEF KeysInv, AnswersStored, Stands, EndedAs
<1>3. QED
  BY <1>1, <1>2 DEF KeysInv

(* An event under a known key is the answer to the request that made it. *)
LEMMA ReplayKeeps ==
  ASSUME CaseStoreKeysAssumption, KeysInv, NEW u \in Clients, call[u].pc = "sent", UNCHANGED sends,
         Family(Req(u)) = "event", Req(u).key \in Keys, events[Req(u).key] # Nothing, Replay(u)
  PROVE  KeysInv'
<1> DEFINE r == Req(u)
           e == events[r.key]
<1>1. CASE SameRequest(e, r)
  <2>1. e \in Events
    BY DEF KeysInv, RowsTyped
  <2>2. Answered(u, e.result) /\ UNCHANGED <<case, events, attempt, records>>
    BY <1>1 DEF Replay
  <2>3. e.result \in Snapshots
    BY <2>1 DEF Events
  <2>4. CallsTyped'
    BY <2>2, <2>3, AnsweredTyped DEF KeysInv
  <2>5. Stands([req |-> r, result |-> e.result])
    BY <1>1 DEF Stands, SameRequest
  <2>6. QED
    BY <2>2, <2>4, <2>5, RowsKept DEF Answered
<1>2. CASE ~SameRequest(e, r)
  <2>1. Fails(u)
    BY <1>2 DEF Replay
  <2>2. QED
    BY <2>1, RefusedTyped, RowsKept DEF Fails, KeysInv
<1>3. QED
  BY <1>1, <1>2

LEMMA FailsKeeps ==
  ASSUME KeysInv, NEW u \in Clients, UNCHANGED sends, Fails(u)
  PROVE  KeysInv'
  BY RefusedTyped, RowsKept DEF Fails, KeysInv
-----------------------------------------------------------------------------
(* What an event does to the trail of its Case, and to what was answered. *)
LEMMA VersionExplained ==
  ASSUME RowsTyped, EventsArePast, EventsExplainCase, CaseStoreKeysAssumption,
         NEW c \in Cases, NEW k \in Keys, events[k] = Nothing, NEW e \in Events,
         e.case = c, e.kind # "open_case_reused", e.result.version = case[c].version + 1,
         e.result.version >= 2 => e.fingerprint.expected = case[c].version,
         case' = [case EXCEPT ![c] = e.result], events' = [events EXCEPT ![k] = e]
  PROVE  EventsArePast' /\ EventsExplainCase'
<1> DEFINE n == case[c].version
<1>1. n \in Nat /\ case'[c] = e.result /\ case'[c].version = n + 1
  BY DEF RowsTyped
<1>2. \A d \in Cases : d # c => case'[d] = case[d]
  BY DEF RowsTyped
<1>3. events'[k] = e /\ e # Nothing /\ \A j \in Keys : j # k => events'[j] = events[j]
  BY DEF RowsTyped, CaseStoreKeysAssumption
<1>4. \A j \in Keys : events[j] # Nothing =>
         events[j].case \in Cases /\ events[j].result.version \in 1..case[events[j].case].version
  BY DEF RowsTyped, EventsArePast, Events
<1>5. EventsArePast'
  <2> SUFFICES ASSUME NEW j \in Keys, events'[j] # Nothing
               PROVE  events'[j].result.version \in 1..case'[events'[j].case].version
    BY DEF EventsArePast
  <2>1. CASE j = k
    BY <2>1, <1>1, <1>3
  <2>2. CASE j # k /\ events[j].case = c
    BY <2>2, <1>1, <1>3, <1>4
  <2>3. CASE j # k /\ events[j].case # c
    BY <2>3, <1>2, <1>3, <1>4
  <2>4. QED
    BY <2>1, <2>2, <2>3
<1>6. \A j \in Keys : \A d, v : Makes(j, d, v)' <=> Makes(j, d, v) \/ (j = k /\ d = c /\ v = n + 1)
  BY <1>1, <1>3 DEF Makes
<1>7. \A j \in Keys : \A v : Makes(j, c, v) => v \in 1..n
  BY <1>4 DEF Makes
<1>8. EventsExplainCase'
  <2> SUFFICES ASSUME NEW d \in Cases
               PROVE
    /\ \A v \in 1..case'[d].version :
         \E j \in Keys : Makes(j, d, v)' /\ \A i \in Keys : Makes(i, d, v)' => i = j
    /\ \A j \in Keys : Makes(j, d, case[d].version)' => events'[j].result = case'[d]
    /\ \A j \in Keys, v \in 2..MaxVersion : Makes(j, d, v)' => events'[j].fingerprint.expected = v - 1
    /\ \A j \in Keys, v \in (case'[d].version + 1)..MaxVersion : ~Makes(j, d, v)'
    BY DEF EventsExplainCase
  <2>1. CASE d # c
    <3>1. \A j \in Keys : \A v : Makes(j, d, v)' <=> Makes(j, d, v)
      BY <2>1, <1>6
    <3>2. \A j \in Keys : \A v : Makes(j, d, v) => events'[j] = events[j]
      BY <1>3 DEF Makes
    <3>3. case'[d] = case[d]
      BY <2>1, <1>2
    <3>4. QED
      BY <3>1, <3>2, <3>3 DEF EventsExplainCase
  <2>2. CASE d = c
    <3>1. \A v \in 1..case'[c].version :
            \E j \in Keys : Makes(j, c, v)' /\ \A i \in Keys : Makes(i, c, v)' => i = j
      <4> TAKE v \in 1..case'[c].version
      <4>1. CASE v = n + 1
        <5>1. Makes(k, c, v)'
          BY <4>1, <1>6
        <5>2. \A i \in Keys : Makes(i, c, v)' => i = k
          BY <4>1, <1>1, <1>6, <1>7
        <5>3. QED
          BY <5>1, <5>2
      <4>2. CASE v # n + 1
        <5>1. v \in 1..n
          BY <4>2, <1>1
        <5>2. \A i \in Keys : Makes(i, c, v)' <=> Makes(i, c, v)
          BY <4>2, <1>6
        <5>3. \E j \in Keys : Makes(j, c, v) /\ \A i \in Keys : Makes(i, c, v) => i = j
          BY <5>1 DEF EventsExplainCase
        <5>4. QED
          BY <5>2, <5>3
      <4>3. QED
        BY <4>1, <4>2
    <3>2. \A j \in Keys : Makes(j, c, case[c].version)' => events'[j].result = case'[c]
      BY <1>1, <1>3, <1>6, <1>7 DEF Makes
    <3>3. \A j \in Keys, v \in 2..MaxVersion : Makes(j, c, v)' => events'[j].fingerprint.expected = v - 1
      <4> TAKE j \in Keys, v \in 2..MaxVersion
      <4>1. CASE j = k
        BY <4>1, <1>1, <1>3, <1>6 DEF Makes
      <4>2. CASE j # k
        BY <4>2, <1>3, <1>6 DEF EventsExplainCase
      <4>3. QED
        BY <4>1, <4>2
    <3>4. \A j \in Keys, v \in (case'[c].version + 1)..MaxVersion : ~Makes(j, c, v)'
      BY <1>1, <1>6, <1>7
    <3>5. QED
      BY <2>2, <3>1, <3>2, <3>3, <3>4
  <2>3. QED
    BY <2>1, <2>2
<1>9. QED
  BY <1>5, <1>8

LEMMA EventAnswered ==
  ASSUME CaseStoreKeysAssumption, KeysInv, NEW u \in Clients, call[u].pc = "sent", UNCHANGED <<sends, records>>,
         Family(Req(u)) = "event", Req(u).key \in Keys, events[Req(u).key] = Nothing,
         NEW e \in Events, e.fingerprint = Req(u),
         events' = [events EXCEPT ![Req(u).key] = e], Answered(u, e.result),
         \A c \in Cases : attempt[c].state \in AttemptEndings => attempt'[c] = attempt[c]
  PROVE  CallsTyped' /\ AnswersStored'
<1>0. PICK r : r = Req(u)
  OBVIOUS
<1>1. e.result \in Snapshots /\ e # Nothing
  BY DEF Events, CaseStoreKeysAssumption
<1>2. CallsTyped'
  BY <1>1, AnsweredTyped DEF KeysInv
<1>3. ASSUME NEW a \in answers PROVE Stands(a)'
  <2>1. Stands(a) /\ a.req \in Requests
    BY DEF KeysInv, AnswersStored, CallsTyped
  <2>2. Family(a.req) = "event" => a.req.key \in Keys
    BY <2>1, RequestFields DEF Family
  <2>3. Family(a.req) = "event" => events'[a.req.key] = events[a.req.key]
    BY <2>1, <2>2 DEF Stands, KeysInv, RowsTyped
  <2>4. Family(a.req) = "none" => attempt'[a.req.case] = attempt[a.req.case]
    <3> HAVE Family(a.req) = "none"
    <3>1. a.req.op = "finish"
      BY DEF Family
    <3>2. a.req.case \in Cases /\ a.req.result \in AttemptEndings
      BY <2>1, <3>1, RequestFields
    <3>3. attempt[a.req.case].state \in AttemptEndings
      BY <2>1, <3>2 DEF Stands, EndedAs, Ended
    <3>4. QED
      BY <3>2, <3>3
  <2>5. QED
    BY <2>1, <2>3, <2>4 DEF Stands, EndedAs
<1>4. Stands([req |-> r, result |-> e.result])'
  <2>1. events'[r.key] = e
    BY <1>0 DEF KeysInv, RowsTyped
  <2>2. Family(r) = "event"
    BY <1>0
  <2>3. QED
    BY <1>0, <1>1, <2>1, <2>2 DEF Stands
<1>5. QED
  <2>1. answers' = answers \cup {[req |-> r, result |-> e.result]}
    BY <1>0 DEF Answered
  <2>2. QED
    BY <1>2, <1>3, <1>4, <2>1 DEF AnswersStored
-----------------------------------------------------------------------------
(* The operations of the store, one by one. *)
LEMMA CreateKeeps ==
  ASSUME CaseStoreKeysAssumption, KeysInv, NEW u \in Clients, CreateCaseWithIdentity(u)
  PROVE  KeysInv'
<1>0. PICK r : r = Req(u)
  OBVIOUS
<1>1. /\ r \in Requests /\ r.op = "create" /\ r.key \in Keys /\ r.case \in Cases
      /\ Family(r) = "event" /\ call[u].pc = "sent" /\ UNCHANGED sends
  BY <1>0, RequestFields DEF CreateCaseWithIdentity, KeysInv, CallsTyped, Family
<1>2. CASE events[r.key] # Nothing
  BY <1>0, <1>1, <1>2, ReplayKeeps DEF CreateCaseWithIdentity
<1>3. CASE events[r.key] = Nothing /\ Reusable # {}
  <2>1. PICK c \in Reusable :
          /\ events' = [events EXCEPT ![r.key] = Event(r, c, "open_case_reused", case[c])]
          /\ Answered(u, case[c])
          /\ UNCHANGED <<case, attempt, records>>
    BY <1>0, <1>3 DEF CreateCaseWithIdentity
  <2>2. PICK e : e = Event(r, c, "open_case_reused", case[c])
    OBVIOUS
  <2>3. c \in Cases /\ case[c].version \in Nat \ {0} /\ case[c] \in Snapshots
    BY DEF Reusable, IsOpen, KeysInv, RowsTyped, Snapshots
  <2>4. e \in Events /\ e.fingerprint = r /\ e.case = c /\ e.kind = "open_case_reused" /\ e.result = case[c]
    BY <1>1, <2>2, <2>3 DEF Events, Event
  <2>5. CallsTyped' /\ AnswersStored'
    BY <1>0, <1>1, <1>3, <2>1, <2>2, <2>4, EventAnswered
  <2>6. RowsTyped' /\ OneOpenCase'
    BY <1>1, <2>1, <2>2, <2>4 DEF KeysInv, RowsTyped, OneOpenCase, IsOpen
  <2>7. events'[r.key] = e /\ \A j \in Keys : j # r.key => events'[j] = events[j]
    BY <1>1, <2>1, <2>2 DEF KeysInv, RowsTyped
  <2>8. EventsArePast'
    BY <2>1, <2>3, <2>4, <2>7 DEF KeysInv, EventsArePast
  <2>9. \A j \in Keys : \A d, v : Makes(j, d, v)' <=> Makes(j, d, v)
    BY <1>3, <2>4, <2>7 DEF Makes
  <2>10. \A j \in Keys : \A d, v : Makes(j, d, v) => events'[j] = events[j]
    BY <1>3, <2>7 DEF Makes
  <2>11. EventsExplainCase'
    BY <2>1, <2>9, <2>10 DEF KeysInv, EventsExplainCase
  <2>12. QED
    BY <2>5, <2>6, <2>8, <2>11 DEF KeysInv
<1>4. CASE events[r.key] = Nothing /\ Reusable = {} /\ case[r.case].version > 0
  BY <1>0, <1>1, <1>4, FailsKeeps DEF CreateCaseWithIdentity
<1>5. CASE events[r.key] = Nothing /\ Reusable = {} /\ ~(case[r.case].version > 0)
  <2>1. PICK x : x = [version |-> 1, status |-> "pending_investigation"]
    OBVIOUS
  <2>2. PICK e : e = Event(r, r.case, "case_created", x)
    OBVIOUS
  <2>3. /\ case' = [case EXCEPT ![r.case] = x]
        /\ events' = [events EXCEPT ![r.key] = e]
        /\ Answered(u, x)
        /\ UNCHANGED <<attempt, records>>
    BY <1>0, <1>5, <2>1, <2>2 DEF CreateCaseWithIdentity
  <2>4. x \in Snapshots /\ x.version = 1 /\ x.status = "pending_investigation"
    BY <2>1 DEF Snapshots, Status
  <2>5. e \in Events /\ e.fingerprint = r /\ e.case = r.case /\ e.kind = "case_created" /\ e.result = x
    BY <1>1, <2>2, <2>4 DEF Events, Event
  <2>6. case[r.case].version = 0
    BY <1>1, <1>5 DEF KeysInv, RowsTyped
  <2>7. CallsTyped' /\ AnswersStored'
    BY <1>0, <1>1, <1>5, <2>3, <2>5, EventAnswered
  <2>8. EventsArePast' /\ EventsExplainCase'
    <3>1. e.result.version = case[r.case].version + 1 /\ ~(e.result.version >= 2) /\ e.kind # "open_case_reused"
      BY <2>4, <2>5, <2>6
    <3>2. QED
      BY <1>1, <1>5, <2>3, <2>5, <3>1, VersionExplained DEF KeysInv
  <2>9. RowsTyped'
    BY <1>1, <2>1, <2>3, <2>5 DEF KeysInv, RowsTyped, CaseStoreKeysAssumption, Status
  <2>10. \A c \in Cases : IsOpen(c)' => c = r.case
    BY <1>1, <1>5, <2>3 DEF Reusable, IsOpen, KeysInv, RowsTyped
  <2>11. OneOpenCase'
    BY <2>10 DEF OneOpenCase
  <2>12. QED
    BY <2>7, <2>8, <2>9, <2>11 DEF KeysInv
<1>6. QED
  BY <1>2, <1>3, <1>4, <1>5

LEMMA TransitionKeeps ==
  ASSUME CaseStoreKeysAssumption, KeysInv, NEW u \in Clients, TransitionWithUpdate(u)
  PROVE  KeysInv'
<1>0. PICK r : r = Req(u)
  OBVIOUS
<1>1. /\ r \in Requests /\ r.op \in {"transition", "mutate"} /\ r.key \in Keys /\ r.case \in Cases
      /\ r.expected \in 1..MaxVersion /\ r.expected < MaxVersion /\ r.finish \in AttemptEndings \cup {Nothing}
      /\ Family(r) = "event" /\ call[u].pc = "sent" /\ UNCHANGED sends
  BY <1>0, RequestFields DEF TransitionWithUpdate, KeysInv, CallsTyped, Family
<1> DEFINE refused == \/ ~UpToDate(r)
                      \/ ~CanTransition(case[r.case].status, r.to)
                      \/ r.finish # Nothing /\ (r.op = "transition" \/ ~Finishable(r.case))
<1>2. CASE events[r.key] # Nothing
  BY <1>0, <1>1, <1>2, ReplayKeeps DEF TransitionWithUpdate
<1>3. CASE events[r.key] = Nothing /\ refused
  <2>1. Fails(u)
    BY <1>0, <1>3 DEF TransitionWithUpdate
  <2>2. QED
    BY <1>1, <2>1, FailsKeeps
<1>4. CASE events[r.key] = Nothing /\ ~refused
  <2>1. PICK x : x = [version |-> case[r.case].version + 1, status |-> r.to]
    OBVIOUS
  <2>2. PICK e : e = Event(r, r.case, IF r.op = "mutate" THEN "compound_mutation" ELSE "transition", x)
    OBVIOUS
  <2>3. /\ case' = [case EXCEPT ![r.case] = x]
        /\ events' = [events EXCEPT ![r.key] = e]
        /\ Answered(u, x)
        /\ UNCHANGED records
    BY <1>0, <1>4, <2>1, <2>2 DEF TransitionWithUpdate
  <2>4. attempt' = [attempt EXCEPT ![r.case] =
                      IF r.op = "transition" THEN @
                      ELSE IF r.finish # Nothing THEN Ended(r.finish, FALSE)
                      ELSE IF r.to = "investigating" /\ @ = NoAttempt THEN Running
                      ELSE @]
    BY <1>0, <1>4 DEF TransitionWithUpdate
  <2>5. /\ case[r.case].version = r.expected
        /\ case[r.case].status \in Status /\ ~IsTerminalCaseStatus(case[r.case].status) /\ r.to \in Status
    BY <1>4, TerminalStays DEF UpToDate
  <2>6. x \in Snapshots /\ x.version = case[r.case].version + 1 /\ x.version \in 2..MaxVersion /\ x.status = r.to
    BY <1>1, <2>1, <2>5 DEF Snapshots, CaseStoreKeysAssumption
  <2>7. e \in Events /\ e.fingerprint = r /\ e.case = r.case /\ e.kind # "open_case_reused" /\ e.result = x
    BY <1>1, <2>2, <2>6 DEF Events, Event
  <2>8. r.finish # Nothing => attempt[r.case] = Running
    BY <1>4 DEF Finishable
  <2>9. \A c \in Cases : attempt[c].state \in AttemptEndings => attempt'[c] = attempt[c]
    BY <1>1, <2>4, <2>8 DEF KeysInv, RowsTyped, Running, NoAttempt, Ended, AttemptEndings
  <2>10. CallsTyped' /\ AnswersStored'
    BY <1>0, <1>1, <1>4, <2>3, <2>7, <2>9, EventAnswered
  <2>11. EventsArePast' /\ EventsExplainCase'
    BY <1>1, <1>4, <2>3, <2>5, <2>6, <2>7, VersionExplained DEF KeysInv
  <2>12. RowsTyped'
    <3>1. attempt' \in [Cases -> [state : AttemptEndings \cup {"none", "running"}, named : BOOLEAN]]
      BY <1>1, <2>4 DEF KeysInv, RowsTyped, Running, NoAttempt, Ended, AttemptEndings
    <3>2. case' \in [Cases -> [version : 0..MaxVersion, status : Status \cup {Absent}]]
      BY <1>1, <2>1, <2>3, <2>5, <2>6 DEF KeysInv, RowsTyped
    <3>3. \A c \in Cases : case'[c].version > 0 => case'[c].status \in Status
      BY <1>1, <2>3, <2>5, <2>6 DEF KeysInv, RowsTyped
    <3>4. QED
      BY <3>1, <3>2, <3>3, <1>1, <2>3, <2>7 DEF KeysInv, RowsTyped
  <2>13. OneOpenCase'
    <3>1. \A c \in Cases : c # r.case => case'[c] = case[c]
      BY <2>3 DEF KeysInv, RowsTyped
    <3>2. IsOpen(r.case)
      BY <1>1, <2>5 DEF IsOpen
    <3>3. \A c \in Cases : IsOpen(c)' => IsOpen(c)
      BY <3>1, <3>2 DEF IsOpen
    <3>4. QED
      BY <3>3 DEF KeysInv, OneOpenCase
  <2>14. QED
    BY <2>10, <2>11, <2>12, <2>13 DEF KeysInv
<1>5. QED
  BY <1>2, <1>3, <1>4

LEMMA FinishKeeps ==
  ASSUME CaseStoreKeysAssumption, KeysInv, NEW u \in Clients, FinishAttempt(u)
  PROVE  KeysInv'
<1>0. PICK r : r = Req(u)
  OBVIOUS
<1>1. /\ r \in Requests /\ r.op = "finish" /\ r.case \in Cases /\ r.result \in AttemptEndings /\ r.timed \in BOOLEAN
      /\ Family(r) = "none" /\ call[u].pc = "sent" /\ UNCHANGED sends
  BY <1>0, RequestFields DEF FinishAttempt, KeysInv, CallsTyped, Family
<1>2. CASE Finishable(r.case)
  <2>1. /\ attempt' = [attempt EXCEPT ![r.case] = Ended(r.result, r.timed)]
        /\ Answered(u, Nothing) /\ UNCHANGED <<case, events, records>>
    BY <1>0, <1>2 DEF FinishAttempt
  <2>2. CallsTyped'
    BY <1>1, <2>1, AnsweredTyped DEF KeysInv
  <2>3. RowsTyped'
    BY <1>1, <2>1 DEF KeysInv, RowsTyped, Ended
  <2>4. EventsArePast' /\ EventsExplainCase' /\ OneOpenCase'
    BY <2>1 DEF KeysInv, EventsArePast, EventsExplainCase, Makes, OneOpenCase, IsOpen
  <2>5. ASSUME NEW a \in answers PROVE Stands(a)'
    <3>1. Stands(a) /\ a.req \in Requests
      BY DEF KeysInv, AnswersStored, CallsTyped
    <3>2. CASE Family(a.req) = "none"
      <4>1. a.req.case \in Cases /\ a.req.result \in AttemptEndings
        BY <3>1, <3>2, RequestFields DEF Family
      <4>2. a.req.case # r.case
        BY <1>2, <3>1, <3>2, <4>1 DEF Finishable, Running, Stands, EndedAs, Ended, AttemptEndings
      <4>3. attempt'[a.req.case] = attempt[a.req.case]
        BY <2>1, <4>1, <4>2 DEF KeysInv, RowsTyped
      <4>4. QED
        BY <3>1, <3>2, <4>3 DEF Stands, EndedAs
    <3>3. CASE Family(a.req) # "none"
      BY <2>1, <3>1, <3>3 DEF Stands
    <3>4. QED
      BY <3>2, <3>3
  <2>6. Stands([req |-> r, result |-> Nothing])'
    BY <1>1, <2>1 DEF Stands, EndedAs, KeysInv, RowsTyped
  <2>7. answers' = answers \cup {[req |-> r, result |-> Nothing]}
    BY <1>0, <2>1 DEF Answered
  <2>8. QED
    BY <2>2, <2>3, <2>4, <2>5, <2>6, <2>7 DEF KeysInv, AnswersStored
<1>3. CASE ~Finishable(r.case) /\ EndedAs(r)
  <2>1. Answered(u, Nothing) /\ UNCHANGED <<case, events, attempt, records>>
    BY <1>0, <1>3 DEF FinishAttempt, EndedAs
  <2>2. CallsTyped'
    BY <1>1, <2>1, AnsweredTyped DEF KeysInv
  <2>3. Stands([req |-> r, result |-> Nothing])
    BY <1>1, <1>3 DEF Stands, EndedAs
  <2>4. answers' = answers \cup {[req |-> r, result |-> Nothing]}
    BY <1>0, <2>1 DEF Answered
  <2>5. QED
    BY <2>1, <2>2, <2>3, <2>4, RowsKept
<1>4. CASE ~Finishable(r.case) /\ ~EndedAs(r)
  <2>1. Fails(u)
    BY <1>0, <1>4 DEF FinishAttempt, EndedAs
  <2>2. QED
    BY <1>1, <2>1, FailsKeeps
<1>5. QED
  BY <1>2, <1>3, <1>4

LEMMA RecordKeeps ==
  ASSUME CaseStoreKeysAssumption, KeysInv, NEW u \in Clients, Record(u)
  PROVE  KeysInv'
<1>0. PICK r : r = Req(u)
  OBVIOUS
<1>1. /\ r \in Requests /\ r.op \in {"approve", "observe"} /\ r.key \in RecordKeys /\ r # Nothing
      /\ Family(r) = "record" /\ call[u].pc = "sent" /\ UNCHANGED sends
  BY <1>0, RequestFields DEF Record, KeysInv, CallsTyped, Family
<1>2. answers' = answers \cup {[req |-> r, result |-> Nothing]} \/ ~Answered(u, Nothing)
  BY <1>0 DEF Answered
<1>3. CASE records[r.key] = Nothing
  <2>1. /\ records' = [records EXCEPT ![r.key] = r]
        /\ Answered(u, Nothing) /\ UNCHANGED <<case, events, attempt>>
    BY <1>0, <1>3 DEF Record
  <2>2. CallsTyped'
    BY <1>1, <2>1, AnsweredTyped DEF KeysInv
  <2>3. RowsTyped'
    BY <1>1, <2>1 DEF KeysInv, RowsTyped
  <2>4. EventsArePast' /\ EventsExplainCase' /\ OneOpenCase'
    BY <2>1 DEF KeysInv, EventsArePast, EventsExplainCase, Makes, OneOpenCase, IsOpen
  <2>5. ASSUME NEW a \in answers PROVE Stands(a)'
    <3>1. Stands(a) /\ a.req \in Requests
      BY DEF KeysInv, AnswersStored, CallsTyped
    <3>2. Family(a.req) = "record" => a.req.key \in RecordKeys /\ a.req # Nothing
      BY <3>1, RequestFields DEF Family
    <3>3. Family(a.req) = "record" => records'[a.req.key] = records[a.req.key]
      BY <1>3, <2>1, <3>1, <3>2 DEF Stands, KeysInv, RowsTyped
    <3>4. QED
      BY <2>1, <3>1, <3>3 DEF Stands, EndedAs
  <2>6. Stands([req |-> r, result |-> Nothing])'
    BY <1>1, <2>1 DEF Stands, KeysInv, RowsTyped
  <2>7. QED
    BY <1>2, <2>1, <2>2, <2>3, <2>4, <2>5, <2>6 DEF KeysInv, AnswersStored
<1>4. CASE records[r.key] # Nothing /\ SameRecord(records[r.key], r)
  <2>1. Answered(u, Nothing) /\ UNCHANGED <<case, events, attempt, records>>
    BY <1>0, <1>4 DEF Record
  <2>2. CallsTyped'
    BY <1>1, <2>1, AnsweredTyped DEF KeysInv
  <2>3. Stands([req |-> r, result |-> Nothing])
    BY <1>1, <1>4 DEF Stands, SameRecord
  <2>4. QED
    BY <1>2, <2>1, <2>2, <2>3, RowsKept
<1>5. CASE records[r.key] # Nothing /\ ~SameRecord(records[r.key], r)
  <2>1. Fails(u)
    BY <1>0, <1>5 DEF Record
  <2>2. QED
    BY <1>1, <2>1, FailsKeeps
<1>6. QED
  BY <1>3, <1>4, <1>5

(* A request goes out: no row changes and nothing is answered. *)
LEMMA SendKeeps ==
  ASSUME CaseStoreKeysAssumption, KeysInv, NEW u \in Clients,
         SendAgain(u) \/ \E r \in Requests : Send(u, r)
  PROVE  KeysInv'
<1>1. call' \in [Clients -> [pc : {"idle", "sent", "answered"}, req : Requests \cup {Nothing}]]
  BY DEF KeysInv, CallsTyped, Send, SendAgain
<1>2. \A v \in Clients : v # u => call'[v] = call[v]
  BY DEF KeysInv, CallsTyped, Send, SendAgain
<1>3. /\ Req(u)' \in Requests
      /\ Req(u)'.op \in {"transition", "mutate"} => Req(u)'.expected < MaxVersion
  <2>1. CASE SendAgain(u)
    <3>1. Req(u)' = Req(u) /\ call[u].pc # "idle"
      BY <2>1 DEF SendAgain, KeysInv, CallsTyped, Req
    <3>2. QED
      BY <3>1 DEF KeysInv, CallsTyped
  <2>2. ASSUME NEW r \in Requests, Send(u, r)
        PROVE  /\ Req(u)' \in Requests
               /\ Req(u)'.op \in {"transition", "mutate"} => Req(u)'.expected < MaxVersion
    <3>1. Req(u)' = r
      BY <2>2 DEF Send, KeysInv, CallsTyped, Req
    <3>2. QED
      BY <2>2, <3>1 DEF Send
  <2>3. QED
    BY <2>1, <2>2
<1>4. sends' \in 0..MaxSends
  BY DEF KeysInv, CallsTyped, Send, SendAgain, CaseStoreKeysAssumption
<1>5. answers' = answers /\ UNCHANGED <<case, events, attempt, records>>
  BY DEF Send, SendAgain
<1>6. CallsTyped'
  BY <1>1, <1>2, <1>3, <1>4, <1>5 DEF KeysInv, CallsTyped, Req
<1>7. QED
  BY <1>5, <1>6, RowsKept
-----------------------------------------------------------------------------
(* What was answered stands, and the trail explains every Case: the inductive
   invariant of the store's keys. *)
THEOREM KeysInvHolds == ASSUME CaseStoreKeysAssumption PROVE KeysSpec => []KeysInv
<1>1. KeysInit => KeysInv
  <2> SUFFICES ASSUME KeysInit PROVE KeysInv
    OBVIOUS
  <2>1. RowsTyped /\ EventsArePast
    BY DEF KeysInit, RowsTyped, EventsArePast, CaseStoreKeysAssumption, NoCase, NoAttempt, Ended
  <2>2. CallsTyped
    BY DEF KeysInit, CallsTyped, CaseStoreKeysAssumption, IdleClient
  <2>3. EventsExplainCase /\ OneOpenCase /\ AnswersStored
    BY DEF KeysInit, EventsExplainCase, Makes, OneOpenCase, IsOpen, NoCase, AnswersStored
  <2>4. QED
    BY <2>1, <2>2, <2>3 DEF KeysInv
<1>2. KeysInv /\ [KeysNext]_keysVars => KeysInv'
  <2> SUFFICES ASSUME KeysInv, [KeysNext]_keysVars PROVE KeysInv'
    OBVIOUS
  <2>1. CASE UNCHANGED keysVars
    <3>1. CallsTyped' /\ answers' = answers /\ UNCHANGED <<case, events, attempt, records>>
      BY <2>1 DEF keysVars, KeysInv, CallsTyped, Req
    <3>2. QED
      BY <3>1, RowsKept
  <2>2. ASSUME NEW u \in Clients,
               \/ CreateCaseWithIdentity(u) \/ TransitionWithUpdate(u) \/ FinishAttempt(u) \/ Record(u)
               \/ \E r \in Requests : Send(u, r)
               \/ SendAgain(u)
        PROVE  KeysInv'
    BY <2>2, CreateKeeps, TransitionKeeps, FinishKeeps, RecordKeeps, SendKeeps
  <2>3. QED
    BY <2>1, <2>2 DEF KeysNext
<1>3. QED
  BY <1>1, <1>2, PTL DEF KeysSpec

(* Type correctness, with the bound on versions that the callers' requests keep. *)
THEOREM KeysTypeCorrect == ASSUME CaseStoreKeysAssumption PROVE KeysSpec => []KeysTypeOK
<1>1. KeysInv => KeysTypeOK
  <2> SUFFICES ASSUME KeysInv PROVE KeysTypeOK
    OBVIOUS
  <2>1. ASSUME NEW k \in Keys, events[k] # Nothing
        PROVE  /\ events[k].case \in Cases /\ events[k].fingerprint \in Requests
               /\ events[k].result.version \in 1..MaxVersion
    <3>1. events[k] \in Events
      BY <2>1 DEF KeysInv, RowsTyped
    <3>2. events[k].case \in Cases /\ events[k].fingerprint \in Requests
      BY <3>1 DEF Events
    <3>3. events[k].result.version \in 1..case[events[k].case].version
      BY <2>1 DEF KeysInv, EventsArePast
    <3>4. case[events[k].case].version \in 0..MaxVersion
      BY <3>2 DEF KeysInv, RowsTyped
    <3>5. QED
      BY <3>2, <3>3, <3>4 DEF CaseStoreKeysAssumption
  <2>2. QED
    BY <2>1 DEF KeysInv, RowsTyped, CallsTyped, KeysTypeOK
<1>2. QED
  BY <1>1, KeysInvHolds, PTL

(* Every version of a Case has exactly one event, made by somebody who had read
   the version before it. *)
THEOREM EventsExplain == ASSUME CaseStoreKeysAssumption PROVE KeysSpec => []EventsExplainCase
<1>1. KeysInv => EventsExplainCase
  BY DEF KeysInv
<1>2. QED
  BY <1>1, KeysInvHolds, PTL

(* A key has one request and one answer, for good. *)
THEOREM KeysAnswerOnce == ASSUME CaseStoreKeysAssumption PROVE KeysSpec => []KeyDecides
<1>1. KeysInv => KeyDecides
  <2> SUFFICES ASSUME KeysInv, NEW a \in answers, NEW b \in answers, Family(a.req) # "none",
                      Family(a.req) = Family(b.req), a.req.key = b.req.key
               PROVE  a = b
    BY DEF KeyDecides
  <2>1. Stands(a) /\ Stands(b)
    BY DEF KeysInv, AnswersStored
  <2>2. a.req = b.req /\ a.result = b.result
    BY <2>1 DEF Stands, Family
  <2>3. QED
    BY <2>2 DEF KeysInv, CallsTyped
<1>2. QED
  BY <1>1, KeysInvHolds, PTL

(* A ticket has at most one open Case, whatever keys its clients use. *)
THEOREM OneCaseIsOpen == ASSUME CaseStoreKeysAssumption PROVE KeysSpec => []OneOpenCase
<1>1. KeysInv => OneOpenCase
  BY DEF KeysInv
<1>2. QED
  BY <1>1, KeysInvHolds, PTL

(* How an attempt ended is not changed by any later request. *)
THEOREM EndsAreFinal == ASSUME CaseStoreKeysAssumption PROVE KeysSpec => FinishedForGood
<1> DEFINE Final == \A c \in Cases : attempt[c].state \in AttemptEndings => attempt'[c] = attempt[c]
<1>1. KeysInv /\ [KeysNext]_keysVars => [Final]_keysVars
  <2> SUFFICES ASSUME KeysInv, NEW u \in Clients,
                      \/ CreateCaseWithIdentity(u) \/ TransitionWithUpdate(u) \/ FinishAttempt(u) \/ Record(u)
                      \/ \E r \in Requests : Send(u, r)
                      \/ SendAgain(u)
               PROVE  Final
    BY DEF KeysNext
  <2>1. CASE TransitionWithUpdate(u)
    <3>1. PICK r : r = Req(u)
      OBVIOUS
    <3>2. \/ attempt' = attempt
          \/ /\ r.finish # Nothing => attempt[r.case] = Running
             /\ attempt' = [attempt EXCEPT ![r.case] =
                              IF r.op = "transition" THEN @
                              ELSE IF r.finish # Nothing THEN Ended(r.finish, FALSE)
                              ELSE IF r.to = "investigating" /\ @ = NoAttempt THEN Running
                              ELSE @]
      BY <2>1, <3>1 DEF TransitionWithUpdate, Replay, Fails, Finishable
    <3>3. QED
      BY <3>2 DEF KeysInv, RowsTyped, Running, NoAttempt, Ended, AttemptEndings
  <2>2. CASE FinishAttempt(u)
    BY <2>2 DEF FinishAttempt, Finishable, Fails, KeysInv, RowsTyped, Running, Ended, AttemptEndings
  <2>3. CASE ~TransitionWithUpdate(u) /\ ~FinishAttempt(u)
    <3>1. attempt' = attempt
      BY <2>3 DEF CreateCaseWithIdentity, Record, Replay, Fails, Send, SendAgain
    <3>2. QED
      BY <3>1
  <2>4. QED
    BY <2>1, <2>2, <2>3
<1>2. QED
  BY <1>1, KeysInvHolds, PTL DEF KeysSpec, FinishedForGood

(* A request whose answer was lost is answered when it is sent again, except for
   an observation that names no time. *)
THEOREM RetriesSucceed == ASSUME CaseStoreKeysAssumption PROVE KeysSpec => RetrySucceeds
<1> DEFINE Refused(u) ==
             /\ call[u].pc = "sent" /\ call'[u].pc = "idle"
             /\ \E a \in answers : a.req = Req(u)
<1>1. ASSUME KeysInv, KeysNext, NEW v \in Clients, Refused(v)
      PROVE  Req(v).op = "observe" /\ ~Req(v).timed
  <2>0. CallsTyped
    BY <1>1 DEF KeysInv
  <2>1. PICK a \in answers : a.req = Req(v)
    BY <1>1
  <2>2. Stands(a) /\ call[v].pc = "sent" /\ call'[v].pc = "idle" /\ Req(v) \in Requests
    BY <1>1, <2>1 DEF KeysInv, AnswersStored, CallsTyped
  <2>3. PICK u \in Clients :
          \/ CreateCaseWithIdentity(u) \/ TransitionWithUpdate(u) \/ FinishAttempt(u) \/ Record(u)
          \/ \E r \in Requests : Send(u, r)
          \/ SendAgain(u)
    BY <1>1 DEF KeysNext
  <2>4. u = v /\ ~SendAgain(u) /\ ~\E r \in Requests : Send(u, r)
    <3>1. CASE SendAgain(u)
      <4>1. call'[v].pc = IF v = u THEN "sent" ELSE call[v].pc
        BY <2>0, <3>1, PcChanged DEF SendAgain
      <4>2. QED
        BY <2>2, <4>1
    <3>2. CASE \E r \in Requests : Send(u, r)
      <4>1. PICK r \in Requests : call' = [call EXCEPT ![u] = [pc |-> "sent", req |-> r]]
        BY <3>2 DEF Send
      <4>2. call'[v].pc = IF v = u THEN "sent" ELSE call[v].pc
        BY <2>0, <4>1 DEF CallsTyped
      <4>3. QED
        BY <2>2, <4>2
    <3>3. CASE CreateCaseWithIdentity(u) \/ TransitionWithUpdate(u) \/ FinishAttempt(u) \/ Record(u)
      <4>1. Fails(u) \/ \E x : Answered(u, x)
        BY <3>3 DEF CreateCaseWithIdentity, TransitionWithUpdate, FinishAttempt, Record, Replay
      <4>2. Fails(u)
        <5>1. ASSUME NEW x, Answered(u, x) PROVE FALSE
          <6>1. call' = [call EXCEPT ![u].pc = "answered"]
            BY <5>1 DEF Answered
          <6>2. call'[v].pc = IF v = u THEN "answered" ELSE call[v].pc
            BY <2>0, <6>1, PcChanged
          <6>3. QED
            BY <2>2, <6>2
        <5>2. QED
          BY <4>1, <5>1
      <4>3. u # v => call'[v] = call[v]
        BY <2>0, <4>2 DEF Fails, CallsTyped
      <4>4. call[u].pc = "sent"
        BY <3>3 DEF CreateCaseWithIdentity, TransitionWithUpdate, FinishAttempt, Record
      <4>5. u = v
        BY <2>2, <4>3
      <4>6. QED
        BY <2>2, <4>4, <4>5 DEF Send, SendAgain
    <3>4. QED
      BY <2>3, <3>1, <3>2, <3>3
  <2>5. ASSUME NEW x, Answered(v, x) PROVE FALSE
    <3>1. call' = [call EXCEPT ![v].pc = "answered"]
      BY <2>5 DEF Answered
    <3>2. call'[v].pc = "answered"
      BY <2>0, <3>1, PcChanged
    <3>3. QED
      BY <2>2, <3>2
  <2>6. CASE CreateCaseWithIdentity(v) \/ TransitionWithUpdate(v)
    <3>1. Family(Req(v)) = "event"
      BY <2>6 DEF CreateCaseWithIdentity, TransitionWithUpdate, Family
    <3>2. events[Req(v).key] # Nothing /\ events[Req(v).key].fingerprint = Req(v)
      BY <2>1, <2>2, <3>1 DEF Stands
    <3>3. Replay(v)
      BY <2>6, <3>2 DEF CreateCaseWithIdentity, TransitionWithUpdate
    <3>4. Answered(v, events[Req(v).key].result)
      BY <3>2, <3>3 DEF Replay, SameRequest
    <3>5. QED
      BY <2>5, <3>4
  <2>7. CASE FinishAttempt(v)
    <3>1. EndedAs(Req(v))
      BY <2>1, <2>2, <2>7 DEF FinishAttempt, Family, Stands
    <3>2. Answered(v, Nothing)
      BY <2>7, <3>1 DEF FinishAttempt, EndedAs
    <3>3. QED
      BY <2>5, <3>2
  <2>8. CASE Record(v)
    <3>1. records[Req(v).key] = Req(v) /\ Req(v).op \in {"approve", "observe"}
      BY <2>1, <2>2, <2>8 DEF Record, Family, Stands
    <3>2. ~SameRecord(records[Req(v).key], Req(v))
      BY <2>5, <2>8, <3>1 DEF Record
    <3>3. QED
      BY <3>1, <3>2 DEF SameRecord
  <2>9. QED
    BY <2>3, <2>4, <2>6, <2>7, <2>8
<1>2. KeysInv /\ [KeysNext]_keysVars =>
        [\A u \in Clients : Refused(u) => Req(u).op = "observe" /\ ~Req(u).timed]_keysVars
  BY <1>1
<1>3. QED
  BY <1>2, KeysInvHolds, PTL DEF KeysSpec, RetrySucceeds

-----------------------------------------------------------------------------
(***************************************************************************)
(* Opening the store.                                                      *)
(***************************************************************************)
Locked == {"version", "upgrade", "retire", "import"}
Served == {"read", "begin import", "import", "open"}
Verified == Served \cup {"scope", "retire"}
Steps == Locked \cup Verified \cup {"closed", "refused"}

Types ==
  /\ db \in Db /\ tx \in Db
  /\ holder \subseteq Openers /\ pc \in [Openers -> Steps]
  /\ batch \in [Openers -> Files] /\ file \in [runs : Files, partial : BOOLEAN]
  /\ writes \in 0..MaxWrites /\ deaths \in 0..MaxDeaths

HolderFits ==
  /\ \A p, q \in holder : p = q
  /\ \A p \in Openers : pc[p] \in Locked <=> p \in holder

(* The cancellation of every reset is what the audit proves, or unknown, and
   what is retired is retired. *)
Consistent(d) ==
  /\ \A r \in Resets : /\ d.version >= 7 => d.ops[r] # "none"
                       /\ d.ops[r] \in {"succeeded", "failed"} => d.audit[r] = d.ops[r]
  /\ d.retired => d.verification = "legacy_archived" /\ d.attempt = "cancelled"

Current(d) == d.version = workflowStoreSchemaVersion /\ verifyWorkflowSchemaMarker(d)

(* An upgrade changes the schema and the outbox of the resets. *)
SameContent(d, e) ==
  /\ d.attempts = e.attempts /\ d.cases = e.cases /\ d.imports = e.imports
  /\ d.retired = e.retired /\ d.bound = e.bound

Upgradable(d) ==
  \/ d.version = 0 /\ ~d.objects
  \/ d.version \in 1..12 /\ verifyWorkflowSchemaMarker(d)

UpgradeFits ==
  \/ db.version = workflowStoreSchemaVersion /\ tx = db
  \/ /\ Upgradable(db) /\ SameContent(tx, db)
     /\ tx.version \in 1..workflowStoreSchemaVersion /\ verifyWorkflowSchemaMarker(tx)
     /\ tx.version >= 7 /\ db.version \in 1..6 => \A r \in Resets : db.bound[r]

ImageFits ==
  \A p \in Openers :
    /\ pc[p] = "upgrade" => UpgradeFits
    /\ pc[p] \in Locked \ {"upgrade"} => tx = db

PastFits ==
  \A p \in Openers :
    /\ pc[p] \in Verified => Current(db)
    /\ pc[p] \in Served => db.retired

OpenInv == Types /\ HolderFits /\ Consistent(db) /\ Consistent(tx) /\ ImageFits /\ PastFits

-----------------------------------------------------------------------------
(* What the images that are written make of a database. *)

LEMMA DbFields ==
  ASSUME NEW d \in Db
  PROVE  /\ d.version \in 0..14 /\ d.marker \in 0..14 /\ d.sound \in BOOLEAN /\ d.objects \in BOOLEAN
         /\ d.columns \in SUBSET {"sha256", "json"}
         /\ d.audit \in [Resets -> Audit] /\ d.bound \in [Resets -> BOOLEAN]
         /\ d.ops \in [Resets -> Outcome] /\ d.retired \in BOOLEAN
         /\ d.imports \subseteq Files /\ d.cases \subseteq Bugs /\ d.attempts \in [Runs -> Attempt]
BY DEF Db, Versions, workflowStoreSchemaVersion

(* A database created from nothing is version 1 with nothing else changed. *)
Created(d) == [d EXCEPT !.version = 1, !.marker = 1, !.sound = TRUE, !.objects = TRUE]

LEMMA CreatedFits ==
  ASSUME NEW d \in Db, Consistent(d)
  PROVE  /\ Created(d) \in Db /\ Consistent(Created(d)) /\ SameContent(Created(d), d)
         /\ Created(d).version = 1 /\ verifyWorkflowSchemaMarker(Created(d))
<1> 1 \in Versions
  BY DEF Versions, workflowStoreSchemaVersion
<1>1. Created(d) \in Db
  BY DEF Created, Db
<1>2. /\ Created(d).version = 1 /\ Created(d).marker = 1 /\ Created(d).sound = TRUE
      /\ Created(d).audit = d.audit /\ Created(d).ops = d.ops
      /\ Created(d).verification = d.verification /\ Created(d).attempt = d.attempt
      /\ SameContent(Created(d), d)
  BY DEF Created, Db, SameContent
<1>3. QED
  BY <1>1, <1>2 DEF Consistent, SameContent, verifyWorkflowSchemaMarker, workflowSchemaFingerprint

LEMMA StampedFits ==
  ASSUME NEW d \in Db, Consistent(d), verifyWorkflowSchemaMarker(d), NEW v \in 1..13,
         v < 7 \/ d.version >= 7
  PROVE  /\ Stamped(d, v) \in Db /\ Consistent(Stamped(d, v)) /\ SameContent(Stamped(d, v), d)
         /\ Stamped(d, v).version = v /\ verifyWorkflowSchemaMarker(Stamped(d, v))
<1> v \in Versions
  BY DEF Versions, workflowStoreSchemaVersion
<1>1. Stamped(d, v) \in Db
  BY DEF Stamped, Db
<1>2. /\ Stamped(d, v).version = v /\ Stamped(d, v).marker = v /\ Stamped(d, v).sound = d.sound
      /\ Stamped(d, v).audit = d.audit /\ Stamped(d, v).ops = d.ops
      /\ Stamped(d, v).verification = d.verification /\ Stamped(d, v).attempt = d.attempt
      /\ SameContent(Stamped(d, v), d)
  BY DEF Stamped, Db, SameContent
<1>3. v >= 7 => d.version >= 7
  BY DbFields
<1>4. QED
  BY <1>1, <1>2, <1>3 DEF Consistent, SameContent, verifyWorkflowSchemaMarker, workflowSchemaFingerprint

(* Version 7 gives each reset the outcome that its audit proves. *)
LEMMA BackfilledFits ==
  ASSUME NEW d \in Db, Consistent(d), verifyWorkflowSchemaMarker(d)
  PROVE  LET e == Stamped(backfillV6ResetCancellations(d), 7) IN
         /\ e \in Db /\ Consistent(e) /\ SameContent(e, d)
         /\ e.version = 7 /\ verifyWorkflowSchemaMarker(e)
<1> DEFINE ops == [r \in Resets |-> legacyResetCancellationAuditOutcome(d, r)]
           b == backfillV6ResetCancellations(d)
           e == Stamped(b, 7)
<1>1. \A r \in Resets : /\ ops[r] \in Outcome /\ ops[r] # "none"
                        /\ ops[r] \in {"succeeded", "failed"} => d.audit[r] = ops[r]
  BY DbFields DEF legacyResetCancellationAuditOutcome, Audit, Outcome
<1>2. b = [d EXCEPT !.ops = ops]
  BY DEF backfillV6ResetCancellations
<1>3. ops \in [Resets -> Outcome]
  BY <1>1
<1> HIDE DEF ops, b
<1>4. b \in Db
  BY <1>2, <1>3 DEF Db
<1> 7 \in Versions
  BY DEF Versions, workflowStoreSchemaVersion
<1>5. e \in Db
  BY <1>4 DEF Stamped, Db
<1>6. /\ e.version = 7 /\ e.marker = 7 /\ e.sound = d.sound /\ e.audit = d.audit /\ e.ops = ops
      /\ e.verification = d.verification /\ e.attempt = d.attempt /\ SameContent(e, d)
  BY <1>2, <1>4 DEF Stamped, Db, SameContent
<1> HIDE DEF e
<1>7. Consistent(e) /\ verifyWorkflowSchemaMarker(e)
  BY <1>1, <1>6 DEF Consistent, SameContent, verifyWorkflowSchemaMarker, workflowSchemaFingerprint
<1>8. QED
  BY <1>5, <1>6, <1>7 DEF e, b

LEMMA WithColumnsFits ==
  ASSUME NEW d \in Db, Consistent(d)
  PROVE  LET e == [d EXCEPT !.columns = @ \cup ({"sha256", "json"} \ @)] IN
         /\ e \in Db /\ Consistent(e) /\ SameContent(e, d)
         /\ e.version = d.version
         /\ verifyWorkflowSchemaMarker(d) => verifyWorkflowSchemaMarker(e)
<1> DEFINE e == [d EXCEPT !.columns = @ \cup ({"sha256", "json"} \ @)]
<1>1. e \in Db
  BY DEF Db
<1>2. /\ e.version = d.version /\ e.marker = d.marker /\ e.sound = d.sound /\ e.audit = d.audit /\ e.ops = d.ops
      /\ e.verification = d.verification /\ e.attempt = d.attempt /\ SameContent(e, d)
  BY DEF Db, SameContent
<1> HIDE DEF e
<1>3. QED
  BY <1>1, <1>2 DEF e, Consistent, SameContent, verifyWorkflowSchemaMarker, workflowSchemaFingerprint

-----------------------------------------------------------------------------
(***************************************************************************)
(* The kinds of steps.                                                     *)
(***************************************************************************)

(* What p does outside of a transaction, or by losing it. *)
LEMMA LeavesKeepInv ==
  ASSUME OpenInv, Types', NEW p \in Openers, NEW s \in Steps \ Locked,
         db' = db, tx' = tx, holder' = holder \ {p}, pc' = [pc EXCEPT ![p] = s],
         s \in Verified => Current(db), s \in Served => db.retired
  PROVE  OpenInv'
<1>1. /\ \A q \in Openers : pc'[q] = IF q = p THEN s ELSE pc[q]
      /\ HolderFits /\ ImageFits /\ PastFits /\ Consistent(db) /\ Consistent(tx)
  BY DEF OpenInv, Types
<1>2. HolderFits'
  BY <1>1 DEF HolderFits
<1>3. ImageFits'
  BY <1>1 DEF ImageFits, UpgradeFits, Locked, Steps
<1>4. PastFits'
  BY <1>1 DEF PastFits
<1>5. QED
  BY <1>1, <1>2, <1>3, <1>4 DEF OpenInv

(* The begin of a transaction: nobody else has one. *)
LEMMA BeginKeepsInv ==
  ASSUME OpenInv, Types', NEW p \in Openers, NEW s \in {"version", "retire", "import"},
         db' = db, tx' = db, holder = {}, holder' = {p}, pc' = [pc EXCEPT ![p] = s],
         s \in Verified => Current(db), s \in Served => db.retired
  PROVE  OpenInv'
<1>1. /\ \A q \in Openers : pc'[q] = IF q = p THEN s ELSE pc[q]
      /\ HolderFits /\ PastFits /\ Consistent(db)
  BY DEF OpenInv, Types
<1>2. HolderFits'
  BY <1>1 DEF HolderFits, Locked
<1>3. ImageFits'
  BY <1>1 DEF ImageFits, HolderFits, Locked
<1>4. PastFits'
  BY <1>1 DEF PastFits
<1>5. QED
  BY <1>1, <1>2, <1>3, <1>4 DEF OpenInv

(* A statement of the upgrade changes the image only. *)
LEMMA WriteKeepsInv ==
  ASSUME OpenInv, Types', NEW p \in Openers, pc[p] \in {"version", "upgrade"},
         db' = db, holder' = holder, pc' = [pc EXCEPT ![p] = "upgrade"],
         Consistent(tx'), UpgradeFits'
  PROVE  OpenInv'
<1>1. /\ \A q \in Openers : pc'[q] = IF q = p THEN "upgrade" ELSE pc[q]
      /\ HolderFits /\ PastFits /\ Consistent(db)
  BY DEF OpenInv, Types
<1>2. p \in holder /\ \A q \in Openers : pc[q] \in Locked => q = p
  BY <1>1 DEF HolderFits, Locked
<1>3. HolderFits'
  BY <1>1, <1>2 DEF HolderFits, Locked
<1>4. ImageFits'
  BY <1>1, <1>2 DEF ImageFits, Locked
<1> "upgrade" \notin Verified /\ "upgrade" \notin Served
  BY DEF Verified, Served
<1>5. PastFits'
  BY <1>1 DEF PastFits
<1>6. QED
  BY <1>1, <1>3, <1>4, <1>5 DEF OpenInv

(* A commit goes forward, and then nobody has a transaction. *)
LEMMA CommitKeepsInv ==
  ASSUME OpenInv, Types', NEW p \in Openers, NEW s \in Verified \ Locked, pc[p] \in Locked,
         tx' = tx, holder' = {}, pc' = [pc EXCEPT ![p] = s],
         Consistent(db'), Current(db'), db.retired => db'.retired, s \in Served => db'.retired
  PROVE  OpenInv'
<1>1. /\ \A q \in Openers : pc'[q] = IF q = p THEN s ELSE pc[q]
      /\ HolderFits /\ PastFits /\ Consistent(tx)
  BY DEF OpenInv, Types
<1>2. \A q \in Openers : pc'[q] \notin Locked
  BY <1>1 DEF HolderFits
<1>3. HolderFits' /\ ImageFits'
  BY <1>2 DEF HolderFits, ImageFits, Locked
<1>4. PastFits'
  BY <1>1 DEF PastFits
<1>5. QED
  BY <1>1, <1>3, <1>4 DEF OpenInv

-----------------------------------------------------------------------------
(***************************************************************************)
(* The steps.                                                              *)
(***************************************************************************)

(* The begin of each of the three transactions. *)
LEMMA BeginTxStep ==
  ASSUME OpenInv, NEW p \in Openers, NEW from \in {"closed", "scope", "begin import"},
         NEW to \in {"version", "retire", "import"}, BeginTx(p, from, to),
         from = "closed" <=> to = "version", from = "begin import" <=> to = "import"
  PROVE  OpenInv'
<1>1. Types /\ HolderFits /\ PastFits /\ pc[p] = from
  BY DEF OpenInv, BeginTx
<1>2. /\ from # "closed" => Current(db)
      /\ from = "begin import" => db.retired
  BY <1>1 DEF PastFits, Verified, Served
<1>3. CASE holder = {} /\ holder' = {p} /\ tx' = db /\ Goto(p, to)
  <2>1. Types'
    BY <1>1, <1>3 DEF Types, BeginTx, Goto, Outside, Steps, Locked
  <2>2. QED
    BY <1>2, <1>3, <2>1, BeginKeepsInv DEF BeginTx, Goto, Verified, Served
<1>4. CASE Goto(p, "refused") /\ UNCHANGED <<holder, tx>>
  <2>1. Types'
    BY <1>1, <1>4 DEF Types, BeginTx, Goto, Outside, Steps
  <2>2. holder' = holder \ {p}
    BY <1>1, <1>4 DEF HolderFits, Locked
  <2>3. "refused" \in Steps \ Locked /\ "refused" \notin Verified
    BY DEF Steps, Locked, Verified, Served
  <2>4. QED
    BY <1>4, <2>1, <2>2, <2>3, LeavesKeepInv DEF BeginTx, Goto, Served, Verified
<1>5. QED
  BY <1>3, <1>4 DEF BeginTx

LEMMA RollbackStep ==
  ASSUME OpenInv, NEW p \in Openers, pc[p] \in Locked, Rollback(p)
  PROVE  OpenInv'
<1>1. Types /\ HolderFits
  BY DEF OpenInv
<1>2. Types'
  BY <1>1 DEF Types, Rollback, Goto, Outside, Steps
<1>3. holder' = holder \ {p}
  BY <1>1 DEF HolderFits, Rollback
<1>4. "refused" \in Steps \ Locked /\ "refused" \notin Verified
  BY DEF Steps, Locked, Verified, Served
<1>5. QED
  BY <1>2, <1>3, <1>4, LeavesKeepInv DEF Rollback, Goto, Verified

(* A statement of the upgrade. *)
LEMMA WriteStep ==
  ASSUME OpenInv, NEW p \in Openers, pc[p] \in {"version", "upgrade"},
         NEW e \in Db, Write(p, e, "upgrade"), Consistent(e),
         \/ db.version = workflowStoreSchemaVersion /\ e = db
         \/ /\ Upgradable(db) /\ SameContent(e, db)
            /\ e.version \in 1..workflowStoreSchemaVersion /\ verifyWorkflowSchemaMarker(e)
            /\ e.version >= 7 /\ db.version \in 1..6 => \A r \in Resets : db.bound[r]
  PROVE  OpenInv'
<1>1. tx' = e /\ db' = db /\ holder' = holder /\ pc' = [pc EXCEPT ![p] = "upgrade"]
  BY DEF Write, Goto
<1>2. Types'
  BY <1>1 DEF OpenInv, Types, Write, Outside, Steps, Locked
<1>3. UpgradeFits'
  BY <1>1 DEF UpgradeFits, Upgradable, SameContent, verifyWorkflowSchemaMarker, workflowSchemaFingerprint
<1>4. QED
  BY <1>1, <1>2, <1>3, WriteKeepsInv

(* Who is in a transaction has the image of it. *)
LEMMA InUpgrade ==
  ASSUME OpenInv, NEW p \in Openers, pc[p] = "upgrade"
  PROVE  /\ db \in Db /\ tx \in Db /\ Consistent(tx) /\ UpgradeFits
         /\ tx.version < 13 => /\ Upgradable(db) /\ SameContent(tx, db) /\ verifyWorkflowSchemaMarker(tx)
                               /\ tx.version >= 7 /\ db.version \in 1..6 => \A r \in Resets : db.bound[r]
BY DEF OpenInv, Types, ImageFits, UpgradeFits, workflowStoreSchemaVersion

(* The switch on the version. *)
LEMMA ReadVersionStep ==
  ASSUME OpenInv, NEW p \in Openers, ReadVersion(p)
  PROVE  OpenInv'
<1>1. /\ pc[p] = "version" /\ tx = db /\ tx \in Db /\ Consistent(tx)
      /\ tx.version \in 0..14
  BY DbFields DEF OpenInv, Types, ImageFits, ReadVersion, Locked
<1>2. CASE tx.version = 0 /\ ~tx.objects /\ Write(p, Created(tx), "upgrade")
  <2>1. Upgradable(db)
    BY <1>1, <1>2 DEF Upgradable
  <2>2. QED
    BY <1>1, <1>2, <2>1, CreatedFits, WriteStep DEF workflowStoreSchemaVersion
<1>3. CASE tx.version \in 1..12 /\ verifyWorkflowSchemaMarker(tx) /\ Write(p, tx, "upgrade")
  <2>1. Upgradable(db) /\ SameContent(tx, db)
    BY <1>1, <1>3 DEF Upgradable, SameContent
  <2>2. tx.version >= 7 /\ db.version \in 1..6 => \A r \in Resets : db.bound[r]
    BY <1>1
  <2>3. QED
    BY <1>1, <1>3, <2>1, <2>2, WriteStep DEF workflowStoreSchemaVersion
<1>4. CASE tx.version = workflowStoreSchemaVersion /\ Write(p, tx, "upgrade")
  BY <1>1, <1>4, WriteStep
<1>5. CASE Rollback(p)
  BY <1>1, <1>5, RollbackStep DEF Locked
<1>6. QED
  BY <1>1, <1>2, <1>3, <1>4, <1>5 DEF ReadVersion, Created

(* The scripts of the versions but the seventh, and the last one's columns. *)
LEMMA StampStep ==
  ASSUME OpenInv, NEW p \in Openers, UpgradeToV6(p) \/ UpgradeToV12(p)
  PROVE  OpenInv'
<1>1. /\ pc[p] = "upgrade" /\ tx.version \in (1..5) \cup (7..11)
      /\ Write(p, Stamped(tx, tx.version + 1), "upgrade")
  BY DEF UpgradeToV6, UpgradeToV12
<1>2. PICK v \in 1..13 : v = tx.version + 1 /\ (v < 7 \/ tx.version >= 7)
  BY <1>1
<1>3. Stamped(tx, v) \in Db /\ Consistent(Stamped(tx, v)) /\ SameContent(Stamped(tx, v), tx)
      /\ Stamped(tx, v).version = v /\ verifyWorkflowSchemaMarker(Stamped(tx, v))
  BY <1>1, <1>2, InUpgrade, StampedFits
<1>4. /\ Upgradable(db) /\ SameContent(Stamped(tx, v), db)
      /\ v >= 7 /\ db.version \in 1..6 => \A r \in Resets : db.bound[r]
  BY <1>1, <1>2, <1>3, InUpgrade DEF SameContent
<1>5. QED
  BY <1>1, <1>2, <1>3, <1>4, WriteStep DEF workflowStoreSchemaVersion

LEMMA OutboxStep ==
  ASSUME OpenInv, NEW p \in Openers, UpgradeToV7(p)
  PROVE  OpenInv'
<1>1. pc[p] = "upgrade" /\ tx.version = 6
  BY DEF UpgradeToV7
<1>2. CASE /\ \A r \in Resets : tx.bound[r]
           /\ Write(p, Stamped(backfillV6ResetCancellations(tx), 7), "upgrade")
  <2>1. PICK e : e = Stamped(backfillV6ResetCancellations(tx), 7)
    OBVIOUS
  <2>2. /\ e \in Db /\ Consistent(e) /\ SameContent(e, tx) /\ e.version = 7
        /\ verifyWorkflowSchemaMarker(e)
    BY <1>1, <2>1, InUpgrade, BackfilledFits
  <2>3. Upgradable(db) /\ SameContent(e, db) /\ \A r \in Resets : db.bound[r]
    BY <1>1, <1>2, <2>2, InUpgrade DEF SameContent
  <2>4. QED
    BY <1>1, <1>2, <2>1, <2>2, <2>3, WriteStep DEF workflowStoreSchemaVersion
<1>3. CASE Rollback(p)
  BY <1>1, <1>3, RollbackStep DEF Locked
<1>4. QED
  BY <1>2, <1>3 DEF UpgradeToV7

LEMMA ColumnsStep ==
  ASSUME OpenInv, NEW p \in Openers, UpgradeToV13(p)
  PROVE  OpenInv'
<1>1. pc[p] = "upgrade" /\ tx.version = 12
  BY DEF UpgradeToV13
<1>2. PICK s : s = Stamped(tx, 13)
  OBVIOUS
<1>3. /\ s \in Db /\ Consistent(s) /\ SameContent(s, tx) /\ s.version = 13
      /\ verifyWorkflowSchemaMarker(s)
  BY <1>1, <1>2, InUpgrade, StampedFits
<1>4. PICK e : e = [s EXCEPT !.columns = @ \cup ({"sha256", "json"} \ @)]
  OBVIOUS
<1>5. /\ e \in Db /\ Consistent(e) /\ SameContent(e, s) /\ e.version = 13
      /\ verifyWorkflowSchemaMarker(e)
  BY <1>3, <1>4, WithColumnsFits
<1>6. /\ Upgradable(db) /\ SameContent(e, db)
      /\ db.version \in 1..6 => \A r \in Resets : db.bound[r]
  BY <1>1, <1>3, <1>5, InUpgrade DEF SameContent
<1>7. Write(p, e, "upgrade")
  BY <1>2, <1>4 DEF UpgradeToV13
<1>8. QED
  BY <1>1, <1>5, <1>6, <1>7, WriteStep DEF workflowStoreSchemaVersion

(* What is committed by an upgrade is the current schema. *)
LEMMA VerifyStep ==
  ASSUME OpenInv, NEW p \in Openers, VerifySchema(p)
  PROVE  OpenInv'
<1>1. pc[p] = "upgrade" /\ tx.version = workflowStoreSchemaVersion /\ Types
  BY DEF VerifySchema, OpenInv
<1>2. CASE verifyWorkflowSchemaMarker(tx) /\ Commit(p, "scope")
  <2>1. Types'
    BY <1>1, <1>2 DEF Types, Commit, Goto, Outside, Steps, Verified
  <2>2. Current(tx) /\ (db.retired => tx.retired) /\ Consistent(tx)
    BY <1>1, <1>2, InUpgrade DEF Current, UpgradeFits, SameContent
  <2>3. Consistent(db') /\ Current(db') /\ (db.retired => db'.retired)
    BY <1>2, <2>2 DEF Commit
  <2>4. "scope" \in Verified \ Locked /\ "scope" \notin Served /\ pc[p] \in Locked
    BY <1>1 DEF Verified, Locked, Served
  <2>5. QED
    BY <1>2, <2>1, <2>3, <2>4, CommitKeepsInv DEF Commit, Goto
<1>3. CASE Rollback(p)
  BY <1>1, <1>3, RollbackStep DEF Locked
<1>4. QED
  BY <1>2, <1>3 DEF VerifySchema

LEMMA RetireStep ==
  ASSUME OpenInv, NEW p \in Openers, retireVerificationCases(p)
  PROVE  OpenInv'
<1>1. /\ pc[p] = "retire" /\ tx = db /\ Types /\ tx \in Db /\ Consistent(tx) /\ Current(db)
  BY DEF retireVerificationCases, OpenInv, Types, ImageFits, PastFits, Locked, Verified
<1>2. "read" \in Verified \ Locked /\ "read" \in Steps /\ pc[p] \in Locked
  BY <1>1 DEF Verified, Locked, Served, Steps
<1>3. /\ tx' = tx /\ holder' = {} /\ pc' = [pc EXCEPT ![p] = "read"] /\ batch' = batch
      /\ file' = file /\ writes' = writes /\ deaths' = deaths
  BY DEF retireVerificationCases, Commit, Goto, Outside
<1>4. /\ db' \in Db /\ Consistent(db') /\ Current(db') /\ db'.retired
  <2>1. CASE tx.retired
    BY <1>1, <2>1 DEF retireVerificationCases, Commit
  <2>2. CASE ~tx.retired
    <3>1. PICK e : e = [tx EXCEPT !.verification = "legacy_archived", !.attempt = "cancelled", !.retired = TRUE]
      OBVIOUS
    <3>2. e \in Db
      BY <1>1, <3>1 DEF Db
    <3>3. /\ e.version = tx.version /\ e.marker = tx.marker /\ e.sound = tx.sound /\ e.audit = tx.audit
          /\ e.ops = tx.ops /\ e.verification = "legacy_archived" /\ e.attempt = "cancelled" /\ e.retired = TRUE
      BY <1>1, <3>1 DEF Db
    <3>4. Consistent(e) /\ Current(e)
      BY <1>1, <3>3 DEF Consistent, Current, verifyWorkflowSchemaMarker, workflowSchemaFingerprint
    <3>5. db' = e
      BY <2>2, <3>1 DEF retireVerificationCases
    <3>6. QED
      BY <3>2, <3>3, <3>4, <3>5
  <2>3. QED
    BY <2>1, <2>2
<1>5. Types'
  BY <1>1, <1>2, <1>3, <1>4 DEF Types
<1>6. QED
  BY <1>2, <1>3, <1>4, <1>5, CommitKeepsInv

(* The import: the runs that are new get an attempt, and a Case of their
   ticket. *)
Imported(d, f) ==
  LET runs == {r \in Runs : f[r] # "none"}
      known == {r \in runs : d.attempts[r] # "none"}
  IN [d EXCEPT !.imports = @ \cup {f}, !.cases = @ \cup legacyCases(runs),
               !.attempts = [r \in Runs |-> IF r \in runs \ known THEN legacyAttempt(f[r]) ELSE d.attempts[r]]]

LEMMA ImportedFits ==
  ASSUME StoreOpeningAssumption, NEW d \in Db, NEW f \in Files
  PROVE  LET e == Imported(d, f) IN
         /\ e \in Db /\ e.version = d.version /\ e.retired = d.retired
         /\ Consistent(d) => Consistent(e)
         /\ Current(d) => Current(e)
         /\ \A r \in Runs : /\ d.attempts[r] # "none" => e.attempts[r] = d.attempts[r]
                            /\ f[r] # "none" => e.attempts[r] # "none" /\ BugOf[r] \in e.cases
<1> DEFINE runs == {r \in Runs : f[r] # "none"}
           known == {r \in runs : d.attempts[r] # "none"}
           A == [r \in Runs |-> IF r \in runs \ known THEN legacyAttempt(f[r]) ELSE d.attempts[r]]
           C == d.cases \cup legacyCases(runs)
           I == d.imports \cup {f}
           e == [d EXCEPT !.imports = I, !.cases = C, !.attempts = A]
<1>1. Imported(d, f) = e
  BY DEF Imported
<1>2. A \in [Runs -> Attempt]
  <2>1. \A r \in Runs : f[r] \in RunStatus /\ d.attempts[r] \in Attempt
    BY DbFields DEF Files
  <2>2. QED
    BY <2>1 DEF legacyAttempt, RunStatus, Attempt
<1>3. \A r \in runs : BugOf[r] \in C /\ BugOf[r] \in Bugs
  BY DEF legacyCases, StoreOpeningAssumption
<1>4. C \in SUBSET Bugs /\ I \in SUBSET Files
  BY <1>3, DbFields DEF legacyCases
<1>5. \A r \in Runs : /\ d.attempts[r] # "none" => A[r] = d.attempts[r]
                      /\ f[r] # "none" => A[r] # "none"
  BY DEF legacyAttempt
<1> HIDE DEF A, C, I
<1>6. e \in Db
  BY <1>2, <1>4 DEF Db
<1>7. /\ e.version = d.version /\ e.marker = d.marker /\ e.sound = d.sound /\ e.audit = d.audit /\ e.ops = d.ops
      /\ e.verification = d.verification /\ e.attempt = d.attempt /\ e.retired = d.retired
      /\ e.attempts = A /\ e.cases = C
  BY DEF Db
<1> HIDE DEF e
<1>8. /\ Consistent(d) => Consistent(e)
      /\ Current(d) => Current(e)
  BY <1>7 DEF Consistent, Current, verifyWorkflowSchemaMarker, workflowSchemaFingerprint
<1>9. QED
  BY <1>1, <1>3, <1>5, <1>6, <1>7, <1>8

(* An import never finds a row that is not the run's: it commits. *)
LEMMA ImportCommits ==
  ASSUME NEW p \in Openers, importLegacyBatch(p)
  PROVE  /\ pc[p] = "import" /\ tx' = tx /\ holder' = {} /\ pc' = [pc EXCEPT ![p] = "open"]
         /\ batch' = batch /\ file' = file /\ writes' = writes /\ deaths' = deaths
         /\ db' = IF batch[p] \in tx.imports THEN tx ELSE Imported(tx, batch[p])
<1> DEFINE runs == {r \in Runs : batch[p][r] # "none"}
           known == {r \in runs : tx.attempts[r] # "none"}
<1>1. \A r \in known : sameImportedLegacyAttempt(tx.attempts[r], legacyAttempt(batch[p][r]))
  BY DEF sameImportedLegacyAttempt, legacyAttempt
<1>2. QED
  BY <1>1 DEF importLegacyBatch, Commit, Goto, Outside, Imported

LEMMA ImportStep ==
  ASSUME StoreOpeningAssumption, OpenInv, NEW p \in Openers, importLegacyBatch(p)
  PROVE  OpenInv'
<1>1. pc[p] = "import"
  BY ImportCommits
<1>2. /\ tx = db /\ Types /\ tx \in Db /\ batch[p] \in Files /\ Consistent(tx) /\ Current(db) /\ db.retired
  BY <1>1 DEF OpenInv, Types, ImageFits, PastFits, Locked, Verified, Served
<1>3. /\ db' \in Db /\ Consistent(db') /\ Current(db') /\ db'.retired
  BY <1>2, ImportCommits, ImportedFits
<1>4. "open" \in Verified \ Locked /\ "open" \in Steps /\ pc[p] \in Locked
  BY <1>1 DEF Verified, Locked, Served, Steps
<1>5. Types'
  BY <1>2, <1>3, <1>4, ImportCommits DEF Types
<1>6. QED
  BY <1>3, <1>4, <1>5, ImportCommits, CommitKeepsInv

(* What is done outside of the three transactions. *)
LEMMA CrashStep ==
  ASSUME StoreOpeningAssumption, OpenInv, NEW p \in Openers, OpenerDies(p)
  PROVE  OpenInv'
<1>1. Types /\ "closed" \in Steps \ Locked /\ "closed" \notin Verified /\ "closed" \notin Served
  BY DEF OpenInv, Steps, Locked, Verified, Served
<1>2. file' \in [runs : Files, partial : BOOLEAN]
  BY <1>1 DEF Types, OpenerDies
<1>3. deaths' \in 0..MaxDeaths
  BY <1>1 DEF Types, OpenerDies, StoreOpeningAssumption
<1>4. Types'
  BY <1>1, <1>2, <1>3 DEF Types, OpenerDies, Goto
<1>5. QED
  BY <1>1, <1>4, LeavesKeepInv DEF OpenerDies, Goto

LEMMA OutsideStep ==
  ASSUME OpenInv, NEW p \in Openers,
         ReadRuns(p) \/ initializeIncidentWorkflow(p) \/ Quit(p)
  PROVE  OpenInv'
<1>1. Types /\ HolderFits /\ PastFits
  BY DEF OpenInv
<1>2. PICK s \in {"begin import", "closed", "refused"} :
        /\ pc' = [pc EXCEPT ![p] = s]
        /\ s = "begin import" => pc[p] = "read"
  BY DEF ReadRuns, initializeIncidentWorkflow, Quit, Goto
<1>3. /\ db' = db /\ tx' = tx /\ holder' = holder /\ pc[p] \notin Locked
      /\ file' = file /\ writes' = writes /\ deaths' = deaths
  BY DEF ReadRuns, initializeIncidentWorkflow, Quit, Locked, Outside
<1>4. s \in Steps \ Locked
  BY DEF Steps, Locked, Verified, Served
<1>5. /\ s \in Verified => s = "begin import"
      /\ s \in Served => s = "begin import"
  BY DEF Verified, Served
<1>6. pc[p] = "read" => Current(db) /\ db.retired
  BY <1>1 DEF PastFits, Verified, Served
<1>7. batch' \in [Openers -> Files]
  BY <1>1 DEF Types, ReadRuns, initializeIncidentWorkflow, Quit
<1>8. Types' /\ holder' = holder \ {p}
  BY <1>1, <1>2, <1>3, <1>4, <1>7 DEF Types, HolderFits
<1>9. QED
  BY <1>2, <1>3, <1>4, <1>5, <1>6, <1>8, LeavesKeepInv

LEMMA ProjectStep ==
  ASSUME StoreOpeningAssumption, OpenInv, NEW p \in Openers, NEW r \in Runs, Project(p, r)
  PROVE  OpenInv'
<1>1. Types
  BY DEF OpenInv
<1>2. file' \in [runs : Files, partial : BOOLEAN]
  BY <1>1 DEF Types, Project, Files, RunStatus
<1>3. writes' \in 0..MaxWrites
  BY <1>1 DEF Types, Project, StoreOpeningAssumption
<1>4. Types' /\ UNCHANGED <<db, tx, holder, pc>>
  BY <1>1, <1>2, <1>3 DEF Types, Project
<1>5. QED
  BY <1>4 DEF OpenInv, HolderFits, Consistent, ImageFits, UpgradeFits, Upgradable, SameContent, PastFits, Current,
     verifyWorkflowSchemaMarker, workflowSchemaFingerprint

LEMMA DeleteStep ==
  ASSUME OpenInv, NEW p \in Openers, NEW b \in Bugs, DeleteHistory(p, b)
  PROVE  OpenInv'
<1>1. Types /\ HolderFits /\ PastFits /\ db \in Db /\ holder = {}
  BY DEF OpenInv, Types, DeleteHistory
<1> DEFINE A == [r \in Runs |-> IF BugOf[r] = b THEN "none" ELSE db.attempts[r]]
           C == db.cases \ {b}
           e == [db EXCEPT !.cases = C, !.attempts = A]
<1>2. A \in [Runs -> Attempt] /\ C \in SUBSET Bugs
  BY <1>1, DbFields DEF Attempt
<1>3. db' = e
  BY DEF DeleteHistory
<1> HIDE DEF A, C
<1>4. e \in Db
  BY <1>1, <1>2 DEF Db
<1>5. /\ e.version = db.version /\ e.marker = db.marker /\ e.sound = db.sound /\ e.audit = db.audit
      /\ e.ops = db.ops /\ e.verification = db.verification /\ e.attempt = db.attempt /\ e.retired = db.retired
  BY <1>1 DEF Db
<1> HIDE DEF e
<1>6. Consistent(e) /\ (Current(db) => Current(e))
  BY <1>5 DEF OpenInv, Consistent, Current, verifyWorkflowSchemaMarker, workflowSchemaFingerprint
<1>7. Types' /\ pc' = pc /\ holder' = holder /\ tx' = tx
  BY <1>1, <1>3, <1>4 DEF Types, DeleteHistory, Outside
<1>8. \A q \in Openers : pc[q] \notin Locked
  BY <1>1 DEF HolderFits
<1>9. HolderFits' /\ ImageFits'
  BY <1>1, <1>7, <1>8 DEF HolderFits, ImageFits, Locked
<1>10. PastFits' /\ Consistent(db')
  BY <1>1, <1>3, <1>5, <1>6, <1>7 DEF PastFits
<1>11. QED
  BY <1>7, <1>9, <1>10 DEF OpenInv, Consistent

LEMMA OpenInvInit ==
  ASSUME StoreOpeningAssumption, OpeningInit
  PROVE  OpenInv
<1>1. /\ db \in Databases /\ tx = db /\ holder = {} /\ pc = [p \in Openers |-> "closed"]
      /\ batch = [p \in Openers |-> Nowhere]
      /\ file \in {[runs |-> f, partial |-> FALSE] : f \in Files}
      /\ writes = 0 /\ deaths = 0
  BY DEF OpeningInit
<1>2. PICK v \in Versions, x \in BOOLEAN, c \in SUBSET {"sha256", "json"},
           a \in [Resets -> Audit], b \in BOOLEAN :
        db = [version |-> v, marker |-> v, sound |-> x, objects |-> v # 0 \/ ~x,
              columns |-> IF v >= 13 THEN {"sha256", "json"} ELSE IF v = 12 THEN c ELSE {},
              audit |-> a, bound |-> [r \in Resets |-> b],
              ops |-> [r \in Resets |-> IF v < 7 THEN "none" ELSE "claimed"],
              verification |-> "validating", attempt |-> "running",
              retired |-> FALSE, imports |-> {}, cases |-> {},
              attempts |-> Nowhere]
  BY <1>1 DEF Databases
<1>3. v \in 0..14 /\ Nowhere \in Files /\ Nowhere \in [Runs -> Attempt]
  BY DEF Versions, workflowStoreSchemaVersion, Nowhere, Files, RunStatus, Attempt
<1>4. [r \in Resets |-> IF v < 7 THEN "none" ELSE "claimed"] \in [Resets -> Outcome]
  BY DEF Outcome
<1>5. db \in Db
  BY <1>2, <1>3, <1>4 DEF Db
<1>6. Consistent(db)
  BY <1>2, <1>3 DEF Consistent
<1>7. "closed" \in Steps /\ "closed" \notin Locked /\ "closed" \notin Verified /\ "closed" \notin Served
  BY DEF Steps, Locked, Verified, Served
<1>8. Types
  <2>1. pc \in [Openers -> Steps] /\ batch \in [Openers -> Files]
    BY <1>1, <1>3, <1>7
  <2>2. file \in [runs : Files, partial : BOOLEAN]
    <3>1. PICK f \in Files : file = [runs |-> f, partial |-> FALSE]
      BY <1>1
    <3>2. QED
      BY <3>1
  <2>3. writes \in 0..MaxWrites /\ deaths \in 0..MaxDeaths
    BY <1>1 DEF StoreOpeningAssumption
  <2>4. QED
    BY <1>1, <1>5, <2>1, <2>2, <2>3 DEF Types
<1>9. HolderFits /\ ImageFits /\ PastFits
  BY <1>1, <1>7 DEF HolderFits, ImageFits, PastFits, Locked
<1>10. QED
  BY <1>1, <1>6, <1>8, <1>9 DEF OpenInv

LEMMA OpenInvNext ==
  ASSUME StoreOpeningAssumption, OpenInv, [OpeningNext]_openingVars
  PROVE  OpenInv'
<1>1. CASE OpeningNext
  <2>1. PICK p \in Openers : Opening(p) \/ Using(p)
    BY <1>1 DEF OpeningNext
  <2>2. CASE OpenCaseStore(p) \/ BeginRetire(p) \/ BeginImport(p)
    BY <2>2, BeginTxStep DEF OpenCaseStore, BeginRetire, BeginImport
  <2>3. CASE \/ ReadVersion(p) \/ UpgradeToV6(p) \/ UpgradeToV7(p) \/ UpgradeToV12(p)
             \/ UpgradeToV13(p) \/ VerifySchema(p)
    BY <2>3, ReadVersionStep, StampStep, OutboxStep, ColumnsStep, VerifyStep
  <2>4. CASE retireVerificationCases(p) \/ importLegacyBatch(p)
    BY <2>4, RetireStep, ImportStep
  <2>5. CASE ReadRuns(p) \/ initializeIncidentWorkflow(p) \/ Quit(p)
    BY <2>5, OutsideStep
  <2>6. CASE OpenerDies(p)
    BY <2>6, CrashStep
  <2>7. CASE (\E r \in Runs : Project(p, r)) \/ (\E b \in Bugs : DeleteHistory(p, b))
    BY <2>7, ProjectStep, DeleteStep
  <2>8. QED
    BY <2>1, <2>2, <2>3, <2>4, <2>5, <2>6, <2>7 DEF Opening, Using
<1>2. CASE UNCHANGED openingVars
  BY <1>2 DEF openingVars, OpenInv, Types, HolderFits, Consistent, ImageFits, UpgradeFits, Upgradable, SameContent,
     PastFits, Current, verifyWorkflowSchemaMarker, workflowSchemaFingerprint
<1>3. QED
  BY <1>1, <1>2

-----------------------------------------------------------------------------
(* The invariant: one instance at a time has a transaction, its image is the
   committed database or an upgrade of it that lost nothing, and what an
   instance verified or retired stays so. *)
THEOREM OpenInvHolds ==
  ASSUME StoreOpeningAssumption
  PROVE  OpeningSpec => []OpenInv
<1>1. OpeningInit => OpenInv
  BY OpenInvInit
<1>2. OpenInv /\ [OpeningNext]_openingVars => OpenInv'
  BY OpenInvNext
<1>3. QED
  BY <1>1, <1>2, PTL DEF OpeningSpec

(* The type invariant: no two instances are ever in a transaction. *)
THEOREM OpeningTypeCorrect ==
  ASSUME StoreOpeningAssumption
  PROVE  OpeningSpec => []OpeningTypeOK
<1>1. ASSUME OpenInv PROVE OpeningTypeOK
  <2>1. Types /\ HolderFits
    BY <1>1 DEF OpenInv
  <2>2. holder = {} \/ \E p : holder = {p}
    BY <2>1 DEF HolderFits
  <2>3. Cardinality(holder) <= 1
    BY <2>2, FS_EmptySet, FS_Singleton
  <2>4. QED
    BY <2>1, <2>3 DEF Types, OpeningTypeOK, Steps, Locked, Verified, Served
<1>2. QED
  BY <1>1, OpenInvHolds, PTL

(* A store in use is the current schema, holds no work of a removed phase,
   and owes every reset exactly what its audit proves. *)
THEOREM OpenedStoresAreComplete ==
  ASSUME StoreOpeningAssumption
  PROVE  OpeningSpec => []OpenedComplete
<1>1. ASSUME OpenInv PROVE OpenedComplete
  <2>1. SUFFICES ASSUME NEW p \in Openers, pc[p] \in Served
                 PROVE  /\ readable
                        /\ db.verification = "legacy_archived" /\ db.attempt = "cancelled"
                        /\ \A r \in Resets : /\ db.ops[r] # "none"
                                             /\ db.ops[r] \in {"succeeded", "failed"} => db.audit[r] = db.ops[r]
    BY DEF OpenedComplete, Served
  <2>2. Current(db) /\ db.retired /\ Consistent(db)
    BY <1>1, <2>1 DEF OpenInv, PastFits, Verified
  <2>3. QED
    BY <2>2 DEF Current, Consistent, readable, workflowStoreSchemaVersion
<1>2. QED
  BY <1>1, OpenInvHolds, PTL

-----------------------------------------------------------------------------
(* Who writes the database. *)
LEMMA Writers ==
  ASSUME [OpeningNext]_openingVars, db' # db
  PROVE  \E p \in Openers : \/ VerifySchema(p) \/ retireVerificationCases(p) \/ importLegacyBatch(p)
                            \/ \E b \in Bugs : DeleteHistory(p, b)
<1>1. PICK p \in Openers : Opening(p) \/ Using(p)
  BY DEF OpeningNext, openingVars
<1>2. ~BeginTx(p, "closed", "version") /\ ~BeginTx(p, "scope", "retire") /\ ~BeginTx(p, "begin import", "import")
  BY DEF BeginTx
<1>3. \A e, to : ~Write(p, e, to)
  BY DEF Write
<1>4. ~Rollback(p)
  BY DEF Rollback
<1>5. /\ ~ReadVersion(p) /\ ~UpgradeToV6(p) /\ ~UpgradeToV7(p) /\ ~UpgradeToV12(p) /\ ~UpgradeToV13(p)
  BY <1>3, <1>4 DEF ReadVersion, UpgradeToV6, UpgradeToV7, UpgradeToV12, UpgradeToV13
<1>6. /\ ~ReadRuns(p) /\ ~initializeIncidentWorkflow(p) /\ ~Quit(p) /\ ~OpenerDies(p)
      /\ \A r \in Runs : ~Project(p, r)
  BY DEF ReadRuns, initializeIncidentWorkflow, Quit, OpenerDies, Project
<1>7. QED
  BY <1>1, <1>2, <1>5, <1>6 DEF Opening, Using, OpenCaseStore, BeginRetire, BeginImport

(* What the commit of an upgrade writes. *)
LEMMA UpgradeWrites ==
  ASSUME OpenInv, NEW p \in Openers, VerifySchema(p), db' # db
  PROVE  /\ Upgradable(db) /\ db'.attempts = db.attempts
         /\ db.version \in 1..6 => \A r \in Resets : db.bound[r]
         /\ db'.version = workflowStoreSchemaVersion
         /\ verifyWorkflowSchemaMarker(db') /\ verifyWorkflowColumns(db')
<1>1. /\ pc[p] = "upgrade" /\ tx.version = workflowStoreSchemaVersion
      /\ verifyWorkflowSchemaMarker(tx) /\ verifyWorkflowColumns(tx) /\ db' = tx
  BY DEF VerifySchema, Commit, Rollback
<1>2. UpgradeFits
  BY <1>1, InUpgrade
<1>3. QED
  BY <1>1, <1>2 DEF UpgradeFits, SameContent, workflowStoreSchemaVersion

LEMMA RetireWrites ==
  ASSUME OpenInv, NEW p \in Openers, retireVerificationCases(p)
  PROVE  db'.version = db.version /\ db'.attempts = db.attempts
<1>1. tx = db /\ tx \in Db
  BY DEF OpenInv, Types, ImageFits, Locked, retireVerificationCases
<1>2. QED
  BY <1>1 DEF retireVerificationCases, Commit, Db

LEMMA ImportWrites ==
  ASSUME StoreOpeningAssumption, OpenInv, NEW p \in Openers, importLegacyBatch(p)
  PROVE  /\ db'.version = db.version /\ pc[p] = "import" /\ pc'[p] = "open"
         /\ \A q \in Openers \ {p} : pc'[q] = pc[q]
         /\ \A r \in Runs : db.attempts[r] # "none" => db'.attempts[r] = db.attempts[r]
         /\ batch[p] \in db.imports => db' = db
         /\ batch[p] \notin db.imports => \A r \in Runs : batch[p][r] # "none" =>
              db'.attempts[r] # "none" /\ BugOf[r] \in db'.cases
<1>1. /\ pc[p] = "import" /\ pc' = [pc EXCEPT ![p] = "open"]
      /\ db' = IF batch[p] \in tx.imports THEN tx ELSE Imported(tx, batch[p])
  BY ImportCommits
<1>2. tx = db /\ db \in Db /\ batch[p] \in Files /\ pc \in [Openers -> Steps]
  BY <1>1 DEF OpenInv, Types, ImageFits, Locked
<1>3. PICK e : e = Imported(db, batch[p])
  OBVIOUS
<1>4. /\ e.version = db.version
      /\ \A r \in Runs : /\ db.attempts[r] # "none" => e.attempts[r] = db.attempts[r]
                         /\ batch[p][r] # "none" => e.attempts[r] # "none" /\ BugOf[r] \in e.cases
  BY <1>2, <1>3, ImportedFits
<1>5. QED
  BY <1>1, <1>2, <1>3, <1>4

LEMMA DeleteWrites ==
  ASSUME OpenInv, NEW p \in Openers, NEW b \in Bugs, DeleteHistory(p, b)
  PROVE  /\ db'.version = db.version
         /\ \A r \in Runs : db'.attempts[r] \in {"none", db.attempts[r]}
<1>1. db \in Db
  BY DEF OpenInv, Types
<1>2. QED
  BY <1>1 DEF DeleteHistory, Db

(* An upgrade is all or nothing: the version in the file changes only from
   one a release wrote to the current one, complete. *)
THEOREM UpgradesAreAtomic ==
  ASSUME StoreOpeningAssumption
  PROVE  OpeningSpec => UpgradeAllOrNothing
<1> DEFINE Whole == db'.version # db.version =>
                      /\ Supported(db) /\ db'.version = workflowStoreSchemaVersion
                      /\ verifyWorkflowSchemaMarker(db') /\ verifyWorkflowColumns(db')
<1>1. ASSUME OpenInv, [OpeningNext]_openingVars PROVE [Whole]_openingVars
  <2>1. SUFFICES ASSUME db'.version # db.version
                 PROVE  Whole
    OBVIOUS
  <2>2. PICK p \in Openers : \/ VerifySchema(p) \/ retireVerificationCases(p) \/ importLegacyBatch(p)
                            \/ \E b \in Bugs : DeleteHistory(p, b)
    BY <1>1, <2>1, Writers
  <2>3. VerifySchema(p)
    BY <1>1, <2>1, <2>2, RetireWrites, ImportWrites, DeleteWrites
  <2>4. /\ Upgradable(db)
        /\ db.version \in 1..6 => \A r \in Resets : db.bound[r]
        /\ db'.version = workflowStoreSchemaVersion
        /\ verifyWorkflowSchemaMarker(db') /\ verifyWorkflowColumns(db')
    BY <1>1, <2>1, <2>3, UpgradeWrites
  <2>5. Supported(db)
    BY <2>4 DEF Upgradable, Supported, workflowStoreSchemaVersion
  <2>6. QED
    BY <2>4, <2>5
<1>2. QED
  BY <1>1, OpenInvHolds, PTL DEF OpeningSpec, UpgradeAllOrNothing

(* The first archived snapshot of a run is kept, and an import is never
   refused for what is archived. *)
THEOREM SnapshotsAreKept ==
  ASSUME StoreOpeningAssumption
  PROVE  OpeningSpec => SnapshotKept
<1> DEFINE Kept(p) ==
      /\ pc'[p] = "open"
      /\ \A r \in Runs : db.attempts[r] # "none" => db'.attempts[r] = db.attempts[r]
      /\ \A r \in Runs : batch[p][r] # "none" /\ batch[p] \notin db.imports
           => db'.attempts[r] # "none" /\ BugOf[r] \in db'.cases
    Step == \A p \in Openers : pc[p] = "import" /\ pc'[p] \notin {"closed", "import"} => Kept(p)
<1>1. ASSUME OpenInv, [OpeningNext]_openingVars PROVE [Step]_openingVars
  <2>1. SUFFICES ASSUME NEW p \in Openers, pc[p] = "import", pc'[p] \notin {"closed", "import"}
                 PROVE  Kept(p)
    OBVIOUS
  <2>2. pc \in [Openers -> Steps]
    BY <1>1 DEF OpenInv, Types
  <2>3. PICK q \in Openers : Opening(q) \/ Using(q)
    BY <1>1, <2>1 DEF OpeningNext, openingVars
  <2>4. q = p
    <3>1. ASSUME q # p PROVE pc'[p] = pc[p]
      <4>1. \A s : Goto(q, s) => pc'[p] = pc[p]
        BY <2>2, <3>1 DEF Goto
      <4> HIDE DEF Goto
      <4>2. importLegacyBatch(q) => pc'[p] = pc[p]
        BY <2>2, <3>1, ImportCommits
      <4>3. QED
        BY <2>3, <4>1, <4>2 DEF Opening, Using, OpenCaseStore, BeginTx, ReadVersion, Write, Rollback, UpgradeToV6,
           UpgradeToV7, UpgradeToV12, UpgradeToV13, VerifySchema, Commit, BeginRetire, retireVerificationCases,
           ReadRuns, BeginImport, initializeIncidentWorkflow, Project, DeleteHistory, Quit, OpenerDies
    <3>2. QED
      BY <2>1, <3>1
  <2>5. importLegacyBatch(p) \/ OpenerDies(p)
    BY <2>1, <2>3, <2>4 DEF Opening, Using, OpenCaseStore, BeginTx, ReadVersion, UpgradeToV6,
       UpgradeToV7, UpgradeToV12, UpgradeToV13, VerifySchema, BeginRetire, retireVerificationCases,
       ReadRuns, BeginImport, initializeIncidentWorkflow, Project, DeleteHistory, Quit
  <2>6. importLegacyBatch(p)
    BY <2>1, <2>2, <2>5 DEF OpenerDies, Goto
  <2>7. QED
    BY <1>1, <2>6, ImportWrites
<1>2. QED
  BY <1>1, OpenInvHolds, PTL DEF OpeningSpec, SnapshotKept

(* A deleted legacy history comes back only with a runs.json the store has
   not imported yet. *)
THEOREM DeletedHistoriesStayDeleted ==
  ASSUME StoreOpeningAssumption
  PROVE  OpeningSpec => DeletedStaysDeleted
<1> DEFINE Step == \A r \in Runs : db.attempts[r] = "none" /\ db'.attempts[r] # "none" =>
                     \E p \in Openers : pc[p] = "import" /\ batch[p] \notin db.imports
<1>1. ASSUME OpenInv, [OpeningNext]_openingVars PROVE [Step]_openingVars
  <2>1. SUFFICES ASSUME NEW r \in Runs, db.attempts[r] = "none", db'.attempts[r] # "none"
                 PROVE  \E p \in Openers : pc[p] = "import" /\ batch[p] \notin db.imports
    OBVIOUS
  <2>2. PICK p \in Openers : \/ VerifySchema(p) \/ retireVerificationCases(p) \/ importLegacyBatch(p)
                            \/ \E b \in Bugs : DeleteHistory(p, b)
    BY <1>1, <2>1, Writers
  <2>3. importLegacyBatch(p)
    BY <1>1, <2>1, <2>2, UpgradeWrites, RetireWrites, DeleteWrites
  <2>4. QED
    BY <1>1, <2>1, <2>3, ImportWrites
<1>2. QED
  BY <1>1, OpenInvHolds, PTL DEF OpeningSpec, DeletedStaysDeleted
(* However many instances open a file, whenever one of them dies: the file    *)
(* is as a release left it or complete, and archived runs stay.               *)
THEOREM OpenedStoresAreWhole ==
  ASSUME StoreOpeningAssumption
  PROVE  OpeningSpec => OpenedStoreIsWhole
BY OpeningTypeCorrect, OpenedStoresAreComplete, UpgradesAreAtomic, SnapshotsAreKept,
   DeletedHistoriesStayDeleted, PTL DEF OpenedStoreIsWhole

(* However requests of many clients are repeated, lost and overtaken: a key   *)
(* decides, the events explain the rows, and a retry gets its answer.         *)
THEOREM RepetitionsAreAnswered ==
  ASSUME CaseStoreKeysAssumption
  PROVE  KeysSpec => KeysDecide
BY KeysTypeCorrect, EventsExplain, KeysAnswerOnce, OneCaseIsOpen, EndsAreFinal, RetriesSucceed, PTL
   DEF KeysDecide

-----------------------------------------------------------------------------
(* BugInbox: InboxInv follows the file of the inbox while no two operations
   overlap: from its reading over the image that an operation has made of it to
   the writing.  What is promised of a sync rests on what it has handled so far. *)
Operations ==
  [pc : {"idle", "hydrate", "upsert", "prune", "delete", "write", "fill"},
   queue : Image, keep : SUBSET Ids, img : Image,
   prunes : BOOLEAN, target : SUBSET Ids, current : BOOLEAN]

InboxTypes ==
  /\ source \in [Tickets -> [mine : BOOLEAN, status : Statuses]]
  /\ bugs \in Image \cup {Garbled}
  /\ calls \in 0..MaxCalls /\ changes \in 0..MaxSourceChanges
  /\ stored \subseteq Ids /\ raced \in BOOLEAN /\ fresh \in BOOLEAN

(* No two operations are under way. *)
AloneAtWork == ~raced => \A p, q \in Procs : Busy(p) /\ Busy(q) => p = q

(* Between its truncation and its writing the file is empty. *)
FileFits == ~raced => IF Writing THEN bugs = Empty ELSE Readable /\ Listed(bugs) = stored

(* What is about to be written lists what is stored once it is written. *)
WriteFits(o) ==
  /\ o.pc = "delete" => \E i \in Ids : o.target = {i}
  /\ o.pc \in {"write", "fill"} =>
       \/ o.target = {} /\ Listed(o.img) = stored
       \/ \E i \in Ids : /\ o.target = {i}
                         /\ Listed(o.img) = IF o.img[i] = NoBug THEN stored \ {i} ELSE stored \cup {i}

Mine == {SyncId(t) : t \in {u \in Tickets : source[u].mine}}
FiledNow(i) == Filed(Entered(i[2]))
Published(img) ==
  \A t \in Tickets :
    (\E i \in Ids : i[2] = t /\ img[i] # NoBug /\ Normal(img[i]).inbox = "active")
      <=> source[t].mine /\ source[t].status = "open"

(* A sync whose list is still what the platform says: what it has handled is filed
   as it is there, and once it prunes, all is. *)
SyncFits(o) ==
  o.current /\ o.pc # "idle" =>
    /\ o.keep = Mine /\ o.pc # "delete"
    /\ \A i \in Ids : o.queue[i] # NoBug => i \in Mine /\ o.queue[i] = Entered(i[2])
    /\ o.pc = "hydrate" => \A i \in Mine : o.queue[i] # NoBug
    /\ o.pc = "upsert" => \A i \in Mine : o.queue[i] # NoBug \/ bugs[i] = FiledNow(i)
    /\ o.pc = "prune" => \A i \in Mine : o.queue[i] = NoBug /\ bugs[i] = FiledNow(i)
    /\ o.pc \in {"write", "fill"} /\ o.target # {} =>
         \A i \in Mine : o.queue[i] # NoBug \/ o.img[i] = FiledNow(i)
    /\ o.pc \in {"write", "fill"} /\ o.target = {} => Listed(o.queue) = {} /\ Published(o.img)

FreshFits == fresh => ~raced /\ (\A p \in Procs : ~Busy(p)) /\ Published(bugs)

InboxInv ==
  /\ InboxTypes /\ op \in [Procs -> Operations]
  /\ AloneAtWork /\ FileFits
  /\ ~raced => \A p \in Procs : WriteFits(op[p]) /\ SyncFits(op[p])
  /\ FreshFits

-----------------------------------------------------------------------------
LEMMA EmptyImage == Empty \in Image /\ Listed(Empty) = {} /\ Idle \in Operations
BY DEF Empty, Image, Listed, Idle, Operations

(* What Upsert makes of an image. *)
LEMMA UpsertedFits ==
  ASSUME BugInboxAssumption, NEW img \in Image, NEW i \in Ids, NEW b \in Entry
  PROVE  /\ Filed(b) \in Entry /\ Filed(b) # NoBug /\ Upserted(img, i, b) \in Image
         /\ Listed(Upserted(img, i, b)) = Listed(img) \cup {i}
         /\ Upserted(img, i, b)[i] = Filed(b)
         /\ \A j \in Ids \ {i} : Upserted(img, i, b)[j] = img[j]
<1>1. Filed(b) \in Entry /\ Filed(b) # NoBug
  BY DEF Filed, Entry, Statuses, BugInboxAssumption
<1> QED
  BY <1>1 DEF Upserted, Image, Listed

LEMMA NormalFits ==
  ASSUME BugInboxAssumption, NEW b \in Entry \cup {NoBug}
  PROVE  Normal(b) \in Entry \cup {NoBug} /\ (Normal(b) = NoBug <=> b = NoBug)
BY DEF Normal, Entry, Statuses, BugInboxAssumption

(* What a pruning makes of an image: nothing is lost. *)
LEMMA PrunedFits ==
  ASSUME BugInboxAssumption, NEW img \in Image, NEW keep \in SUBSET Ids
  PROVE  /\ Pruned(img, keep) \in Image /\ Listed(Pruned(img, keep)) = Listed(img)
         /\ \A i \in keep : Pruned(img, keep)[i] = img[i]
         /\ \A i \in Ids \ keep : Pruned(img, keep)[i] = NoBug \/ Pruned(img, keep)[i].inbox = "history"
         /\ Stale(img, keep) = {} => Pruned(img, keep) = img
<1> DEFINE new(i) == IF i \in Stale(img, keep) THEN [img[i] EXCEPT !.inbox = "history"] ELSE img[i]
<1>1. Pruned(img, keep) = [i \in Ids |-> new(i)]
  BY DEF Pruned
<1>2. \A i \in Ids : /\ new(i) \in Entry \cup {NoBug} /\ (new(i) = NoBug <=> img[i] = NoBug)
                     /\ i \in keep => new(i) = img[i]
                     /\ i \notin keep => new(i) = NoBug \/ new(i).inbox = "history"
  BY DEF Image, Entry, Stale, BugInboxAssumption
<1>3. Stale(img, keep) = {} => \A i \in Ids : new(i) = img[i]
  OBVIOUS
<1> HIDE DEF new
<1> QED
  BY <1>1, <1>2, <1>3 DEF Image, Listed

LEMMA PublishedFits ==
  ASSUME BugInboxAssumption, InboxTypes, NEW img \in Image,
         \A i \in Mine : img[i] = FiledNow(i),
         \A i \in Ids \ Mine : img[i] = NoBug \/ img[i].inbox = "history"
  PROVE  Published(img)
<1>1. ASSUME NEW t \in Tickets, source[t].mine, source[t].status = "open"
      PROVE  \E i \in Ids : i[2] = t /\ img[i] # NoBug /\ Normal(img[i]).inbox = "active"
  <2>1. SyncId(t) \in Ids /\ SyncId(t)[2] = t /\ SyncId(t) \in Mine
    BY <1>1 DEF SyncId, Ids, Mine
  <2>2. img[SyncId(t)] = Filed(Entered(t))
    BY <2>1 DEF FiledNow
  <2>3. Entered(t) \in Entry /\ Entered(t).status = "open" /\ Entered(t).inbox = "active"
    BY <1>1 DEF Entered, Entry, Statuses
  <2>4. Filed(Entered(t)) \in Entry /\ Filed(Entered(t)).status = "open" /\ Filed(Entered(t)).inbox = "active"
    BY <2>3 DEF Filed, Entry
  <2>5. img[SyncId(t)] # NoBug /\ Normal(img[SyncId(t)]).inbox = "active"
    BY <2>2, <2>4 DEF Normal, BugInboxAssumption
  <2> QED
    BY <2>1, <2>5
<1>2. ASSUME NEW t \in Tickets, NEW i \in Ids, i[2] = t, img[i] # NoBug, Normal(img[i]).inbox = "active"
      PROVE  source[t].mine /\ source[t].status = "open"
  <2>1. img[i] \in Entry
    BY <1>2 DEF Image
  <2>2. img[i].status # "resolved" /\ img[i].inbox = "active"
    BY <1>2, <2>1 DEF Normal, Entry
  <2>3. i \in Mine
    BY <1>2, <2>2
  <2>4. PICK u \in Tickets : source[u].mine /\ i = SyncId(u)
    BY <2>3 DEF Mine
  <2>5. u = t
    BY <1>2, <2>4 DEF SyncId
  <2>6. img[i] = Filed(Entered(t))
    BY <1>2, <2>3 DEF FiledNow
  <2>7. Entered(t) \in Entry /\ Entered(t).status = source[t].status
    BY DEF Entered, Entry, InboxTypes, Statuses
  <2>8. Filed(Entered(t)).status = source[t].status
    BY <2>7 DEF Filed, Entry
  <2> QED
    BY <2>2, <2>4, <2>5, <2>6, <2>8 DEF InboxTypes, Statuses
<1> QED
  BY <1>1, <1>2 DEF Published

LEMMA InboxStarts == ASSUME BugInboxAssumption, InboxInit PROVE InboxInv
<1>1. InboxTypes /\ op \in [Procs -> Operations] /\ \A p \in Procs : op[p] = Idle
  <2>1. InboxTypes
    <3>1. source \in [Tickets -> [mine : BOOLEAN, status : Statuses]]
      BY DEF InboxInit, Statuses
    <3>2. calls \in 0..MaxCalls /\ changes \in 0..MaxSourceChanges
      BY DEF InboxInit, BugInboxAssumption
    <3> QED
      BY <3>1, <3>2, EmptyImage DEF InboxInit, InboxTypes
  <2>2. op \in [Procs -> Operations] /\ \A p \in Procs : op[p] = Idle
    BY EmptyImage, Zenon DEF InboxInit
  <2> QED
    BY <2>1, <2>2
<1>2. \A p \in Procs : op[p].pc = "idle"
  BY <1>1 DEF Idle
<1>3. FileFits
  <2>1. ~Writing /\ Readable
    BY <1>2, EmptyImage DEF Writing, Readable, InboxInit, BugInboxAssumption
  <2> QED
    BY <2>1, EmptyImage DEF FileFits, InboxInit
<1> QED
  BY <1>1, <1>2, <1>3 DEF InboxInv, AloneAtWork, Busy, WriteFits, SyncFits, FreshFits, InboxInit

(* An operation goes from one step to the next. *)
LEMMA InboxMove ==
  ASSUME InboxInv, InboxTypes', NEW p \in Procs, NEW o \in Operations,
         op' = [op EXCEPT ![p] = o],
         ~raced' => ~raced /\ \A q \in Procs \ {p} : ~Busy(q),
         ~raced' => /\ IF o.pc = "fill" THEN bugs' = Empty ELSE bugs' # Garbled /\ Listed(bugs') = stored'
                    /\ WriteFits(o)' /\ SyncFits(o)',
         fresh' => ~raced' /\ o.pc = "idle" /\ Published(bugs)'
  PROVE  InboxInv'
<1> USE DEF InboxInv
<1>1. op' \in [Procs -> Operations] /\ op'[p] = o /\ \A q \in Procs \ {p} : op'[q] = op[q]
  OBVIOUS
<1>2. ~raced' => \A q \in Procs \ {p} : op'[q].pc = "idle"
  BY <1>1 DEF Busy
<1>3. AloneAtWork'
  BY <1>2 DEF AloneAtWork, Busy
<1>4. FileFits'
  <2>1. ~raced' => (Writing' <=> o.pc = "fill")
    BY <1>1, <1>2 DEF Writing
  <2>2. Readable' <=> bugs' # Garbled
    BY DEF Readable
  <2>3. Listed(bugs)' = Listed(bugs')
    BY DEF Listed
  <2> QED
    BY <2>1, <2>2, <2>3 DEF FileFits
<1>5. ASSUME ~raced', NEW q \in Procs PROVE (WriteFits(op[q]) /\ SyncFits(op[q]))'
  <2>1. CASE q = p
    <3>1. op'[q] = o /\ WriteFits(o)' /\ SyncFits(o)'
      BY <1>1, <1>5, <2>1
    <3>2. WriteFits(op[q])'
      BY <3>1 DEF WriteFits
    <3>3. SyncFits(op[q])'
      BY <3>1 DEF SyncFits, Published, FiledNow, Entered
    <3> QED
      BY <3>2, <3>3
  <2>2. CASE q # p
    BY <1>2, <1>5, <2>2 DEF WriteFits, SyncFits
  <2> QED
    BY <2>1, <2>2
<1>6. FreshFits'
  BY <1>1, <1>2 DEF FreshFits, Busy
<1> QED
  BY <1>1, <1>3, <1>4, <1>5, <1>6

LEMMA OthersIdle ==
  ASSUME InboxInv, NEW p \in Procs, Busy(p)
  PROVE  /\ ~fresh /\ (~raced => \A q \in Procs \ {p} : ~Busy(q))
         /\ ~raced => IF op[p].pc = "fill" THEN bugs = Empty ELSE bugs # Garbled /\ Listed(bugs) = stored
BY DEF InboxInv, AloneAtWork, FreshFits, FileFits, Writing, Readable, Busy

LEMMA SyncStays ==
  ASSUME NEW o, UNCHANGED <<source, bugs>> PROVE SyncFits(o)' <=> SyncFits(o)
BY DEF SyncFits, Mine, FiledNow, Entered, Published

-----------------------------------------------------------------------------
(* An operation begins: if none is under way, it is alone. *)
LEMMA CallKeepsInbox ==
  ASSUME BugInboxAssumption, InboxInv, NEW p \in Procs, NEW o \in Operations, Call(p),
         op' = [op EXCEPT ![p] = o], o.pc \in {"hydrate", "upsert", "delete"}, o.pc = "delete" => \E i \in Ids : o.target = {i},
         SyncFits(o)
  PROVE  InboxInv'
<1> USE DEF InboxInv
<1>1. InboxTypes'
  <2>1. calls' \in 0..MaxCalls
    BY DEF InboxTypes, Call, BugInboxAssumption
  <2>2. raced' \in BOOLEAN
    BY DEF Call
  <2> QED
    BY <2>1, <2>2 DEF InboxTypes, Call
<1>2. ~raced' => ~raced /\ \A q \in Procs \ {p} : ~Busy(q)
  BY DEF Call, Others, InboxTypes
<1>3. ~raced' => bugs' # Garbled /\ Listed(bugs') = stored'
  <2> SUFFICES ASSUME ~raced' PROVE bugs' # Garbled /\ Listed(bugs') = stored'
    OBVIOUS
  <2>1. ~Writing
    BY <1>2 DEF Call, Writing, Busy
  <2> QED
    BY <1>2, <2>1 DEF FileFits, Readable, Call
<1>4. WriteFits(o)'
  BY DEF WriteFits
<1>5. SyncFits(o)'
  BY SyncStays DEF Call
<1>6. ~fresh'
  BY DEF Call
<1> QED
  BY <1>1, <1>2, <1>3, <1>4, <1>5, <1>6, InboxMove

LEMMA EnteredIsEntry ==
  ASSUME InboxTypes, NEW t \in Tickets PROVE Entered(t) \in Entry
BY DEF InboxTypes, Entered, Entry, Statuses

LEMMA FetchKeepsInbox ==
  ASSUME BugInboxAssumption, InboxInv, NEW p \in Procs, FetchAssigned(p) PROVE InboxInv'
<1> USE DEF InboxInv
<1>1. PICK mine : mine = {SyncId(t) : t \in {u \in Tickets : source[u].mine}}
  OBVIOUS
<1>2. PICK o : o = [Idle EXCEPT !.pc = "hydrate", !.prunes = TRUE, !.current = TRUE, !.keep = mine,
                                !.queue = [i \in Ids |-> IF i \in mine THEN Entered(i[2]) ELSE NoBug]]
  OBVIOUS
<1>3. op' = [op EXCEPT ![p] = o] /\ Call(p)
  BY <1>1, <1>2 DEF FetchAssigned
<1>4. mine \subseteq Ids /\ mine = Mine
  BY <1>1 DEF SyncId, Ids, Mine
<1>5. \A i \in mine : Entered(i[2]) \in Entry /\ Entered(i[2]) # NoBug
  <2> SUFFICES ASSUME NEW i \in mine PROVE Entered(i[2]) \in Entry /\ Entered(i[2]) # NoBug
    OBVIOUS
  <2>1. PICK t \in Tickets : i = SyncId(t)
    BY <1>1
  <2>2. i[2] = t
    BY <2>1 DEF SyncId
  <2> QED
    BY <2>2, EnteredIsEntry DEF BugInboxAssumption
<1>6. /\ o.pc = "hydrate" /\ o.keep = mine
      /\ o.queue = [i \in Ids |-> IF i \in mine THEN Entered(i[2]) ELSE NoBug]
  BY <1>2 DEF Idle
<1>7. o.queue \in Image
  BY <1>5, <1>6 DEF Image
<1>8. o \in Operations
  BY <1>2, <1>4, <1>6, <1>7, EmptyImage DEF Operations, Idle
<1>9. SyncFits(o)
  BY <1>4, <1>5, <1>6 DEF SyncFits
<1> QED
  BY <1>3, <1>6, <1>8, <1>9, CallKeepsInbox

(* The operations about one entry. *)
LEMMA SingleKeepsInbox ==
  ASSUME BugInboxAssumption, InboxInv, NEW p \in Procs, NEW i \in Ids, NEW b \in Entry, Call(p),
         op' = [op EXCEPT ![p] = [Idle EXCEPT !.pc = "upsert", !.queue = [Empty EXCEPT ![i] = b]]]
  PROVE  InboxInv'
<1>1. PICK o : o = [Idle EXCEPT !.pc = "upsert", !.queue = [Empty EXCEPT ![i] = b]]
  OBVIOUS
<1>2. [Empty EXCEPT ![i] = b] \in Image
  BY EmptyImage DEF Image
<1>3. o \in Operations /\ o.pc = "upsert" /\ ~o.current
  BY <1>1, <1>2, EmptyImage DEF Operations, Idle
<1>4. SyncFits(o)
  BY <1>3 DEF SyncFits
<1> QED
  BY <1>1, <1>3, <1>4, CallKeepsInbox

LEMMA BeginKeepsInbox ==
  ASSUME BugInboxAssumption, InboxInv, NEW p \in Procs, Begin(p) PROVE InboxInv'
<1> USE DEF InboxInv
<1>1. CASE FetchAssigned(p)
  BY <1>1, FetchKeepsInbox
<1>2. ASSUME NEW t \in Tickets, FetchBugByID(p, t) PROVE InboxInv'
  <2>1. SyncId(t) \in Ids
    BY DEF SyncId, Ids
  <2> QED
    BY <1>2, <2>1, EnteredIsEntry, SingleKeepsInbox DEF FetchBugByID
<1>3. ASSUME NEW t \in Hooked, ReceiveHook(p, t) PROVE InboxInv'
  <2>1. HookId(t) \in Ids
    BY DEF HookId, Ids
  <2>2. PICK s \in Statuses : op' = [op EXCEPT ![p] = [Idle EXCEPT !.pc = "upsert",
                !.queue = [Empty EXCEPT ![HookId(t)] = [status |-> s, inbox |-> "active", bot |-> FALSE]]]]
    BY <1>3 DEF ReceiveHook
  <2>3. [status |-> s, inbox |-> "active", bot |-> FALSE] \in Entry
    BY DEF Entry
  <2> QED
    BY <1>3, <2>1, <2>2, <2>3, SingleKeepsInbox DEF ReceiveHook
<1>4. ASSUME NEW i \in Ids, SelectBot(p, i) \/ PreviewAttachment(p, i) PROVE InboxInv'
  <2>1. Call(p) /\ bugs \in Image /\ bugs[i] # NoBug
    BY <1>4 DEF SelectBot, PreviewAttachment, InboxTypes, Readable
  <2>2. bugs[i] \in Entry
    BY <2>1 DEF Image
  <2>3. Normal(bugs[i]) \in Entry /\ [Normal(bugs[i]) EXCEPT !.bot = TRUE] \in Entry
    BY <2>1, <2>2, NormalFits DEF Entry
  <2> QED
    BY <1>4, <2>1, <2>3, SingleKeepsInbox DEF SelectBot, PreviewAttachment
<1>5. ASSUME NEW i \in Ids, DeleteBugHistory(p, i) PROVE InboxInv'
  <2>1. PICK o : o = [Idle EXCEPT !.pc = "delete", !.target = {i}]
    OBVIOUS
  <2>2. o \in Operations /\ o.pc = "delete" /\ ~o.current /\ o.target = {i}
    BY <2>1, EmptyImage DEF Operations, Idle
  <2>3. SyncFits(o)
    BY <2>2 DEF SyncFits
  <2> QED
    BY <1>5, <2>1, <2>2, <2>3, CallKeepsInbox DEF DeleteBugHistory
<1> QED
  BY <1>1, <1>2, <1>3, <1>4, <1>5 DEF Begin

-----------------------------------------------------------------------------
(* An operation goes on. *)
LEMMA HydrateKeepsInbox ==
  ASSUME BugInboxAssumption, InboxInv, NEW p \in Procs, Hydrate(p) PROVE InboxInv'
<1> USE DEF InboxInv
<1>1. PICK old \in Operations : old = op[p]
  OBVIOUS
<1>2. PICK H \in SUBSET Listed(old.queue) :
        op' = [op EXCEPT ![p].pc = IF op[p].keep = {} THEN "prune" ELSE "upsert",
                         ![p].queue = [i \in Ids |-> IF i \in H THEN Entered(i[2]) ELSE op[p].queue[i]]]
  BY <1>1 DEF Hydrate
<1>3. PICK q : q = [i \in Ids |-> IF i \in H THEN Entered(i[2]) ELSE old.queue[i]]
  OBVIOUS
<1>4. PICK o : o = [old EXCEPT !.pc = IF old.keep = {} THEN "prune" ELSE "upsert", !.queue = q]
  OBVIOUS
<1>5. op' = [op EXCEPT ![p] = o]
  BY <1>1, <1>2, <1>3, <1>4
<1>6. \A i \in Ids : Entered(i[2]) \in Entry /\ Entered(i[2]) # NoBug
  <2>1. \A i \in Ids : i[2] \in Tickets
    BY DEF Ids, BugInboxAssumption
  <2> QED
    BY <2>1, EnteredIsEntry DEF BugInboxAssumption
<1>7. q \in Image
  BY <1>3, <1>6 DEF Image, Operations
<1>8. o \in Operations /\ o.queue = q /\ o.keep = old.keep /\ o.current = old.current
      /\ o.pc = IF old.keep = {} THEN "prune" ELSE "upsert"
  BY <1>4, <1>7 DEF Operations
<1>9. Busy(p) /\ old.pc = "hydrate"
  BY <1>1 DEF Hydrate, Busy
<1>10. ASSUME ~raced PROVE SyncFits(o)
  <2>1. SyncFits(old)
    BY <1>1, <1>10
  <2>2. \A i \in Ids : q[i] = IF i \in H THEN Entered(i[2]) ELSE old.queue[i]
    BY <1>3
  <2>3. \A i \in H : i \in Ids /\ old.queue[i] # NoBug
    BY <1>2 DEF Listed
  <2>4. SUFFICES ASSUME o.current
        PROVE  /\ o.keep = Mine
               /\ \A i \in Ids : q[i] # NoBug => i \in Mine /\ q[i] = Entered(i[2])
               /\ o.pc = "upsert" => \A i \in Mine : q[i] # NoBug
               /\ o.pc = "prune" => Mine = {}
    BY <1>8, <2>4 DEF SyncFits
  <2>5. /\ old.keep = Mine
        /\ \A i \in Ids : old.queue[i] # NoBug => i \in Mine /\ old.queue[i] = Entered(i[2])
        /\ \A i \in Mine : old.queue[i] # NoBug
    BY <1>8, <1>9, <2>1, <2>4 DEF SyncFits
  <2>6. Mine \subseteq Ids
    BY DEF Mine, Ids, SyncId
  <2> QED
    BY <1>6, <1>8, <2>2, <2>3, <2>5, <2>6
<1>11. UNCHANGED <<source, bugs, calls, changes, stored, raced, fresh>>
  BY DEF Hydrate
<1>12. InboxTypes'
  BY <1>11 DEF InboxTypes
<1>13. WriteFits(o)'
  BY <1>8 DEF WriteFits
<1>14. ~raced => SyncFits(o)'
  BY <1>10, <1>11, SyncStays
<1>15. Listed(bugs') = Listed(bugs) /\ o.pc # "fill" /\ old.pc # "fill"
  BY <1>8, <1>9, <1>11
<1> QED
  BY <1>1, <1>5, <1>8, <1>9, <1>11, <1>12, <1>13, <1>14, <1>15, OthersIdle, InboxMove

LEMMA UpsertKeepsInbox ==
  ASSUME BugInboxAssumption, InboxInv, NEW p \in Procs, UpsertRead(p) PROVE InboxInv'
<1> USE DEF InboxInv
<1>1. PICK old \in Operations : old = op[p]
  OBVIOUS
<1>2. PICK img \in Image : img = bugs
  BY DEF InboxTypes, UpsertRead, Readable
<1>3. PICK i \in Listed(old.queue) :
        op' = [op EXCEPT ![p].pc = "write", ![p].img = Upserted(img, i, old.queue[i]),
                         ![p].queue[i] = NoBug, ![p].target = {i}]
  BY <1>1, <1>2 DEF UpsertRead
<1>4. i \in Ids /\ old.queue \in Image /\ old.queue[i] \in Entry
  BY <1>3 DEF Listed, Operations, Image
<1>5. PICK new : new = Upserted(img, i, old.queue[i])
  OBVIOUS
<1>6. /\ new \in Image /\ Listed(new) = Listed(img) \cup {i} /\ new[i] = Filed(old.queue[i]) /\ new[i] # NoBug
      /\ \A j \in Ids \ {i} : new[j] = img[j]
  BY <1>4, <1>5, UpsertedFits
<1>7. PICK q \in Image : q = [old.queue EXCEPT ![i] = NoBug]
  BY <1>4 DEF Image
<1>8. PICK o : o = [old EXCEPT !.pc = "write", !.img = new, !.queue = q, !.target = {i}]
  OBVIOUS
<1>9. op' = [op EXCEPT ![p] = o]
  BY <1>1, <1>3, <1>5, <1>7, <1>8 DEF Operations
<1>10. o \in Operations /\ o.pc = "write" /\ o.img = new /\ o.queue = q /\ o.target = {i}
       /\ o.keep = old.keep /\ o.current = old.current
  BY <1>4, <1>6, <1>8 DEF Operations
<1>11. Busy(p) /\ old.pc = "upsert"
  BY <1>1 DEF UpsertRead, Busy
<1>12. UNCHANGED <<source, bugs, calls, changes, stored, raced, fresh>>
  BY DEF UpsertRead
<1>13. ~raced => Listed(img) = stored
  BY <1>1, <1>2, <1>11, OthersIdle
<1>14. ~raced => WriteFits(o)'
  BY <1>4, <1>6, <1>10, <1>12, <1>13 DEF WriteFits
<1>15. ASSUME ~raced PROVE SyncFits(o)
  <2>1. SUFFICES ASSUME o.current
        PROVE  /\ o.keep = Mine
               /\ \A j \in Ids : q[j] # NoBug => j \in Mine /\ q[j] = Entered(j[2])
               /\ \A j \in Mine : q[j] # NoBug \/ new[j] = FiledNow(j)
    BY <1>10, <2>1 DEF SyncFits
  <2>2. /\ old.keep = Mine
        /\ \A j \in Ids : old.queue[j] # NoBug => j \in Mine /\ old.queue[j] = Entered(j[2])
        /\ \A j \in Mine : old.queue[j] # NoBug \/ img[j] = FiledNow(j)
    BY <1>1, <1>2, <1>10, <1>11, <1>15, <2>1 DEF SyncFits
  <2>3. \A j \in Ids : q[j] = IF j = i THEN NoBug ELSE old.queue[j]
    BY <1>4, <1>7 DEF Image
  <2>4. new[i] = FiledNow(i)
    BY <1>3, <1>4, <1>6, <2>2 DEF FiledNow, Listed
  <2>5. Mine \subseteq Ids
    BY DEF Mine, Ids, SyncId
  <2> QED
    BY <1>6, <1>10, <2>2, <2>3, <2>4, <2>5
<1>16. ~raced => SyncFits(o)'
  BY <1>12, <1>15, SyncStays
<1>17. InboxTypes'
  BY <1>12 DEF InboxTypes
<1>18. Listed(bugs') = Listed(bugs) /\ o.pc # "fill" /\ old.pc # "fill"
  BY <1>10, <1>11, <1>12
<1> QED
  BY <1>1, <1>9, <1>10, <1>11, <1>12, <1>14, <1>16, <1>17, <1>18, OthersIdle, InboxMove

(* An operation that ends without writing. *)
LEMMA EndKeepsInbox ==
  ASSUME BugInboxAssumption, InboxInv, NEW p \in Procs, Busy(p), op[p].pc # "fill", op' = [op EXCEPT ![p] = Idle],
         UNCHANGED <<source, bugs, calls, changes, stored, raced>>, fresh' \in BOOLEAN,
         fresh' => ~raced /\ Published(bugs)
  PROVE  InboxInv'
<1> USE DEF InboxInv
<1>1. PICK o \in Operations : o = Idle
  BY EmptyImage
<1>2. o.pc = "idle"
  BY <1>1 DEF Idle
<1>3. InboxTypes'
  BY DEF InboxTypes
<1>4. WriteFits(o)' /\ SyncFits(o)'
  BY <1>2 DEF WriteFits, SyncFits
<1>5. Published(bugs)' <=> Published(bugs)
  BY DEF Published
<1>6. Listed(bugs') = Listed(bugs)
  OBVIOUS
<1> QED
  BY <1>1, <1>2, <1>3, <1>4, <1>5, <1>6, OthersIdle, InboxMove

LEMMA PruneKeepsInbox ==
  ASSUME BugInboxAssumption, InboxInv, NEW p \in Procs, PruneRead(p) PROVE InboxInv'
<1> USE DEF InboxInv
<1>1. PICK old \in Operations : old = op[p]
  OBVIOUS
<1>2. PICK img \in Image : img = bugs
  BY DEF InboxTypes, PruneRead, Readable
<1>3. PICK new : new = Pruned(img, old.keep)
  OBVIOUS
<1>4. /\ new \in Image /\ Listed(new) = Listed(img)
      /\ \A i \in old.keep : new[i] = img[i]
      /\ \A i \in Ids \ old.keep : new[i] = NoBug \/ new[i].inbox = "history"
      /\ Stale(img, old.keep) = {} => new = img
  BY <1>3, PrunedFits DEF Operations
<1>5. Busy(p) /\ old.pc = "prune"
  BY <1>1 DEF PruneRead, Busy
<1>6. ~raced => Listed(img) = stored
  BY <1>1, <1>2, <1>5, OthersIdle
<1>7. ASSUME ~raced, old.current PROVE Published(new) /\ Listed(old.queue) = {}
  <2>1. /\ old.keep = Mine
        /\ \A i \in Ids : old.queue[i] # NoBug => i \in Mine
        /\ \A i \in Mine : old.queue[i] = NoBug /\ img[i] = FiledNow(i)
    BY <1>1, <1>2, <1>5, <1>7 DEF SyncFits
  <2>2. Published(new)
    BY <1>4, <2>1, PublishedFits
  <2> QED
    BY <2>1, <2>2 DEF Listed
<1>8. CASE Stale(img, old.keep) = {}
  <2>1. op' = [op EXCEPT ![p] = Idle] /\ fresh' = (old.current /\ ~raced)
        /\ UNCHANGED <<source, bugs, calls, changes, stored, raced>>
    BY <1>1, <1>2, <1>8 DEF PruneRead
  <2>2. fresh' \in BOOLEAN
    BY <2>1 DEF Operations, InboxTypes
  <2>3. fresh' => ~raced /\ Published(bugs)
    BY <1>2, <1>4, <1>7, <1>8, <2>1
  <2> QED
    BY <1>1, <1>5, <2>1, <2>2, <2>3, EndKeepsInbox
<1>9. CASE Stale(img, old.keep) # {}
  <2>1. PICK o : o = [old EXCEPT !.pc = "write", !.target = {}, !.img = new]
    OBVIOUS
  <2>2. op' = [op EXCEPT ![p] = o] /\ UNCHANGED <<source, bugs, calls, changes, stored, raced, fresh>>
    BY <1>1, <1>2, <1>3, <1>9, <2>1 DEF PruneRead
  <2>3. o \in Operations /\ o.pc = "write" /\ o.target = {} /\ o.img = new /\ o.queue = old.queue
        /\ o.keep = old.keep /\ o.current = old.current
    BY <1>4, <2>1 DEF Operations
  <2>4. ~raced => WriteFits(o)'
    BY <1>4, <1>6, <2>2, <2>3 DEF WriteFits
  <2>5. ASSUME ~raced PROVE SyncFits(o)
    <3>1. old.current => /\ old.keep = Mine
                         /\ \A i \in Ids : old.queue[i] # NoBug => i \in Mine /\ old.queue[i] = Entered(i[2])
      BY <1>1, <1>5, <2>5 DEF SyncFits
    <3> QED
      BY <1>7, <2>3, <2>5, <3>1 DEF SyncFits
  <2>6. ~raced => SyncFits(o)'
    BY <2>2, <2>5, SyncStays
  <2>7. InboxTypes'
    BY <2>2 DEF InboxTypes
  <2>8. Listed(bugs') = Listed(bugs) /\ o.pc # "fill" /\ old.pc # "fill"
    BY <1>5, <2>2, <2>3
  <2> QED
    BY <1>1, <1>5, <2>2, <2>3, <2>4, <2>6, <2>7, <2>8, OthersIdle, InboxMove
<1> QED
  BY <1>8, <1>9

LEMMA DeleteKeepsInbox ==
  ASSUME BugInboxAssumption, InboxInv, NEW p \in Procs, DeleteRead(p) PROVE InboxInv'
<1> USE DEF InboxInv
<1>1. PICK old \in Operations : old = op[p]
  OBVIOUS
<1>2. PICK img \in Image : img = bugs
  BY DEF InboxTypes, DeleteRead, Readable
<1>3. PICK i \in old.target :
        IF img[i] # NoBug /\ Normal(img[i]).inbox = "history"
         THEN op' = [op EXCEPT ![p].pc = "write",
                               ![p].img = [[j \in Ids |-> Normal(img[j])] EXCEPT ![i] = NoBug]]
         ELSE op' = [op EXCEPT ![p] = Idle]
  BY <1>1, <1>2 DEF DeleteRead
<1>4. Busy(p) /\ old.pc = "delete" /\ i \in Ids
  BY <1>1 DEF DeleteRead, Busy, Operations
<1>5. UNCHANGED <<source, bugs, calls, changes, stored, raced, fresh>>
  BY DEF DeleteRead
<1>6. ~fresh /\ (~raced => Listed(img) = stored)
  BY <1>1, <1>2, <1>4, OthersIdle
<1>7. CASE img[i] # NoBug /\ Normal(img[i]).inbox = "history"
  <2>1. PICK new : new = [[j \in Ids |-> Normal(img[j])] EXCEPT ![i] = NoBug]
    OBVIOUS
  <2>2. new \in Image /\ new[i] = NoBug /\ Listed(new) = Listed(img) \ {i}
    <3>1. \A j \in Ids : Normal(img[j]) \in Entry \cup {NoBug} /\ (Normal(img[j]) = NoBug <=> img[j] = NoBug)
      BY NormalFits DEF Image
    <3> QED
      BY <1>4, <2>1, <3>1 DEF Image, Listed
  <2>3. PICK o : o = [old EXCEPT !.pc = "write", !.img = new]
    OBVIOUS
  <2>4. op' = [op EXCEPT ![p] = o]
    BY <1>1, <1>3, <1>7, <2>1, <2>3
  <2>5. o \in Operations /\ o.pc = "write" /\ o.target = old.target /\ o.img = new /\ o.current = old.current
    BY <2>2, <2>3 DEF Operations
  <2>6. ASSUME ~raced PROVE WriteFits(o)' /\ SyncFits(o)'
    <3>1. old.target = {i} /\ ~old.current
      BY <1>1, <1>3, <1>4, <2>6 DEF WriteFits, SyncFits
    <3> QED
      BY <1>4, <1>5, <1>6, <2>2, <2>5, <2>6, <3>1 DEF WriteFits, SyncFits
  <2>7. InboxTypes'
    BY <1>5 DEF InboxTypes
  <2>8. Listed(bugs') = Listed(bugs) /\ o.pc # "fill" /\ old.pc # "fill"
    BY <1>4, <1>5, <2>5
  <2> QED
    BY <1>1, <1>4, <1>5, <2>4, <2>5, <2>6, <2>7, <2>8, OthersIdle, InboxMove
<1>8. CASE ~(img[i] # NoBug /\ Normal(img[i]).inbox = "history")
  <2>1. op' = [op EXCEPT ![p] = Idle] /\ op[p].pc # "fill"
    BY <1>1, <1>3, <1>4, <1>8
  <2>2. fresh' \in BOOLEAN /\ ~fresh'
    BY <1>5, <1>6 DEF InboxTypes
  <2> QED
    BY <1>4, <1>5, <2>1, <2>2, EndKeepsInbox
<1> QED
  BY <1>7, <1>8

LEMMA FailKeepsInbox ==
  ASSUME BugInboxAssumption, InboxInv, NEW p \in Procs, ReadFails(p) PROVE InboxInv'
<1>1. /\ Busy(p) /\ op[p].pc # "fill" /\ op' = [op EXCEPT ![p] = Idle]
      /\ UNCHANGED <<source, bugs, calls, changes, stored, raced, fresh>>
  BY DEF ReadFails, Busy
<1>2. fresh' \in BOOLEAN /\ ~fresh'
  BY <1>1, OthersIdle DEF InboxInv, InboxTypes
<1> QED
  BY <1>1, <1>2, EndKeepsInbox

LEMMA TruncateKeepsInbox ==
  ASSUME BugInboxAssumption, InboxInv, NEW p \in Procs, Truncate(p) PROVE InboxInv'
<1> USE DEF InboxInv
<1>1. PICK old \in Operations : old = op[p]
  OBVIOUS
<1>2. PICK o : o = [old EXCEPT !.pc = "fill"]
  OBVIOUS
<1>3. op' = [op EXCEPT ![p] = o] /\ bugs' = Empty /\ UNCHANGED <<source, calls, changes, stored, raced, fresh>>
  BY <1>1, <1>2 DEF Truncate
<1>4. o \in Operations /\ o.pc = "fill" /\ o.target = old.target /\ o.img = old.img /\ o.queue = old.queue
      /\ o.keep = old.keep /\ o.current = old.current
  BY <1>2 DEF Operations
<1>5. Busy(p) /\ old.pc = "write"
  BY <1>1 DEF Truncate, Busy
<1>6. ~raced => WriteFits(o)'
  BY <1>1, <1>3, <1>4, <1>5 DEF WriteFits
<1>7. ASSUME ~raced PROVE SyncFits(o)'
  <2>1. SyncFits(old)
    BY <1>1, <1>7
  <2>2. old.current => /\ old.keep = Mine
                       /\ \A i \in Ids : old.queue[i] # NoBug => i \in Mine /\ old.queue[i] = Entered(i[2])
                       /\ old.target # {} => \A i \in Mine : old.queue[i] # NoBug \/ old.img[i] = FiledNow(i)
                       /\ old.target = {} => Listed(old.queue) = {} /\ Published(old.img)
    BY <1>5, <2>1 DEF SyncFits
  <2>3. SyncFits(o)
    BY <1>4, <2>2 DEF SyncFits
  <2> QED
    BY <1>3, <1>4, <2>3 DEF SyncFits, Mine, FiledNow, Entered, Published
<1>8. InboxTypes'
  BY <1>3, EmptyImage DEF InboxTypes
<1> QED
  BY <1>1, <1>3, <1>4, <1>5, <1>6, <1>7, <1>8, OthersIdle, InboxMove

LEMMA FillKeepsInbox ==
  ASSUME BugInboxAssumption, InboxInv, NEW p \in Procs, Fill(p) PROVE InboxInv'
<1> USE DEF InboxInv
<1>1. PICK old \in Operations : old = op[p]
  OBVIOUS
<1>2. Busy(p) /\ old.pc = "fill" /\ UNCHANGED <<source, calls, changes, raced>>
  BY <1>1 DEF Fill, Busy
<1>3. /\ bugs' = old.img \/ (bugs # Empty /\ bugs' = Garbled)
      /\ stored' = IF old.target = {} THEN stored
                   ELSE LET i == CHOOSE i \in old.target : TRUE
                        IN  IF old.img[i] = NoBug THEN stored \ {i} ELSE stored \cup {i}
      /\ fresh' = (old.target = {} /\ old.current /\ ~raced)
  BY <1>1 DEF Fill
<1>4. PICK o : o = IF Listed(old.queue) # {} THEN [old EXCEPT !.pc = "upsert"]
                   ELSE IF old.target = {} \/ ~old.prunes THEN Idle ELSE [old EXCEPT !.pc = "prune"]
  OBVIOUS
<1>5. op' = [op EXCEPT ![p] = o]
  BY <1>1, <1>4 DEF Fill
<1>6. /\ o \in Operations /\ o.pc \in {"upsert", "prune", "idle"}
      /\ o.pc # "idle" => o.queue = old.queue /\ o.keep = old.keep /\ o.current = old.current
      /\ o.pc = "prune" => Listed(old.queue) = {} /\ old.target # {}
      /\ Listed(old.queue) = {} /\ old.target = {} => o.pc = "idle"
      /\ o.pc = "upsert" => Listed(old.queue) # {}
  BY <1>4, EmptyImage DEF Operations, Idle
<1>7. ~raced => bugs' = old.img
  BY <1>1, <1>2, <1>3, OthersIdle
<1>8. InboxTypes'
  <2>1. bugs' \in Image \cup {Garbled}
    BY <1>3 DEF Operations
  <2>2. stored' \subseteq Ids
    BY <1>3 DEF Operations, InboxTypes
  <2>3. fresh' \in BOOLEAN
    BY <1>3 DEF Operations, InboxTypes
  <2> QED
    BY <1>2, <2>1, <2>2, <2>3 DEF InboxTypes
<1>9. ASSUME ~raced PROVE bugs' # Garbled /\ Listed(bugs') = stored'
  <2>1. old.img # Garbled
    BY DEF Operations, BugInboxAssumption
  <2>2. WriteFits(old)
    BY <1>1, <1>9
  <2>3. CASE old.target = {} /\ Listed(old.img) = stored
    BY <1>3, <1>7, <1>9, <2>1, <2>3
  <2>4. ASSUME NEW i \in Ids, old.target = {i},
               Listed(old.img) = IF old.img[i] = NoBug THEN stored \ {i} ELSE stored \cup {i}
        PROVE  bugs' # Garbled /\ Listed(bugs') = stored'
    <3>1. (CHOOSE j \in old.target : TRUE) = i
      BY <2>4
    <3>2. stored' = IF old.img[i] = NoBug THEN stored \ {i} ELSE stored \cup {i}
      BY <1>3, <2>4, <3>1
    <3> QED
      BY <1>7, <1>9, <2>1, <2>4, <3>2
  <2> QED
    BY <1>2, <2>2, <2>3, <2>4 DEF WriteFits
<1>10. WriteFits(o)'
  BY <1>6 DEF WriteFits
<1>11. ASSUME ~raced PROVE SyncFits(o)'
  <2>1. SUFFICES ASSUME o.current, o.pc # "idle"
        PROVE  /\ o.keep = Mine
               /\ \A i \in Ids : o.queue[i] # NoBug => i \in Mine /\ o.queue[i] = Entered(i[2])
               /\ \A i \in Mine : o.queue[i] # NoBug \/ old.img[i] = FiledNow(i)
               /\ o.pc = "prune" => \A i \in Mine : o.queue[i] = NoBug
    <3>1. Mine' = Mine /\ \A i : FiledNow(i)' = FiledNow(i) /\ Entered(i[2])' = Entered(i[2])
      BY <1>2 DEF Mine, FiledNow, Entered
    <3>2. bugs' = old.img
      BY <1>7, <1>11
    <3>3. CASE o.pc = "upsert" /\ o.current
      BY <2>1, <3>1, <3>2, <3>3 DEF SyncFits
    <3>4. CASE o.pc = "prune" /\ o.current
      BY <2>1, <3>1, <3>2, <3>4 DEF SyncFits
    <3>5. CASE o.pc = "idle" \/ ~o.current
      BY <3>5 DEF SyncFits
    <3> QED
      BY <1>6, <3>3, <3>4, <3>5
  <2>2. /\ old.keep = Mine
        /\ \A i \in Ids : old.queue[i] # NoBug => i \in Mine /\ old.queue[i] = Entered(i[2])
        /\ old.target # {} => \A i \in Mine : old.queue[i] # NoBug \/ old.img[i] = FiledNow(i)
        /\ old.target = {} => Listed(old.queue) = {}
    BY <1>1, <1>2, <1>6, <1>11, <2>1 DEF SyncFits
  <2>3. old.target # {}
    BY <1>6, <2>1, <2>2
  <2>4. Mine \subseteq Ids
    BY DEF Mine, Ids, SyncId
  <2> QED
    BY <1>6, <2>1, <2>2, <2>3, <2>4 DEF Listed
<1>12. ASSUME fresh' PROVE ~raced' /\ o.pc = "idle" /\ Published(bugs)'
  <2>1. ~raced /\ old.target = {} /\ old.current
    BY <1>3, <1>12
  <2>2. Listed(old.queue) = {} /\ Published(old.img)
    BY <1>1, <1>2, <2>1 DEF SyncFits
  <2> QED
    BY <1>2, <1>6, <1>7, <2>1, <2>2 DEF Published
<1>13. o.pc # "fill"
  BY <1>6
<1> QED
  BY <1>2, <1>5, <1>6, <1>8, <1>9, <1>10, <1>11, <1>12, <1>13, OthersIdle, InboxMove

-----------------------------------------------------------------------------
(* The outside: what an operation has read may be out of date from now on. *)
LEMMA SourceKeepsInbox ==
  ASSUME BugInboxAssumption, InboxInv, SourceChanges PROVE InboxInv'
<1> USE DEF InboxInv
<1>1. /\ op' = [p \in Procs |-> [op[p] EXCEPT !.current = FALSE]] /\ fresh' = FALSE
      /\ UNCHANGED <<bugs, calls, stored, raced>>
  BY DEF SourceChanges
<1>2. op' \in [Procs -> Operations]
  BY <1>1 DEF Operations
<1>3. \A p \in Procs : /\ op'[p].pc = op[p].pc /\ op'[p].target = op[p].target /\ op'[p].img = op[p].img
                       /\ ~op'[p].current
  BY <1>1 DEF Operations
<1>4. InboxTypes'
  <2>1. source' \in [Tickets -> [mine : BOOLEAN, status : Statuses]]
    BY DEF SourceChanges, InboxTypes
  <2>2. changes' \in 0..MaxSourceChanges
    BY DEF SourceChanges, InboxTypes, BugInboxAssumption
  <2> QED
    BY <1>1, <2>1, <2>2 DEF InboxTypes, SourceChanges
<1>5. AloneAtWork' /\ FileFits'
  <2>1. AloneAtWork'
    BY <1>1, <1>3 DEF AloneAtWork, Busy
  <2>2. Writing' <=> Writing
    BY <1>3 DEF Writing
  <2> QED
    BY <1>1, <2>1, <2>2 DEF FileFits, Readable, Listed
<1>6. ASSUME ~raced', NEW p \in Procs PROVE (WriteFits(op[p]) /\ SyncFits(op[p]))'
  <2>1. WriteFits(op[p])
    BY <1>1, <1>6
  <2>2. WriteFits(op[p])'
    BY <1>1, <1>3, <2>1 DEF WriteFits, Listed
  <2>3. SyncFits(op[p])'
    BY <1>3 DEF SyncFits
  <2> QED
    BY <2>2, <2>3
<1> QED
  BY <1>1, <1>2, <1>4, <1>5, <1>6 DEF FreshFits

LEMMA CrashKeepsInbox ==
  ASSUME BugInboxAssumption, InboxInv, Crash PROVE InboxInv'
<1> USE DEF InboxInv
<1>1. op' = [p \in Procs |-> Idle] /\ fresh' = FALSE /\ UNCHANGED <<source, bugs, calls, stored>>
      /\ raced' = (raced \/ Writing)
  BY DEF Crash, Writing
<1>2. op' \in [Procs -> Operations] /\ \A p \in Procs : op'[p].pc = "idle"
  BY <1>1, EmptyImage DEF Idle
<1>3. InboxTypes'
  <2>1. changes' \in 0..MaxSourceChanges
    BY DEF Crash, InboxTypes, BugInboxAssumption
  <2>2. raced' \in BOOLEAN
    BY DEF Crash
  <2> QED
    BY <1>1, <2>1, <2>2 DEF InboxTypes
<1>4. AloneAtWork' /\ FileFits'
  BY <1>1, <1>2 DEF AloneAtWork, FileFits, Busy, Writing, Readable, Listed
<1>5. ~raced' => \A p \in Procs : (WriteFits(op[p]) /\ SyncFits(op[p]))'
  BY <1>2 DEF WriteFits, SyncFits
<1> QED
  BY <1>1, <1>2, <1>3, <1>4, <1>5 DEF FreshFits

LEMMA InboxStep ==
  ASSUME BugInboxAssumption, InboxInv, [InboxNext]_inboxVars PROVE InboxInv'
<1>1. ASSUME NEW p \in Procs, Begin(p) PROVE InboxInv'
  BY <1>1, BeginKeepsInbox
<1>2. ASSUME NEW p \in Procs, Continue(p) PROVE InboxInv'
  BY <1>2, HydrateKeepsInbox, UpsertKeepsInbox, PruneKeepsInbox, DeleteKeepsInbox, FailKeepsInbox,
     TruncateKeepsInbox, FillKeepsInbox DEF Continue
<1>3. CASE UNCHANGED inboxVars
  <2>1. \A o : SyncFits(o)' <=> SyncFits(o)
    BY <1>3, SyncStays DEF inboxVars
  <2> QED
    BY <1>3, <2>1 DEF inboxVars, InboxInv, InboxTypes, AloneAtWork, FileFits, Busy, Writing, Readable,
       Listed, WriteFits, FreshFits, Published
<1> QED
  BY <1>1, <1>2, <1>3, SourceKeepsInbox, CrashKeepsInbox DEF InboxNext

(* InboxesAreKept: while no two operations overlap and no writer dies half-way, the
   inbox lists what was stored and not deleted, and a sync that nobody disturbed
   leaves active exactly the open tickets of the account: for every number of
   tickets, callers and operations. *)
THEOREM InboxesAreKept ==
  ASSUME BugInboxAssumption PROVE InboxSpec => []InboxIsKept
<1>1. InboxInit => InboxInv
  BY InboxStarts
<1>2. InboxInv /\ [InboxNext]_inboxVars => InboxInv'
  BY InboxStep
<1>3. ASSUME InboxInv PROVE InboxIsKept
  <2>1. TypeOK
    BY <1>3 DEF InboxInv, InboxTypes, Operations, TypeOK
  <2>2. HistoryKept
    BY <1>3 DEF InboxInv, FileFits, HistoryKept
  <2>3. SyncPublishes
    BY <1>3 DEF InboxInv, FreshFits, Published, SyncPublishes, Active
  <2> QED
    BY <2>1, <2>2, <2>3 DEF InboxIsKept
<1> QED
  BY <1>1, <1>2, <1>3, PTL DEF InboxSpec
=============================================================================
