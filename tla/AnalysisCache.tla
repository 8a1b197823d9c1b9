------------------------------ MODULE AnalysisCache ------------------------------
(***************************************************************************)
(* The analysis of the repositories is expensive and several generations   *)
(* ask for the same one: RunAutoAnalyze keeps results for a while and lets *)
(* calls with one key wait for one scan, AnalyzeServiceTopology throws the *)
(* result away first.  The key names the commit of the checkout; what a    *)
(* scan reads is the code at some moment of the scan, uncommitted changes  *)
(* included.                                                               *)
(***************************************************************************)
EXTENDS Naturals, FiniteSets

CONSTANTS
  Deploys,      \* calls of a generation, one each: they cannot be cancelled
  Refreshes,    \* calls of AnalyzeServiceTopology, by the user who wants a new result
  Heads,        \* commits that the checkout may be at
  MaxChanges,   \* changes of the code
  MaxScans,
  Absent

AnalysisCacheAssumption ==
  /\ Deploys \cap Refreshes = {} /\ IsFiniteSet(Deploys) /\ IsFiniteSet(Refreshes)
  /\ Heads # {} /\ Absent \notin Heads /\ Absent \notin Nat
  /\ MaxChanges \in Nat /\ MaxScans \in Nat

Callers == Deploys \cup Refreshes
Scans == 1..MaxScans

VARIABLES
  head, version,   \* the commit of the checkout; changes so far
  cache,           \* autoAnalyzeCache: for each key Absent, or the version that its scan read
  flights,         \* autoAnalyzeFlights: for each key Absent or a scan
  flight,          \* of each scan [state, key, read, result, waiters, abandoned, late]
  call             \* of each caller [pc, key, on, since, moved, answer], answer = the version read, or Absent

cacheVars == <<head, version, cache, flights, flight, call>>

NoFlight == [state |-> "none", key |-> Absent, read |-> Absent, result |-> Absent, waiters |-> 0, abandoned |-> FALSE, late |-> FALSE]
NoCall == [pc |-> "idle", key |-> Absent, on |-> Absent, since |-> 0, moved |-> FALSE, answer |-> Absent]

CacheInit ==
  /\ head = (CHOOSE h \in Heads : TRUE) /\ version = 0
  /\ cache = [h \in Heads |-> Absent] /\ flights = [h \in Heads |-> Absent]
  /\ flight = [f \in Scans |-> NoFlight] /\ call = [c \in Callers |-> NoCall]

-----------------------------------------------------------------------------
(* The user edits files, or checks another commit out. *)
Change(h) ==
  /\ version < MaxChanges /\ version' = version + 1 /\ head' = h
  /\ call' = [c \in Callers |-> IF h # head /\ c \in Refreshes /\ call[c].pc \notin {"idle", "done"} THEN [call[c] EXCEPT !.moved = TRUE] ELSE call[c]]
  /\ UNCHANGED <<cache, flights, flight>>

(* Time passes: an entry is five minutes old, and the next call prunes it. *)
Expire(h) ==
  /\ cache[h] # Absent
  /\ cache' = [cache EXCEPT ![h] = Absent]
  /\ UNCHANGED <<head, version, flights, flight, call>>

BeginCall(c) ==
  /\ call[c].pc = "idle"
  /\ call' = [call EXCEPT ![c] = [NoCall EXCEPT !.pc = IF c \in Refreshes THEN "invalidate" ELSE "ask",
                                                !.since = version, !.key = head]]
  /\ UNCHANGED <<head, version, cache, flights, flight>>

(* InvalidateAutoAnalyzeCache: the scan of the key is left to itself. *)
Invalidate(c) ==
  LET k == call[c].key IN
  /\ call[c].pc = "invalidate"
  /\ cache' = [cache EXCEPT ![k] = Absent]
  /\ flights' = [flights EXCEPT ![k] = Absent]
  /\ flight' = [f \in Scans |-> IF flights[k] = f THEN [flight[f] EXCEPT !.abandoned = TRUE] ELSE flight[f]]
  /\ call' = [call EXCEPT ![c].pc = "key"]
  /\ UNCHANGED <<head, version>>

(* autoAnalyzeCacheKey, once more for the run. *)
TakeKey(c) ==
  /\ call[c].pc = "key"
  /\ call' = [call EXCEPT ![c].pc = "ask", ![c].key = head]
  /\ UNCHANGED <<head, version, cache, flights, flight>>

(* RunAutoAnalyze, under the mutex: a hit, a scan to wait for, or a new one. *)
Hit(c) ==
  /\ call[c].pc = "ask" /\ cache[call[c].key] # Absent
  /\ call' = [call EXCEPT ![c].pc = "done", ![c].answer = cache[call[c].key]]
  /\ UNCHANGED <<head, version, cache, flights, flight>>

(* Mutant of Join: the call is not counted. *)
JoinUncounted(c) ==
  LET k == call[c].key IN
  /\ call[c].pc = "ask" /\ cache[k] = Absent /\ flights[k] # Absent
  /\ call' = [call EXCEPT ![c].pc = "wait", ![c].on = flights[k], ![c].key = Absent]
  /\ UNCHANGED <<head, version, cache, flights, flight>>

Join(c) ==
  LET k == call[c].key IN
  /\ call[c].pc = "ask" /\ cache[k] = Absent /\ flights[k] # Absent
  /\ flight' = [flight EXCEPT ![flights[k]].waiters = @ + 1]
  /\ call' = [call EXCEPT ![c].pc = "wait", ![c].on = flights[k], ![c].key = Absent]
  /\ UNCHANGED <<head, version, cache, flights>>

Start(c, f) ==
  LET k == call[c].key IN
  /\ call[c].pc = "ask" /\ cache[k] = Absent /\ flights[k] = Absent
  /\ flight[f].state = "none" /\ \A g \in 1..(f - 1) : flight[g].state # "none"
  /\ flights' = [flights EXCEPT ![k] = f]
  /\ flight' = [flight EXCEPT ![f] = [NoFlight EXCEPT !.state = "scanning", !.key = k, !.waiters = 1]]
  /\ call' = [call EXCEPT ![c].pc = "wait", ![c].on = f, ![c].key = Absent]
  /\ UNCHANGED <<head, version, cache>>

-----------------------------------------------------------------------------
(* The scan reads the code, and ends with a result or an error; one that was
   cancelled or took a minute may end with nothing. *)
Read(f) ==
  /\ flight[f].state = "scanning" /\ flight[f].read = Absent
  /\ flight' = [flight EXCEPT ![f].read = version]
  /\ UNCHANGED <<head, version, cache, flights, call>>

Deadline(f) ==
  /\ flight[f].state = "scanning" /\ ~flight[f].late
  /\ flight' = [flight EXCEPT ![f].late = TRUE]
  /\ UNCHANGED <<head, version, cache, flights, call>>

Ends(f, result) ==
  /\ flight[f].state = "scanning"
  /\ result = "ok" => flight[f].read # Absent
  /\ result = "none" => flight[f].abandoned \/ flight[f].late

(* Mutant of Current: a scan publishes its result though it was abandoned. *)
Always(f) == TRUE

(* It is still the scan that calls of its key wait for. *)
Current(f) == flights[flight[f].key] = f /\ ~flight[f].abandoned

(* Mutant of Publish: a scan that was abandoned says nothing when it ends. *)
PublishIfCurrent(f, result) ==
  LET k == flight[f].key IN
  /\ Ends(f, result) /\ Current(f)
  /\ flight' = [flight EXCEPT ![f].state = "done", ![f].result = result]
  /\ cache' = IF result = "ok" THEN [cache EXCEPT ![k] = flight[f].read] ELSE cache
  /\ flights' = [flights EXCEPT ![k] = Absent]
  /\ UNCHANGED <<head, version, call>>

(* The goroutine of the scan, under the mutex. *)
Publish(f, result) ==
  LET k == flight[f].key IN
  /\ Ends(f, result)
  /\ flight' = [flight EXCEPT ![f].state = "done", ![f].result = result]
  /\ IF Current(f)
     THEN /\ cache' = IF result = "ok" THEN [cache EXCEPT ![k] = flight[f].read] ELSE cache
          /\ flights' = [flights EXCEPT ![k] = Absent]
     ELSE UNCHANGED <<cache, flights>>
  /\ UNCHANGED <<head, version, call>>

(* waitAutoAnalyzeFlight *)
Receive(c) ==
  LET f == call[c].on IN
  /\ call[c].pc = "wait" /\ flight[f].state = "done"
  /\ call' = [call EXCEPT ![c].pc = "done", ![c].on = Absent,
                           ![c].answer = IF flight[f].result = "ok" THEN flight[f].read ELSE Absent]
  /\ UNCHANGED <<head, version, cache, flights, flight>>

(* Mutant of Leave: who leaves cancels the scan for the others. *)
LeaveAndCancel(c) ==
  LET f == call[c].on IN
  /\ c \in Refreshes /\ call[c].pc = "wait"
  /\ IF Current(f)
     THEN /\ flight' = [flight EXCEPT ![f].waiters = @ - 1, ![f].abandoned = TRUE]
          /\ flights' = [flights EXCEPT ![flight[f].key] = Absent]
     ELSE UNCHANGED <<flight, flights>>
  /\ call' = [call EXCEPT ![c].pc = "done", ![c].on = Absent]
  /\ UNCHANGED <<head, version, cache>>

(* The context of the caller ends: the last one that leaves cancels the scan. *)
Leave(c) ==
  LET f == call[c].on
      last == flight[f].waiters = 1
  IN
  /\ c \in Refreshes /\ call[c].pc = "wait"
  /\ IF flights[flight[f].key] = f
     THEN /\ flight' = [flight EXCEPT ![f].waiters = @ - 1, ![f].abandoned = last]
          /\ flights' = IF last THEN [flights EXCEPT ![flight[f].key] = Absent] ELSE flights
     ELSE UNCHANGED <<flight, flights>>
  /\ call' = [call EXCEPT ![c].pc = "done", ![c].on = Absent]
  /\ UNCHANGED <<head, version, cache>>

CacheNext ==
  \/ \E h \in Heads : Change(h) \/ Expire(h)
  \/ \E c \in Callers : BeginCall(c) \/ Invalidate(c) \/ TakeKey(c) \/ Hit(c) \/ Join(c) \/ Receive(c) \/ Leave(c)
  \/ \E c \in Callers, f \in Scans : Start(c, f)
  \/ \E f \in Scans : Read(f) \/ Deadline(f) \/ \E result \in {"ok", "err", "none"} : Publish(f, result)

CacheSpec == CacheInit /\ [][CacheNext]_cacheVars

(* A scan is given up when its deadline has passed, and a caller that waits on
   it goes on: the scheduler runs goroutines that can run. *)
ScanFairness ==
  /\ \A f \in Scans : WF_cacheVars(Deadline(f)) /\ WF_cacheVars(Publish(f, "none"))
  /\ \A c \in Callers : WF_cacheVars(Receive(c)) /\ WF_cacheVars(Invalidate(c)) /\ WF_cacheVars(TakeKey(c))

LiveCacheSpec == CacheSpec /\ ScanFairness
-----------------------------------------------------------------------------
(* RefreshIsFresh: what the user gets of a refresh was read after it began,
   whatever scans of older code end in between, if the checkout stayed at its
   commit. *)
RefreshIsFresh ==
  \A c \in Refreshes :
    call[c].pc = "done" /\ call[c].answer # Absent /\ ~call[c].moved => call[c].answer >= call[c].since

(* WaitersAreCounted: the scan that calls wait for counts exactly the calls that
   wait on it, so that it is cancelled when, and not before, the last has left. *)
WaitersAreCounted ==
  \A h \in Heads : flights[h] # Absent =>
    LET f == flights[h] IN
    /\ flight[f].state = "scanning" /\ ~flight[f].abandoned /\ flight[f].key = h
    /\ flight[f].waiters = Cardinality({c \in Callers : call[c].pc = "wait" /\ call[c].on = f})
    /\ flight[f].waiters > 0

(* LeavingKeepsScan: a scan on which somebody still waits is given up only by a
   refresh of its key: a generation does not lose its analysis because another
   caller went away. *)
LeavingKeepsScan ==
  [][\A f \in Scans : ~flight[f].abandoned /\ flight'[f].abandoned =>
       \/ \A c \in Callers : call'[c].pc = "wait" => call'[c].on # f
       \/ \E u \in Refreshes : call[u].pc = "invalidate" /\ call'[u].pc # "invalidate" /\ call[u].key = flight[f].key]_cacheVars

(* ScanIsShared: the three together: a refresh gets a scan of its own time, those
   who wait are counted, and who leaves takes the scan from nobody. *)
ScanIsShared == [](RefreshIsFresh /\ WaitersAreCounted) /\ LeavingKeepsScan

WaitsForScan(c) == call[c].pc = "wait"

(* EveryCallEnds: a call that waits gets an answer. *)
EveryCallEnds == \A c \in Callers : WaitsForScan(c) ~> ~WaitsForScan(c)
=============================================================================
