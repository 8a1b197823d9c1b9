------------------------------ MODULE BugInbox ------------------------------
(***************************************************************************)
(* The inbox of tickets, ~/.tshoot/bugs/bugs.json (store.go), and everyone *)
(* who writes it: the poller and the "sync" button (sync.go), a ticket     *)
(* fetched by number, the webhook receiver, the local edits that load a    *)
(* ticket and store it again, and the deletion of an archived snapshot.    *)
(*                                                                         *)
(* The store takes no lock.  Every operation reads the whole file, changes *)
(* its copy and writes the whole file back with os.WriteFile, which first  *)
(* truncates it; an empty file reads as an empty inbox.  An operation is   *)
(* therefore three steps here - the read that computes the new image, the  *)
(* truncation and the write - and the steps of different callers           *)
(* interleave, in one process or in two (the HTTP receiver runs in its     *)
(* own goroutines).                                                        *)
(***************************************************************************)
EXTENDS Integers, FiniteSets

CONSTANTS
  Tickets,     \* tickets of the source platform (model values)
  Hooked,      \* the tickets the webhook may push
  Poller,      \* the goroutine of startBugPoller
  Bindings,    \* goroutines of bindings and of the webhook receiver
  NoBug,       \* no entry under an id
  Garbled,     \* bugs.json is not JSON: two writers overlapped
  MaxCalls,    \* bound: operations begun by Bindings
  MaxSourceChanges  \* bound: changes of the source

Procs == {Poller} \cup Bindings
Statuses == {"open", "resolved"}

(* NormalizeZentaoBug names a ticket "zentao-<n>", BugFromWebhook
   "<platform>-<n>": for a platform of any other name these are two entries,
   and only the first carries the platform's id. *)
Ids == ({"zentao"} \X Tickets) \cup ({"hook"} \X Hooked)
SyncId(t) == <<"zentao", t>>
HookId(t) == <<"hook", t>>

Entry == [status : Statuses, inbox : {"active", "history"}, bot : BOOLEAN]
Image == [Ids -> Entry \cup {NoBug}]
Empty == [i \in Ids |-> NoBug]

BugInboxAssumption ==
  /\ MaxCalls \in Nat /\ MaxSourceChanges \in Nat
  /\ Hooked \subseteq Tickets /\ Poller \notin Bindings
  /\ NoBug \notin Entry /\ Garbled \notin Image

VARIABLES
  source,    \* the platform: who has the ticket and its status
  bugs,      \* bugs.json: an Image, or Garbled
  op,        \* what each goroutine is doing
  calls,     \* operations begun by Bindings
  changes,   \* changes of the source so far
  stored,    \* history: ids written and not deleted since
  raced,     \* history: two operations overlapped, or a writer died
  fresh      \* history: the last operation was an undisturbed sync

inboxVars == <<source, bugs, op, calls, changes, stored, raced, fresh>>

Idle == [pc |-> "idle", queue |-> Empty, keep |-> {}, img |-> Empty,
         prunes |-> FALSE, target |-> {}, current |-> FALSE]

-----------------------------------------------------------------------------
(* The store's own functions. *)

(* normalizeStoredBugs: what List and Get hand out. *)
Normal(b) ==
  IF b = NoBug THEN NoBug
  ELSE IF b.status = "resolved" THEN [b EXCEPT !.inbox = "history"] ELSE b

(* The entry Upsert stores: a finished ticket is history; any other is active
   unless the caller loaded it from history. *)
Filed(b) == [b EXCEPT !.inbox = IF b.status = "resolved" THEN "history" ELSE b.inbox]

Upserted(img, i, b) == [img EXCEPT ![i] = Filed(b)]

(* Mutant: the entries of the webhook, which carry no platform id, are left. *)
StaleSynced(img, keep) ==
  {i \in Ids : img[i] # NoBug /\ i \notin keep /\ img[i].inbox = "active" /\ i[1] = "zentao"}

(* PruneStaleIDs("zentao", platform, keep): an entry with no platform id, as
   the webhook stores it, belongs to every platform. *)
Stale(img, keep) ==
  {i \in Ids : img[i] # NoBug /\ i \notin keep /\ img[i].inbox = "active"}
(* Mutant: what is no longer assigned is dropped, not archived. *)
PrunedAway(img, keep) == [i \in Ids |-> IF i \in Stale(img, keep) THEN NoBug ELSE img[i]]

Pruned(img, keep) ==
  [i \in Ids |-> IF i \in Stale(img, keep) THEN [img[i] EXCEPT !.inbox = "history"]
                                           ELSE img[i]]

Readable == bugs # Garbled

(* The ids an image lists. *)
Listed(img) == {i \in Ids : img[i] # NoBug}

Busy(p) == op[p].pc # "idle"
Others(p) == \E q \in Procs \ {p} : Busy(q)

InboxInit ==
  /\ source = [t \in Tickets |-> [mine |-> TRUE, status |-> "open"]]
  /\ bugs = Empty
  /\ op = [p \in Procs |-> Idle]
  /\ calls = 0 /\ changes = 0
  /\ stored = {} /\ raced = FALSE /\ fresh = FALSE

-----------------------------------------------------------------------------
(* Operations begin. *)

Call(p) ==
  /\ ~Busy(p)
  /\ p \in Bindings => calls < MaxCalls
  /\ calls' = IF p \in Bindings THEN calls + 1 ELSE calls
  /\ raced' = (raced \/ Others(p))
  /\ fresh' = FALSE
  /\ UNCHANGED <<source, bugs, changes, stored>>

Entered(t) == [status |-> source[t].status, inbox |-> "active", bot |-> FALSE]

(* SyncZentaoAssigned up to the fetched list: the tickets assigned to the
   account.  A failing fetch changes nothing here. *)
FetchAssigned(p) ==
  LET mine == {t \in Tickets : source[t].mine} IN
  /\ Call(p)
  /\ op' = [op EXCEPT ![p] =
       [Idle EXCEPT !.pc = "hydrate", !.prunes = TRUE, !.current = TRUE,
                    !.keep = {SyncId(t) : t \in mine},
                    !.queue = [i \in Ids |-> IF i \in {SyncId(t) : t \in mine}
                                             THEN Entered(i[2]) ELSE NoBug]]]

(* FetchByID then SyncZentaoBug: one ticket, whoever has it. *)
FetchBugByID(p, t) ==
  /\ Call(p)
  /\ op' = [op EXCEPT ![p] = [Idle EXCEPT !.pc = "upsert",
                                          !.queue = [Empty EXCEPT ![SyncId(t)] = Entered(t)]]]

(* BugFromWebhook accepts a push about a ticket of this account (or of
   nobody); a delivery may be late or repeated, so its status is any the
   ticket has had. *)
ReceiveHook(p, t) ==
  /\ Call(p)
  /\ \E s \in Statuses :
       op' = [op EXCEPT ![p] = [Idle EXCEPT !.pc = "upsert",
                !.queue = [Empty EXCEPT ![HookId(t)] =
                             [status |-> s, inbox |-> "active", bot |-> FALSE]]]]

(* SaveBugSelectedBot and GenerateBugContext: Get, set the bot, Upsert. *)
SelectBot(p, i) ==
  /\ Readable /\ bugs[i] # NoBug
  /\ Call(p)
  /\ op' = [op EXCEPT ![p] = [Idle EXCEPT !.pc = "upsert",
              !.queue = [Empty EXCEPT ![i] = [Normal(bugs[i]) EXCEPT !.bot = TRUE]]]]

(* PreviewBugAttachment: Get, fetch the attachment, Upsert the entry that
   was read before the fetch. *)
PreviewAttachment(p, i) ==
  /\ Readable /\ bugs[i] # NoBug
  /\ Call(p)
  /\ op' = [op EXCEPT ![p] = [Idle EXCEPT !.pc = "upsert",
              !.queue = [Empty EXCEPT ![i] = Normal(bugs[i])]]]

(* DeleteBugHistory: Get, refuse an active ticket, delete the finished Cases
   of the ticket, then DeleteHistory. *)
DeleteBugHistory(p, i) ==
  /\ Readable /\ bugs[i] # NoBug /\ Normal(bugs[i]).inbox = "history"
  /\ Call(p)
  /\ op' = [op EXCEPT ![p] = [Idle EXCEPT !.pc = "delete", !.target = {i}]]

-----------------------------------------------------------------------------
(* Operations go on. *)

(* HydrateBugDetails: the detail of each listed ticket, read later than the
   list and not filtered by assignee; a failing detail keeps the list's. *)
Hydrate(p) ==
  /\ op[p].pc = "hydrate"
  /\ \E H \in SUBSET Listed(op[p].queue) :
       op' = [op EXCEPT ![p].pc = IF op[p].keep = {} THEN "prune" ELSE "upsert",
                        ![p].queue = [i \in Ids |-> IF i \in H THEN Entered(i[2])
                                                    ELSE op[p].queue[i]]]
  /\ UNCHANGED <<source, bugs, calls, changes, stored, raced, fresh>>

(* Upsert up to its writeAll. *)
UpsertRead(p) ==
  /\ op[p].pc = "upsert" /\ Readable
  /\ \E i \in Listed(op[p].queue) :
       op' = [op EXCEPT ![p].pc = "write",
                        ![p].img = Upserted(bugs, i, op[p].queue[i]),
                        ![p].queue[i] = NoBug,
                        ![p].target = {i}]
  /\ UNCHANGED <<source, bugs, calls, changes, stored, raced, fresh>>

(* Mutant: a list with nothing stale is read again and again. *)
PruneReadWaits(p) ==
  /\ op[p].pc = "prune" /\ Readable /\ Stale(bugs, op[p].keep) # {}
  /\ op' = [op EXCEPT ![p].pc = "write", ![p].target = {}, ![p].img = Pruned(bugs, op[p].keep)]
  /\ UNCHANGED <<source, bugs, calls, changes, stored, raced, fresh>>

(* PruneStaleIDs up to its writeAll; nothing stale, nothing written. *)
PruneRead(p) ==
  /\ op[p].pc = "prune" /\ Readable
  /\ IF Stale(bugs, op[p].keep) = {}
       THEN /\ op' = [op EXCEPT ![p] = Idle]
            /\ fresh' = (op[p].current /\ ~raced)
       ELSE /\ op' = [op EXCEPT ![p].pc = "write", ![p].target = {},
                                ![p].img = Pruned(bugs, op[p].keep)]
            /\ UNCHANGED fresh
  /\ UNCHANGED <<source, bugs, calls, changes, stored, raced>>

(* DeleteHistory up to its writeAll: it reads the list again, refuses a
   ticket that is active by now and leaves a missing one alone. *)
DeleteRead(p) ==
  /\ op[p].pc = "delete" /\ Readable
  /\ \E i \in op[p].target :
       IF bugs[i] # NoBug /\ Normal(bugs[i]).inbox = "history"
         THEN op' = [op EXCEPT ![p].pc = "write",
                               ![p].img = [[j \in Ids |-> Normal(bugs[j])] EXCEPT ![i] = NoBug]]
         ELSE op' = [op EXCEPT ![p] = Idle]
  /\ UNCHANGED <<source, bugs, calls, changes, stored, raced, fresh>>

(* readAll of a file that is not JSON ends the operation with an error. *)
ReadFails(p) ==
  /\ op[p].pc \in {"upsert", "prune", "delete"} /\ ~Readable
  /\ op' = [op EXCEPT ![p] = Idle]
  /\ UNCHANGED <<source, bugs, calls, changes, stored, raced, fresh>>

(* writeAll, its first half: os.WriteFile opens with O_TRUNC. *)
Truncate(p) ==
  /\ op[p].pc = "write"
  /\ bugs' = Empty
  /\ op' = [op EXCEPT ![p].pc = "fill"]
  /\ UNCHANGED <<source, calls, changes, stored, raced, fresh>>

(* writeAll, its second half.  Bytes another writer put there since the
   truncation are overwritten, wholly or only in part.  Then the operation
   goes on with the next ticket, with the pruning, or ends. *)
Fill(p) ==
  /\ op[p].pc = "fill"
  /\ \/ bugs' = op[p].img
     \/ bugs \notin {Empty, op[p].img} /\ bugs' = Garbled
  /\ LET prune  == op[p].target = {}
         done   == prune \/ ~op[p].prunes
     IN  /\ op' = [op EXCEPT ![p] =
                     IF Listed(op[p].queue) # {} THEN [op[p] EXCEPT !.pc = "upsert"]
                     ELSE IF done THEN Idle ELSE [op[p] EXCEPT !.pc = "prune"]]
         /\ stored' = IF prune THEN stored
                      ELSE LET i == CHOOSE i \in op[p].target : TRUE
                           IN  IF op[p].img[i] = NoBug THEN stored \ {i} ELSE stored \cup {i}
         /\ fresh' = (prune /\ op[p].current /\ ~raced)
  /\ UNCHANGED <<source, calls, changes, raced>>

-----------------------------------------------------------------------------
(* The outside. *)

(* Someone reassigns, resolves or reopens a ticket on the platform. *)
SourceChanges ==
  /\ changes < MaxSourceChanges
  /\ changes' = changes + 1
  /\ \E t \in Tickets, m \in BOOLEAN, s \in Statuses :
       source' = [source EXCEPT ![t] = [mine |-> m, status |-> s]]
  /\ fresh' = FALSE
  /\ op' = [p \in Procs |-> [op[p] EXCEPT !.current = FALSE]]
  /\ UNCHANGED <<bugs, calls, stored, raced>>

(* The application is killed: a truncated file stays empty. *)
Crash ==
  /\ changes < MaxSourceChanges
  /\ changes' = changes + 1
  /\ \E p \in Procs : Busy(p)
  /\ op' = [p \in Procs |-> Idle]
  /\ raced' = (raced \/ \E p \in Procs : op[p].pc = "fill")
  /\ fresh' = FALSE
  /\ UNCHANGED <<source, bugs, calls, stored>>

Begin(p) ==
  \/ FetchAssigned(p)
  \/ /\ p \in Bindings
     /\ \/ \E t \in Tickets : FetchBugByID(p, t)
        \/ \E t \in Hooked : ReceiveHook(p, t)
        \/ \E i \in Ids : SelectBot(p, i) \/ PreviewAttachment(p, i) \/ DeleteBugHistory(p, i)

Continue(p) == \/ Hydrate(p) \/ UpsertRead(p) \/ PruneRead(p) \/ DeleteRead(p)
               \/ ReadFails(p) \/ Truncate(p) \/ Fill(p)

InboxNext == \/ \E p \in Procs : Begin(p) \/ Continue(p)
        \/ SourceChanges \/ Crash

(* startBugPoller's ticker syncs again and again, and the platform answers
   in the end; a goroutine that runs goes on. *)
PollFairness ==
  /\ SF_inboxVars(FetchAssigned(Poller))
  /\ \A p \in Procs : WF_inboxVars(Continue(p))

InboxSpec == InboxInit /\ [][InboxNext]_inboxVars /\ PollFairness

-----------------------------------------------------------------------------
TypeOK ==
  /\ source \in [Tickets -> [mine : BOOLEAN, status : Statuses]]
  /\ bugs \in Image \cup {Garbled}
  /\ op \in [Procs -> [pc : {"idle", "hydrate", "upsert", "prune", "delete", "write", "fill"},
                       queue : Image, keep : SUBSET Ids, img : Image,
                       prunes : BOOLEAN, target : SUBSET Ids,
                       current : BOOLEAN]]  \* history: the source is as fetched
  /\ calls \in 0..MaxCalls /\ changes \in 0..MaxSourceChanges
  /\ stored \subseteq Ids /\ raced \in BOOLEAN /\ fresh \in BOOLEAN

Writing == \E p \in Procs : op[p].pc = "fill"
Active(i) == bugs[i] # NoBug /\ Normal(bugs[i]).inbox = "active"

(* "A snapshot in the history is never deleted" (PruneStale), as far as the
   store can promise it: while no two operations overlap and no writer dies
   between its truncation and its write, the inbox lists exactly the tickets
   that were stored and not deleted. *)
HistoryKept == (~raced /\ ~Writing) => Readable /\ Listed(bugs) = stored

(* An undisturbed SyncZentaoAssigned leaves in the inbox exactly the open
   tickets of the account, whatever the entries were before: a resolved, a
   reassigned and a webhook's entry are history, a reopened or returned one
   is active again. *)
SyncPublishes ==
  fresh /\ ~Writing =>
    {t \in Tickets : \E i \in Ids : i[2] = t /\ Active(i)} =
    {t \in Tickets : source[t].mine /\ source[t].status = "open"}

(* InboxIsKept: the two together, with the types. *)
InboxIsKept == TypeOK /\ HistoryKept /\ SyncPublishes

(* The same at any time, for the entries of a sync. *)
Agrees == \A t \in Tickets :
  Active(SyncId(t)) <=> source[t].mine /\ source[t].status = "open"

Repaired == ~Readable \/ Writing \/ Agrees

(* However the callers raced, and whatever a stale edit or an overwritten
   image did to the inbox: the poller repairs it.  Once the calls and the
   changes have ended the inbox comes to agree with the platform between
   two polls and stays so, unless overlapping writers left a file that is
   not JSON. *)
PollingRepairs == <>[]Repaired
=============================================================================
