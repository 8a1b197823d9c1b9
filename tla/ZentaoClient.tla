---------------------------- MODULE ZentaoClient ----------------------------
(***************************************************************************)
(* What the client of the bug platform (zentao.go) does against a platform *)
(* that changes while it is read and that loses answers.                   *)
(*                                                                         *)
(*  - FetchAssigned: the pages of the list of tickets, the fallback to the *)
(*    lists of the products, the filter by assignee.                       *)
(*  - ResolveByID: read, resolve, read again.                              *)
(*                                                                         *)
(* One client runs one of these at a time; the tickets move under it.      *)
(***************************************************************************)
EXTENDS Integers, Sequences, FiniteSets, SequencesExt

CONSTANTS
  Tickets,      \* ticket numbers on the platform
  Products,     \* how many products: 1..Products
  Limit,        \* tickets on a page of the platform
  MaxChanges    \* bound: tickets moved or resolved by others

ZentaoClientAssumption ==
  /\ Products \in Nat \ {0} /\ Limit \in Nat \ {0} /\ MaxChanges \in Nat

VARIABLES
  listing,   \* the platform's tickets in list order, each with its product
  status,    \* "open" or "resolved", of each ticket
  counts,    \* whether the total of an answer is never too low
  task,      \* what the client does: its control state
  got,       \* tickets (or products) fetched so far, in order
  result,    \* the operation's outcome
  posts,     \* resolve requests sent by the client
  changes,
  moved      \* history: the listing changed since the fetch began

vars == <<listing, status, counts, task, got, result, posts, changes, moved>>

Idle == [pc |-> "idle", scope |-> 0, page |-> 0, todo |-> <<>>, ticket |-> 0, before |-> 0]

Item == [id : Tickets, product : 1..Products, mine : BOOLEAN]

(* Nothing but its place tells one ticket from another: one order stands for
   all. *)
Init ==
  /\ \E prod \in [Tickets -> 1..Products] :
       listing = [k \in 1..Cardinality(Tickets) |->
                    LET t == SetToSeq(Tickets)[k] IN [id |-> t, product |-> prod[t], mine |-> TRUE]]
  /\ status = [t \in Tickets |-> "open"]
  /\ counts \in BOOLEAN
  /\ task = Idle /\ got = <<>> /\ result = {}
  /\ posts = 0 /\ changes = 0 /\ moved = FALSE

-----------------------------------------------------------------------------
(* Pages. *)

(* The list a request is about: all tickets, or those of one product. *)
InScope(scope) ==
  IF scope = 0 THEN listing ELSE SelectSeq(listing, LAMBDA i : i.product = scope)

PageOf(seq, n) ==
  SubSeq(seq, (n - 1) * Limit + 1, IF n * Limit < Len(seq) THEN n * Limit ELSE Len(seq))

(* What an answer may say the length of a list of n is: right or too high,
   else anything up to n; a total or limit that is missing is zero. *)
TotalOf(n) == IF counts THEN {n, n + 1} ELSE 0..n

(* Mutant: the last page is one too many. *)
shouldFetchBeforeLast(total, fetched, lastPageItems, page) ==
  /\ total > 0 /\ lastPageItems > 0
  /\ fetched < total
  /\ (page + 1) * Limit < total

(* shouldFetchNextZentaoPage: without a total there is one page. *)
shouldFetchNextZentaoPage(total, fetched, lastPageItems, page) ==
  /\ total > 0 /\ lastPageItems > 0
  /\ fetched < total
  /\ page * Limit < total

(* normalizeAndFilterZentaoBugs: the account's tickets, each once. *)
normalizeAndFilterZentaoBugs(raw) == {i.id : i \in {j \in ToSet(raw) : j.mine}}

FetchAssigned ==
  /\ task.pc = "idle" /\ result = {}
  /\ task' = [Idle EXCEPT !.pc = "page", !.page = 1]
  /\ got' = <<>> /\ moved' = FALSE
  /\ UNCHANGED <<listing, status, counts, result, posts, changes>>

(* fetchBugListPage and the loop of fetchBugList; the last page of the list,
   or of the last product, ends the fetch. *)
FetchPage ==
  /\ task.pc = "page"
  /\ \E total \in TotalOf(Len(InScope(task.scope))) :
       LET page == PageOf(InScope(task.scope), task.page)
           out == got \o page
       IN
         /\ got' = out
         /\ IF shouldFetchNextZentaoPage(total, Len(out) - task.before, Len(page), task.page)
              THEN task' = [task EXCEPT !.page = @ + 1] /\ UNCHANGED result
            ELSE IF task.todo # <<>>
              THEN /\ task' = [task EXCEPT !.page = 1, !.scope = Head(task.todo),
                                            !.todo = Tail(@), !.before = Len(out)]
                   /\ UNCHANGED result
              ELSE task' = [Idle EXCEPT !.pc = "listed"]
                   /\ result' = {[kind |-> "list", ids |-> normalizeAndFilterZentaoBugs(out)]}
  /\ UNCHANGED <<listing, status, counts, posts, changes, moved>>

(* shouldFallbackToZentaoProductBugList: the platform wants a product id, or
   hangs up on the whole list; fetchProductBugList starts from nothing. *)
FallBack ==
  /\ task.pc = "page" /\ task.scope = 0
  /\ task' = [Idle EXCEPT !.pc = "products", !.page = 1]
  /\ got' = <<>>
  /\ UNCHANGED <<listing, status, counts, result, posts, changes, moved>>

(* FetchProducts: the list of products comes in pages too, and its end starts
   the list of the first product. *)
FetchProducts ==
  /\ task.pc = "products"
  /\ \E total \in TotalOf(Products) :
       LET page == PageOf([k \in 1..Products |-> k], task.page)
           out == task.todo \o page
       IN  task' = IF shouldFetchNextZentaoPage(total, Len(out), Len(page), task.page)
                   THEN [task EXCEPT !.page = @ + 1, !.todo = out]
                   ELSE [task EXCEPT !.pc = "page", !.page = 1, !.scope = Head(out), !.todo = Tail(out)]
  /\ UNCHANGED <<listing, status, counts, got, result, posts, changes, moved>>

(* Any other error of a page: the fetch fails, nothing is kept of it. *)
PageFails ==
  /\ task.pc \in {"page", "products"}
  /\ task' = [Idle EXCEPT !.pc = "listed"]
  /\ result' = {[kind |-> "error", ids |-> {}]}
  /\ UNCHANGED <<listing, status, counts, got, posts, changes, moved>>

-----------------------------------------------------------------------------
(* ResolveByID. *)

ResolveByID(t) ==
  /\ task.pc = "idle" /\ result = {}
  /\ task' = [Idle EXCEPT !.pc = "read", !.ticket = t]
  /\ UNCHANGED <<listing, status, counts, got, result, posts, changes, moved>>

End(kind) ==
  /\ result' = {[kind |-> kind, ids |-> {task.ticket}]}
  /\ task' = [task EXCEPT !.pc = "ended"]

(* Mutant: the ticket is read, and resolved whatever it is. *)
ReadAnyway ==
  /\ task.pc = "read"
  /\ task' = [task EXCEPT !.pc = "post"]
  /\ UNCHANGED <<listing, status, counts, got, result, posts, changes, moved>>

(* FetchByID before the action: a resolved ticket is left alone. *)
ReadFirst ==
  /\ task.pc = "read"
  /\ \/ End("error")
     \/ status[task.ticket] = "resolved" /\ End("resolved")
     \/ /\ status[task.ticket] = "open"
        /\ task' = [task EXCEPT !.pc = "post"]
        /\ UNCHANGED result
  /\ UNCHANGED <<listing, status, counts, got, posts, changes, moved>>

(* The resolve request: applied or not, its answer received or not. *)
Post ==
  /\ task.pc = "post"
  /\ posts' = posts + 1
  /\ \/ status' = [status EXCEPT ![task.ticket] = "resolved"]
     \/ UNCHANGED status
  /\ task' = [task EXCEPT !.pc = "verify"]
  /\ UNCHANGED <<listing, counts, got, result, changes, moved>>

(* FetchByID after the action decides, whatever the action's answer was. *)
Verify ==
  /\ task.pc = "verify"
  /\ \/ End("error")
     \/ status[task.ticket] = "resolved" /\ End("resolved")
  /\ UNCHANGED <<listing, status, counts, got, posts, changes, moved>>

(* A failed ResolveByID is called again by the user. *)
Retry ==
  /\ task.pc = "ended" /\ \E r \in result : r.kind = "error"
  /\ posts < 2
  /\ task' = [task EXCEPT !.pc = "read"]
  /\ result' = {}
  /\ UNCHANGED <<listing, status, counts, got, posts, changes, moved>>

-----------------------------------------------------------------------------
(* Someone else works on the platform: a ticket changes hands, moves to the
   end of the list, or is resolved or reopened. *)
Elsewhere ==
  /\ changes < MaxChanges
  /\ changes' = changes + 1
  /\ \/ \E k \in 1..Len(listing) :
          /\ \/ listing' = [listing EXCEPT ![k].mine = ~@]
             \/ listing' = Append(RemoveAt(listing, k), listing[k])
             \/ listing' = RemoveAt(listing, k)
          /\ moved' = TRUE /\ UNCHANGED status
     \/ \E t \in Tickets : status' = [status EXCEPT ![t] = IF @ = "open" THEN "resolved" ELSE "open"]
                           /\ UNCHANGED <<listing, moved>>
  /\ UNCHANGED <<counts, task, got, result, posts>>

Next ==
  \/ FetchAssigned \/ FetchPage \/ FallBack \/ FetchProducts \/ PageFails
  \/ \E t \in Tickets : ResolveByID(t)
  \/ ReadFirst \/ Post \/ Verify \/ Retry
  \/ Elsewhere

Spec == Init /\ [][Next]_vars

-----------------------------------------------------------------------------
TypeOK ==
  /\ ToSet(listing) \subseteq Item
  /\ status \in [Tickets -> {"open", "resolved"}]
  /\ task.pc \in {"idle", "page", "products", "listed", "read", "post", "verify", "ended"}
  /\ task.scope \in 0..Products
  /\ posts \in 0..2 /\ changes \in 0..MaxChanges

(* A listing nobody moved while it was read is listed whole, by the pages of
   the whole list as by those of every product, as long as no answer gives a
   length that is missing or too low: the client believes it, and stops.  A
   ticket that is missing here is archived by the sync as "no longer assigned". *)
PagesCoverList ==
  (~moved /\ counts /\ task.pc = "listed") =>
    \A r \in result : r.kind = "list" =>
      r.ids = {listing[k].id : k \in {j \in 1..Len(listing) : listing[j].mine}}

(* ResolveByID posts only for a ticket it has just read as open: with nobody
   else at work, a call repeated after a lost answer never resolves a
   resolved ticket again ("That makes a repeated workflow callback safe"). *)
ResolvedOnce ==
  [][ changes = 0 /\ posts' > posts => status[task.ticket] = "open" ]_vars
=============================================================================
