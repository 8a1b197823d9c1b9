--------------------------- MODULE CaseLifecycle ---------------------------
(***************************************************************************)
(* What the Case store promises to every reader of a Case, whatever the    *)
(* agents, the recovery passes and the crashes of the process do: a status *)
(* that only walks along the transition table, a version that grows by one *)
(* with every committed mutation, and terminal Cases that never change.    *)
(***************************************************************************)
EXTENDS Naturals, CaseStatus

CONSTANT Cases

VARIABLES status,    \* status[c]:  the committed status, or Absent
          version    \* version[c]: the number of mutations committed on c

vars == <<status, version>>

Init == /\ status = [c \in Cases |-> Absent]
        /\ version = [c \in Cases |-> 0]

Create(c) ==
    /\ status[c] = Absent
    /\ status' = [status EXCEPT ![c] = "pending_investigation"]
    /\ version' = [version EXCEPT ![c] = 1]

(* A mutation that changes the status. *)
Advance(c) ==
    /\ \E to \in Status :
          /\ Walk(status[c], to)
          /\ status' = [status EXCEPT ![c] = to]
    /\ version' = [version EXCEPT ![c] = @ + 1]

(* A mutation that only appends an audit event. *)
Audit(c) ==
    /\ status[c] # Absent
    /\ ~IsTerminalCaseStatus(status[c])
    /\ version' = [version EXCEPT ![c] = @ + 1]
    /\ UNCHANGED status

(* Reset archives a Case and creates its replacement in one transaction. *)
Replace(old, new) ==
    /\ CanTransition(status[old], "reset_archived")
    /\ status[new] = Absent
    /\ status' = [status EXCEPT ![old] = "reset_archived",
                                ![new] = "pending_investigation"]
    /\ version' = [version EXCEPT ![old] = @ + 1, ![new] = 1]

Next ==
    \/ \E c \in Cases : Create(c) \/ Advance(c) \/ Audit(c)
    \/ \E old, new \in Cases : Replace(old, new)

Spec == Init /\ [][Next]_vars
=============================================================================
