---------------------------- MODULE TaskLifecycle ----------------------------
(***************************************************************************)
(* What the command server promises about tasks, whatever sessions,        *)
(* timeouts, crashes and retries do:                                       *)
(*  - a task starts pending, belongs to one node and keeps it;             *)
(*  - a node's tasks are handed out oldest pending first;                  *)
(*  - a task succeeds or fails only while it is handed out, is canceled    *)
(*    only before it ends, and once ended stays as it ended;               *)
(*  - a handed-out task may be taken back, and is then pending again.      *)
(***************************************************************************)
EXTENDS Naturals, Sequences

CONSTANT Node

VARIABLES owner,   \* the node of each task
          phase    \* the phase of each task

vars == <<owner, phase>>

Phase == {"pending", "active", "succeeded", "failed", "canceled"}

Pending(n) == {i \in DOMAIN phase : owner[i] = n /\ phase[i] = "pending"}

Init == owner = <<>> /\ phase = <<>>

Submit(n) ==
    /\ owner' = Append(owner, n)
    /\ phase' = Append(phase, "pending")

HandOut(i) ==
    /\ i \in Pending(owner[i])
    /\ \A j \in Pending(owner[i]) : i <= j
    /\ phase' = [phase EXCEPT ![i] = "active"]
    /\ UNCHANGED owner

TakeBack(ids) ==
    /\ \A i \in ids : phase[i] = "active"
    /\ phase' = [i \in DOMAIN phase |-> IF i \in ids THEN "pending" ELSE phase[i]]
    /\ UNCHANGED owner

Finish(i, outcome) ==
    /\ phase[i] = "active"
    /\ phase' = [phase EXCEPT ![i] = outcome]
    /\ UNCHANGED owner

Cancel(i) ==
    /\ phase[i] \in {"pending", "active"}
    /\ phase' = [phase EXCEPT ![i] = "canceled"]
    /\ UNCHANGED owner

Next ==
    \/ \E n \in Node : Submit(n)
    \/ \E i \in DOMAIN phase : HandOut(i) \/ Cancel(i)
    \/ \E i \in DOMAIN phase, outcome \in {"succeeded", "failed"} : Finish(i, outcome)
    \/ \E ids \in SUBSET DOMAIN phase : TakeBack(ids)

Spec == Init /\ [][Next]_vars
==============================================================================
