---------------------------- MODULE TaskLifecycle ----------------------------
(***************************************************************************)
(* What the registry promises of a task's status, whatever happens inside: *)
(* a record is created pending, may come to run, ends in one terminal      *)
(* status, and a terminal status gives way only to a higher one            *)
(* (cancelled > timed_out > failed > completed, task-store.ts).            *)
(***************************************************************************)
EXTENDS Naturals

CONSTANT Tasks
VARIABLE status

Ranking == <<"completed", "failed", "timed_out", "cancelled">>
Ended == {Ranking[i] : i \in 1..4}

Outranks(s, r) ==
  \E i, j \in 1..4 : i > j /\ s = Ranking[i] /\ r = Ranking[j]

Init == status = [t \in Tasks |-> "none"]

Become(t, s) == status' = [status EXCEPT ![t] = s]

New(t) == status[t] = "none" /\ Become(t, "pending")

Run(t) == status[t] = "pending" /\ Become(t, "running")

End(t, s) == status[t] \in {"pending", "running"} /\ Become(t, s)

Override(t, s) == Outranks(s, status[t]) /\ Become(t, s)

Next == \E t \in Tasks : \/ New(t)
                         \/ Run(t)
                         \/ \E s \in Ended : End(t, s) \/ Override(t, s)

Spec == Init /\ [][Next]_status
=============================================================================
