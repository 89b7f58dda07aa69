----------------------------- MODULE OrderBatch -----------------------------
(***************************************************************************)
(* What a batch of work orders promises: an order starts once, after the   *)
(* orders it depends on are done; it is answered once; and the batch gives *)
(* an order up only when nothing is under way any more and one of the      *)
(* orders it depends on will never be done.                                *)
(***************************************************************************)
CONSTANTS Orders, Calls, CallOf, IdOf, DependsOn

VARIABLES status, over

Statuses == {"absent", "waiting", "taken", "done", "failed"}

Of(c) == {o \in Orders : CallOf[o] = c}

Provided(o, d) ==
  \E p \in Of(CallOf[o]) : IdOf[p] = d /\ status[p] = "done"

Init ==
  /\ status = [o \in Orders |-> "absent"]
  /\ over = [c \in Calls |-> FALSE]

Accept(c) ==
  /\ ~over[c]
  /\ \A o \in Of(c) : status[o] = "absent"
  /\ \E S \in SUBSET Of(c) :
       /\ S # {}
       /\ status' = [o \in Orders |-> IF o \in S THEN "waiting" ELSE status[o]]
  /\ UNCHANGED over

Take(o) ==
  /\ status[o] = "waiting"
  /\ ~over[CallOf[o]]
  /\ \A d \in DependsOn[o] : Provided(o, d)
  /\ status' = [status EXCEPT ![o] = "taken"]
  /\ UNCHANGED over

Answer(o) ==
  /\ status[o] = "taken"
  /\ ~over[CallOf[o]]
  /\ \E s \in {"done", "failed"} : status' = [status EXCEPT ![o] = s]
  /\ UNCHANGED over

\* The orders still waiting are reported as blocked, and the batch is over.
Close(c) ==
  /\ ~over[c]
  /\ \E o \in Of(c) : status[o] # "absent"
  /\ \A o \in Of(c) : /\ status[o] # "taken"
                      /\ status[o] = "waiting" =>
                           \E d \in DependsOn[o] : ~Provided(o, d)
  /\ status' = [o \in Orders |->
                  IF CallOf[o] = c /\ status[o] = "waiting" THEN "failed" ELSE status[o]]
  /\ over' = [over EXCEPT ![c] = TRUE]

Next ==
  \/ \E c \in Calls : Accept(c) \/ Close(c)
  \/ \E o \in Orders : Take(o) \/ Answer(o)

Spec == Init /\ [][Next]_<<status, over>>
=============================================================================
