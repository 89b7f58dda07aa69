--------------------------- MODULE MCCoordinator ---------------------------
EXTENDS Coordinator

CONSTANTS b, s, w1, w2, r1, r2, x, f, g

(* A batch of a writer, a second one that shares a file with it, a reader
   that depends on the first and a duplicate of the reader; and a call that
   delegates one order of the tier-locked profile. *)
MCOrders == {w1, w2, r1, r2, x}
MCCalls == {b, s}
MCCallOf == [o \in MCOrders |-> IF o = x THEN s ELSE b]
MCIds == {"batch:0", "batch:1", "batch:2", "batch:3", "wo_1"}
MCIdOf == [o \in MCOrders |->
             CASE o = w1 -> "batch:0" [] o = w2 -> "batch:1" [] o = r1 -> "batch:2"
               [] o = r2 -> "batch:3" [] o = x -> "wo_1"]
MCPosition == [o \in MCOrders |->
             CASE o = w1 -> 1 [] o = w2 -> 2 [] o = r1 -> 3 [] o = r2 -> 4 [] o = x -> 1]
MCKeyOf == [o \in MCOrders |->
             CASE o = w1 -> 1 [] o = w2 -> 2 [] o = r1 -> 3 [] o = r2 -> 3 [] o = x -> 4]
MCScopeOf == [o \in MCOrders |->
             CASE o = w1 -> {f} [] o = w2 -> {f, g} [] OTHER -> {}]
MCDependsOn == [o \in MCOrders |-> IF o \in {r1, r2} THEN {"batch:0"} ELSE {}]
MCRetries == [o \in MCOrders |-> IF o = w1 THEN 2 ELSE 0]
\* One call after the other, or both at once.
MCAfter == [c \in MCCalls |-> IF c = s THEN {b} ELSE {}]
AnyOrder == [c \in MCCalls |-> {}]
\* With calls that overlap, the single order is a writer of the batch's file.
OverlapScopeOf == [MCScopeOf EXCEPT ![x] = {f}]
MCFaults == [o \in MCOrders |->
             CASE o = w1 -> {"throws", "upgrade"} [] o = x -> {"scope"} [] OTHER -> {}]
=============================================================================
