------------------------- MODULE CoordinatorProofs -------------------------
(***************************************************************************)
(* Theorems about Coordinator, for any orders, calls, files and caps.      *)
(***************************************************************************)
EXTENDS Coordinator, FiniteSetTheorems, TLAPS

-----------------------------------------------------------------------------
(* The queue.                                                              *)

\* A nonempty set with a number for each element has an element with the least.
LEMMA LeastExists ==
  ASSUME NEW S, NEW f, S # {}, \A x \in S : f[x] \in Nat
  PROVE  \E x \in S : \A y \in S : f[x] <= f[y]
<1> DEFINE T == {1..f[x] : x \in S}
<1>1. ASSUME NEW n \in Nat PROVE 1..n \in FiniteSubsetsOf(Nat)
  <2>1. IsFiniteSet(1..n) BY FS_Interval
  <2> QED BY <2>1 DEF FiniteSubsetsOf
<1>2. T \subseteq FiniteSubsetsOf(Nat) /\ T # {} BY <1>1
<1>3. PICK m \in T : \A y \in T : ~ (<<y, m>> \in StrictSubsetOrdering(Nat))
  BY <1>2, FS_StrictSubsetOrderingWellFounded, WFMin
<1>4. PICK x \in S : m = 1..f[x] OBVIOUS
<1>5. ASSUME NEW y \in S, ~(f[x] <= f[y]) PROVE FALSE
  <2>1. f[x] \in Nat /\ f[y] \in Nat /\ f[y] < f[x] BY <1>5
  <2>2. 1..f[y] \subseteq 1..f[x] /\ f[x] \in 1..f[x] /\ f[x] \notin 1..f[y] BY <2>1
  <2>3. 1..f[y] # 1..f[x] BY <2>2
  <2>4. <<1..f[y], m>> \in StrictSubsetOrdering(Nat)
    BY <2>1, <2>2, <2>3, <1>4 DEF StrictSubsetOrdering
  <2> QED BY <1>3, <2>4
<1> QED BY <1>5

\* dequeue returns an entry that can run, whenever there is one.
LEMMA DequeueRuns ==
  ASSUME NEW q \in Queues, Runnable(q) # {}
  PROVE  /\ FirstRunnable(q) \in q.entries
         /\ FirstRunnable(q) \in Orders
         /\ CanRun(q, FirstRunnable(q))
<1>1. Runnable(q) \subseteq Orders BY DEF Runnable, Queues
<1>2. \E o \in Runnable(q) : \A p \in Runnable(q) : Position[o] <= Position[p]
  BY <1>1, LeastExists, QueueAssumption
<1>3. FirstRunnable(q) \in Runnable(q) BY <1>2 DEF FirstRunnable
<1> QED BY <1>1, <1>3 DEF Runnable

\* An entry that cannot run although nothing is in flight waits for an order
\* that has not been completed; canRun.
LEMMA IdleBlocks ==
  ASSUME NEW q \in Queues, q.inFlight = {}, Runnable(q) = {}, NEW o \in q.entries
  PROVE  \E d \in DependsOn[o] : d \notin q.completed
<1>1. o \in Orders BY DEF Queues
<1>2. Cardinality({}) = 0 BY FS_EmptySet
<1>3. ~HasFileConflict(q, o) BY DEF HasFileConflict
<1>4. Pool(q, o) = 0 BY <1>2 DEF Pool
<1>5. MaxWorkers > 0 /\ MaxExplore > 0 /\ MaxWrite > 0 BY QueueAssumption
<1> QED BY <1>1, <1>2, <1>3, <1>4, <1>5 DEF Runnable, CanRun

\* The methods of the queue keep its type.
LEMMA QueueTypes ==
  ASSUME NEW q \in Queues, NEW o \in Orders
  PROVE  /\ Dequeued(q, o) \in Queues /\ MarkInFlight(q, o) \in Queues
         /\ MarkCompleted(q, o) \in Queues /\ MarkFailed(q, o) \in Queues
         /\ MarkInFlight(Dequeued(q, o), o) \in Queues
BY QueueAssumption DEF Queues, Dequeued, MarkInFlight, MarkCompleted, MarkFailed

-----------------------------------------------------------------------------
(* Type correctness.                                                       *)

\* Whose synchronous part is running: a call's, with chains still to start, or
\* that of an order whose retries are over.
ThreadInv ==
  /\ thread \in Calls => starters \in 1..MaxWorkers
  /\ thread \notin Calls => starters = 0
  /\ thread \in Orders => order[thread].phase = "deciding"

\* What Moves does, field by field.
LEMMA MovesEffect ==
  ASSUME TypeOK, NEW o \in Orders, NEW p \in Phases, NEW v \in {"passed", "bad", Nothing},
         NEW H \in SUBSET Files, Moves(o, p, v, H)
  PROVE  /\ order' \in [Orders -> OrderStates]
         /\ \A x \in Orders \ {o} : order'[x] = order[x]
         /\ order'[o].phase = p /\ order'[o].verdict = v /\ order'[o].held = H
         /\ order'[o].own = order[o].own /\ order'[o].parent = order[o].parent
         /\ order'[o].attempt = order[o].attempt
<1>1. order \in [Orders -> OrderStates] BY DEF TypeOK
<1>2. order' = [order EXCEPT ![o] = [order[o] EXCEPT !.phase = p, !.verdict = v, !.held = H]]
  BY <1>1 DEF Moves, OrderStates
<1>3. [order[o] EXCEPT !.phase = p, !.verdict = v, !.held = H] \in OrderStates
  BY <1>1 DEF OrderStates
<1>4. order' \in [Orders -> OrderStates] BY <1>1, <1>2, <1>3
<1> QED BY <1>1, <1>2, <1>4 DEF OrderStates

\* The claims after the session has taken, or given back, some.
LEMMA ClaimTypes ==
  ASSUME TypeOK, NEW o \in Orders
  PROVE  /\ AcquireClaims(o) => claim' \in [Files -> {"us", "other", Nothing}]
         /\ ReleaseClaims(o) => claim' \in [Files -> {"us", "other", Nothing}]
         /\ Wanted(o) \subseteq Files /\ Granted(o) \subseteq Wanted(o)
BY QueueAssumption DEF TypeOK, AcquireClaims, ReleaseClaims, Granted, Wanted

\* The circuit of the tier-locked profile counts up to its threshold.
LEMMA RecordedType ==
  ASSUME NEW b \in Circuits, NEW o, NEW v
  PROVE  Recorded(o, v, b) \in Circuits
<1>1. b.state \in {"closed", "open", "cooled", "halfOpen"} /\ b.failures \in 0..Threshold
  BY DEF Circuits
<1>2. Threshold \in Nat \ {0} BY CoordinatorAssumption
<1>3. RecordSuccess(b) \in Circuits BY <1>1, <1>2 DEF RecordSuccess, Circuits
<1>4. RecordFailure(b) \in Circuits BY <1>1, <1>2 DEF RecordFailure, Circuits
<1> QED BY <1>3, <1>4 DEF Recorded

\* Putting an order under watch and taking it out keep the types.
LEMMA WatchTypes ==
  ASSUME TypeOK, NEW o \in Orders
  PROVE  /\ Register(o) => controllers' \in [Ids -> Orders \cup {Nothing}] /\ live' \subseteq Ids
         /\ Unregister(o) => /\ controllers' \in [Ids -> Orders \cup {Nothing}]
                             /\ live' \subseteq Ids /\ sweep' \in BOOLEAN
         /\ UnregisterAttempt(o) => /\ controllers' \in [Ids -> Orders \cup {Nothing}]
                                    /\ live' \subseteq Ids /\ sweep' \in BOOLEAN
         /\ UNCHANGED watch => /\ controllers' \in [Ids -> Orders \cup {Nothing}]
                               /\ live' \subseteq Ids /\ sweep' \in BOOLEAN
         /\ IdOf[o] \in Ids /\ CallOf[o] \in Calls
<1>1. IdOf[o] \in Ids /\ CallOf[o] \in Calls
  BY QueueAssumption, CoordinatorAssumption
<1>2. Unregister(o) \/ UnregisterAttempt(o) => sweep' \in BOOLEAN
  BY DEF TypeOK, Unregister, UnregisterAttempt
<1>3. /\ Register(o) \/ Unregister(o) \/ UnregisterAttempt(o) =>
           controllers' \in [Ids -> Orders \cup {Nothing}]
      /\ Register(o) \/ Unregister(o) \/ UnregisterAttempt(o) => live' \subseteq Ids
  BY <1>1 DEF TypeOK, Register, Unregister, UnregisterAttempt
<1>4. UNCHANGED watch => /\ controllers' \in [Ids -> Orders \cup {Nothing}]
                         /\ live' \subseteq Ids /\ sweep' \in BOOLEAN
  BY DEF TypeOK, watch
<1> QED BY <1>1, <1>2, <1>3, <1>4

\* What Begins does, field by field.
LEMMA BeginsEffect ==
  ASSUME TypeOK, NEW o \in Orders, NEW p \in Phases, NEW v \in {"passed", "bad", Nothing},
         Begins(o, p, v)
  PROVE  /\ order' \in [Orders -> OrderStates]
         /\ \A x \in Orders \ {o} : order'[x] = order[x]
         /\ order'[o].phase = p /\ order'[o].parent = signal /\ order'[o].held = Granted(o)
<1> DEFINE ord == [order EXCEPT ![o].phase = p, ![o].verdict = v, ![o].held = Granted(o)]
<1>1. Granted(o) \in SUBSET Files BY ClaimTypes
<1>2. order \in [Orders -> OrderStates] /\ signal \in Calls \cup {Nothing} BY DEF TypeOK
<1>3. /\ ord \in [Orders -> OrderStates]
      /\ \A x \in Orders \ {o} : ord[x] = order[x]
      /\ ord[o].phase = p /\ ord[o].held = Granted(o)
  <2>1. [order[o] EXCEPT !.phase = p, !.verdict = v, !.held = Granted(o)] \in OrderStates
    BY <1>1, <1>2 DEF OrderStates
  <2>2. ord = [order EXCEPT ![o] =
                 [order[o] EXCEPT !.phase = p, !.verdict = v, !.held = Granted(o)]]
    BY <1>2
  <2> HIDE DEF ord
  <2>3. ord \in [Orders -> OrderStates] BY <1>2, <2>1, <2>2
  <2> QED BY <1>2, <2>2, <2>3 DEF OrderStates
<1>4. order' = [ord EXCEPT ![o].parent = signal] BY DEF Begins
<1> HIDE DEF ord
<1> QED BY <1>2, <1>3, <1>4 DEF OrderStates

\* delegateOrder up to the start of its worker: it turns the order away, or
\* launches a worker, or launches it only to find its files claimed.
LEMMA DispatchEffect ==
  ASSUME TypeOK, NEW o \in Orders, Dispatch(o)
  PROVE  /\ order' \in [Orders -> OrderStates]
         /\ \A x \in Orders \ {o} : order'[x] = order[x]
         /\ breaker' \in Circuits
         /\ \/ /\ order'[o].phase \in {"packing", "throwing"}
               /\ order'[o].held = {} /\ order'[o].parent = order[o].parent
               /\ UNCHANGED <<watch, claim>>
            \/ /\ order'[o].phase \in {"working", "leaving"}
               /\ signal \notin aborted
               /\ order'[o].held = Granted(o) /\ order'[o].parent = signal
               /\ order'[o].phase = "working" => Granted(o) = Wanted(o)
               /\ Register(o) /\ sweep' = TRUE /\ AcquireClaims(o)
<1>1. breaker' \in Circuits
  BY DEF Dispatch, TypeOK, Circuits
<1>2. ASSUME NEW p \in {"packing", "throwing"}, TurnAway(o, p)
      PROVE  /\ order' \in [Orders -> OrderStates]
             /\ \A x \in Orders \ {o} : order'[x] = order[x]
             /\ order'[o].phase = p
             /\ order'[o].held = {} /\ order'[o].parent = order[o].parent
             /\ UNCHANGED <<watch, claim>>
  <2>1. p \in Phases /\ "bad" \in {"passed", "bad", Nothing} /\ {} \in SUBSET Files
    BY DEF Phases
  <2> QED BY <1>2, <2>1, MovesEffect DEF TurnAway
<1>3. ASSUME Launch(o)
      PROVE  /\ order' \in [Orders -> OrderStates]
             /\ \A x \in Orders \ {o} : order'[x] = order[x]
             /\ order'[o].phase \in {"working", "leaving"}
             /\ order'[o].held = Granted(o) /\ order'[o].parent = signal
             /\ order'[o].phase = "working" => Granted(o) = Wanted(o)
             /\ Register(o) /\ sweep' = TRUE /\ AcquireClaims(o)
  <2>1. Register(o) /\ sweep' = TRUE /\ AcquireClaims(o) BY <1>3 DEF Launch
  <2>2. /\ {"leaving", "working"} \subseteq Phases
        /\ \/ Begins(o, "leaving", "bad")
           \/ Begins(o, "working", Nothing) /\ Granted(o) = Wanted(o)
    BY <1>3 DEF Launch, Phases, ClaimsConflict
  <2> QED BY <2>1, <2>2, BeginsEffect
<1> QED BY <1>1, <1>2, <1>3 DEF Dispatch

\* Every step keeps every variable in its type.
TypeInv == TypeOK /\ ThreadInv

\* The types hold at the start.
LEMMA TypeInit == Init => TypeInv
<1> SUFFICES ASSUME Init PROVE TypeInv OBVIOUS
<1>1. NewOrder \in OrderStates BY DEF NewOrder, OrderStates, Phases
<1>2. EmptyQueue \in Queues BY DEF EmptyQueue, Queues
<1>3. [state |-> "closed", failures |-> 0] \in Circuits
  BY CoordinatorAssumption DEF Circuits
<1>4. Nothing \notin Calls \cup Orders BY CoordinatorAssumption
<1>5. starters \in 0..MaxWorkers /\ upgrades \in 0..MaxUpgrades
  BY QueueAssumption, CoordinatorAssumption DEF Init
<1>6. TypeOK BY <1>1, <1>2, <1>3, <1>5 DEF Init, TypeOK
<1> QED BY <1>4, <1>6 DEF Init, TypeInv, ThreadInv

\* Every step keeps the types.
LEMMA TypeStep == TypeInv /\ [Next]_vars => TypeInv'
<1> SUFFICES ASSUME TypeInv, [Next]_vars PROVE TypeInv' OBVIOUS
<1> USE DEF TypeInv
<1>0. /\ Nothing \notin Calls \cup Orders /\ Calls \cap Orders = {}
      /\ MaxWorkers \in Nat \ {0} /\ MaxUpgrades \in Nat
      /\ \A o \in Orders : CallOf[o] \in Calls /\ IdOf[o] \in Ids
  BY QueueAssumption, CoordinatorAssumption
<1>1. ASSUME NEW c \in Calls, Open(c) PROVE TypeInv'
  <2>1. Accepted(c) \subseteq Orders BY DEF Accepted, Enqueued, Of
  <2>2. order' \in [Orders -> OrderStates]
    BY <1>1 DEF Open, TypeOK, OrderStates, Phases
  <2>3. queue' \in [Calls -> Queues]
    <3> DEFINE A == Accepted(c)
    <3>1. queue' = [queue EXCEPT ![c].entries = A] BY <1>1 DEF Open
    <3>2. queue \in [Calls -> Queues] BY DEF TypeOK
    <3> HIDE DEF A
    <3>3. A \subseteq Orders BY <2>1 DEF A
    <3>4. [queue[c] EXCEPT !.entries = A] \in Queues BY <3>2, <3>3 DEF Queues
    <3>5. queue' = [queue EXCEPT ![c] = [queue[c] EXCEPT !.entries = A]] BY <3>1, <3>2
    <3> QED BY <3>2, <3>4, <3>5
  <2>4. /\ call' \in [Calls -> {"idle", "open", "closing", "over"}] /\ call'[c] = "open"
        /\ saved' \in [Calls -> Calls \cup {Nothing}]
        /\ signal' \in Calls \cup {Nothing}
        /\ thread' = c /\ starters' \in 1..MaxWorkers
    BY <1>0, <1>1 DEF Open, TypeOK
  <2>5. ThreadInv' BY <1>0, <2>4 DEF ThreadInv
  <2>6. TypeOK'
    BY <1>0, <1>1, <2>2, <2>3, <2>4 DEF Open, TypeOK, watch
  <2> QED BY <2>5, <2>6
<1>2. ASSUME NEW c \in Calls, ProcessNext(c) PROVE TypeInv'
  <2>0. thread = c /\ starters \in 1..MaxWorkers
    BY <1>2 DEF ProcessNext, ThreadInv
  <2>1. CASE Runnable(queue[c]) = {}
    <3>1. UNCHANGED <<calls, queue, order, watch, claim, breaker, aborted, upgrades, down, strays>>
          /\ starters' = 0 /\ thread' = Nothing
      BY <1>2, <2>1 DEF ProcessNext
    <3> QED BY <1>0, <3>1 DEF TypeOK, ThreadInv, watch, calls
  <2>2. CASE Runnable(queue[c]) # {}
    <3> DEFINE o == FirstRunnable(queue[c])
    <3>1. /\ queue' = [queue EXCEPT ![c] = MarkInFlight(Dequeued(@, o), o)]
          /\ Dispatch(o)
          /\ starters' = starters - 1
          /\ thread' = IF starters = 1 THEN Nothing ELSE c
          /\ UNCHANGED <<calls, aborted, upgrades, down, strays>>
      BY <1>2, <2>2 DEF ProcessNext
    <3>2. o \in Orders BY <2>2, DequeueRuns DEF TypeOK
    <3> HIDE DEF o
    <3>3. queue' \in [Calls -> Queues] BY <3>1, <3>2, QueueTypes DEF TypeOK
    <3>4. order' \in [Orders -> OrderStates] /\ breaker' \in Circuits
      BY <3>1, <3>2, DispatchEffect
    <3>5. /\ controllers' \in [Ids -> Orders \cup {Nothing}]
          /\ live' \subseteq Ids /\ sweep' \in BOOLEAN
          /\ claim' \in [Files -> {"us", "other", Nothing}]
      <4>1. CASE UNCHANGED <<watch, claim>> BY <4>1 DEF TypeOK, watch
      <4>2. CASE Register(o) /\ sweep' = TRUE /\ AcquireClaims(o)
        BY <4>2, <3>2, WatchTypes, ClaimTypes
      <4> QED BY <3>1, <3>2, <4>1, <4>2, DispatchEffect
    <3>6. starters' \in 0..MaxWorkers /\ thread' \in Calls \cup Orders \cup {Nothing}
          /\ ThreadInv'
      BY <1>0, <2>0, <3>1 DEF ThreadInv, calls
    <3> QED BY <3>1, <3>3, <3>4, <3>5, <3>6 DEF TypeOK, calls
  <2> QED BY <2>1, <2>2
<1> DEFINE Rest == /\ UNCHANGED <<calls, aborted, down>> /\ strays' \subseteq Writers
                   /\ upgrades' \in 0..MaxUpgrades /\ breaker' \in Circuits
                   /\ queue' \in [Calls -> Queues] /\ order' \in [Orders -> OrderStates]
                   /\ controllers' \in [Ids -> Orders \cup {Nothing}]
                   /\ live' \subseteq Ids /\ sweep' \in BOOLEAN
                   /\ claim' \in [Files -> {"us", "other", Nothing}]
<1> DEFINE Thread == \/ UNCHANGED <<thread, starters>> /\ thread = Nothing
                     \/ \E o \in Orders : /\ thread = Nothing /\ thread' = o
                                          /\ order'[o].phase = "deciding" /\ UNCHANGED starters
                     \/ thread \in Orders /\ thread' = Nothing /\ UNCHANGED starters
                     \/ thread' \in Calls /\ starters' = 1
<1>3. ASSUME Rest, Thread PROVE TypeInv'
  <2>1. /\ thread' \in Calls \cup Orders \cup {Nothing} /\ starters' \in 0..MaxWorkers
        /\ ThreadInv'
    BY <1>0, <1>3 DEF ThreadInv, TypeOK
  <2> QED BY <1>3, <2>1 DEF TypeOK, calls
<1>4. ASSUME NEW o \in Orders, NEW v \in Verdicts, Return(o, v) \/ ReturnRetry(o, v)
      PROVE  TypeInv'
  <2>1. ASSUME Keep(o, v)
        PROVE  /\ order' \in [Orders -> OrderStates] /\ breaker' \in Circuits
    BY <2>1, <1>0, MovesEffect, RecordedType DEF Keep, TypeOK, Phases, Verdicts
  <2>2. CASE Return(o, v)
    <3>1. ReleaseClaims(o) /\ Unregister(o) /\ Keep(o, v) /\ thread = Nothing
          /\ UNCHANGED <<calls, queue, thread, starters, aborted, upgrades, down, strays>>
      BY <2>2 DEF Return, Keep, Awaits
    <3>2. Rest BY <2>1, <3>1, WatchTypes, ClaimTypes DEF TypeOK
    <3> QED BY <1>3, <3>1, <3>2
  <2>3. CASE ReturnRetry(o, v)
    <3>1. /\ ReleaseClaims(o) /\ UnregisterAttempt(o) /\ Moves(o, "deciding", v, {})
          /\ thread = Nothing /\ thread' = o
          /\ breaker' = Recorded(o, "passed", breaker)
          /\ UNCHANGED <<calls, queue, starters, aborted, upgrades, down, strays>>
      BY <2>3 DEF ReturnRetry, ToDecide, Awaits
    <3>2. /\ order' \in [Orders -> OrderStates] /\ order'[o].phase = "deciding"
          /\ breaker' \in Circuits
      BY <3>1, MovesEffect, RecordedType DEF TypeOK, Phases, Verdicts
    <3>3. Rest BY <3>1, <3>2, WatchTypes, ClaimTypes DEF TypeOK
    <3> QED BY <1>3, <3>1, <3>2, <3>3
  <2> QED BY <1>4, <2>2, <2>3
<1>5. ASSUME NEW o \in Orders, ThrowAndRetry(o) PROVE TypeInv'
  <2>1. /\ ReleaseClaims(o)
        /\ UnregisterAttempt(o) \/ UNCHANGED watch
        /\ order' = [order EXCEPT ![o].phase = "backoff", ![o].attempt = @ + 1, ![o].held = {}]
        /\ thread = Nothing
        /\ UNCHANGED <<calls, queue, thread, starters, aborted, upgrades, breaker, down, strays>>
    BY <1>5 DEF ThrowAndRetry, Awaits
  <2>2. order' \in [Orders -> OrderStates] BY <2>1 DEF TypeOK, OrderStates, Phases
  <2>3. Rest BY <2>1, <2>2, WatchTypes, ClaimTypes DEF TypeOK
  <2> QED BY <1>3, <2>1, <2>3
<1>6. ASSUME NEW o \in Orders, Fail(o) PROVE TypeInv'
  <2>1. /\ ReleaseClaims(o)
        /\ UnregisterAttempt(o) \/ UNCHANGED watch
        /\ \/ Moves(o, "leaving", "bad", {}) /\ UNCHANGED thread
           \/ Moves(o, "deciding", Nothing, {}) /\ thread' = o
        /\ thread = Nothing /\ strays' \subseteq Writers
        /\ UNCHANGED <<calls, queue, starters, aborted, upgrades, breaker, down>>
    BY <1>6 DEF Fail, Awaits, ToDecide, Abandons, TypeOK
  <2>2. /\ order' \in [Orders -> OrderStates]
        /\ thread' = o => order'[o].phase = "deciding"
        /\ thread' = o \/ thread' = thread
    BY <2>1, MovesEffect, <1>0 DEF Phases
  <2>3. Rest BY <2>1, <2>2, WatchTypes, ClaimTypes DEF TypeOK
  <2> QED BY <1>3, <2>1, <2>2, <2>3
<1>7. ASSUME NEW o \in Orders, FailUpgrade(o) \/ EndExpansion(o) PROVE TypeInv'
  <2>1. /\ ReleaseClaims(o) \/ UNCHANGED claim
        /\ Moves(o, "leaving", "bad", {}) \/ Moves(o, "packing", order[o].verdict, {})
        /\ thread = Nothing /\ strays' \subseteq Writers
        /\ UNCHANGED <<calls, queue, thread, starters, aborted, watch, upgrades, breaker, down>>
    BY <1>7 DEF FailUpgrade, EndExpansion, Awaits, Abandons, TypeOK
  <2>2. order[o].verdict \in {"passed", "bad", Nothing} BY DEF TypeOK, OrderStates
  <2>3. order' \in [Orders -> OrderStates] BY <2>1, <2>2, MovesEffect DEF Phases
  <2>4. Rest BY <2>1, <2>3, ClaimTypes DEF TypeOK, watch
  <2> QED BY <1>3, <2>1, <2>4
<1>8. ASSUME NEW o \in Orders, EndBackoff(o) PROVE TypeInv'
  <2>0. thread = Nothing /\ UNCHANGED <<calls, queue, starters, aborted, upgrades, breaker, down, strays>>
    BY <1>8 DEF EndBackoff, Awaits
  <2>1. CASE ClaimsConflict(o)
    <3>1. /\ UnregisterAttempt(o) /\ Moves(o, "deciding", Nothing, {}) /\ thread' = o
          /\ claim' = [f \in Files |-> IF f \in Granted(o) THEN Nothing ELSE claim[f]]
      BY <1>8, <2>1 DEF EndBackoff, ToDecide
    <3>2. order' \in [Orders -> OrderStates] /\ order'[o].phase = "deciding"
      BY <3>1, MovesEffect DEF Phases
    <3>3. claim' \in [Files -> {"us", "other", Nothing}] BY <3>1 DEF TypeOK
    <3>4. Rest BY <2>0, <3>1, <3>2, <3>3, WatchTypes DEF TypeOK
    <3> QED BY <1>3, <2>0, <3>1, <3>2, <3>4
  <2>2. CASE ~ClaimsConflict(o)
    <3>1. /\ Register(o) /\ UNCHANGED sweep /\ AcquireClaims(o)
          /\ Moves(o, "retrying", Nothing, Granted(o)) /\ UNCHANGED thread
      BY <1>8, <2>2 DEF EndBackoff
    <3>2. Granted(o) \in SUBSET Files BY ClaimTypes
    <3>3. order' \in [Orders -> OrderStates] BY <3>1, <3>2, MovesEffect DEF Phases
    <3>4. Rest BY <2>0, <3>1, <3>3, WatchTypes, ClaimTypes DEF TypeOK
    <3> QED BY <1>3, <2>0, <3>1, <3>4
  <2> QED BY <2>1, <2>2
<1>9. ASSUME NEW o \in Orders, CutBackoff(o) PROVE TypeInv'
  <2>1. /\ thread = Nothing /\ thread' = o /\ Moves(o, "deciding", Nothing, {})
        /\ UNCHANGED <<calls, queue, starters, aborted, watch, claim, upgrades, breaker, down, strays>>
    BY <1>9 DEF CutBackoff, ToDecide, Awaits
  <2>2. order' \in [Orders -> OrderStates] /\ order'[o].phase = "deciding"
    BY <2>1, MovesEffect DEF Phases
  <2>3. Rest BY <2>1, <2>2 DEF TypeOK, watch
  <2> QED BY <1>3, <2>1, <2>2, <2>3
<1>10. ASSUME NEW o \in Orders, Decide(o) PROVE TypeInv'
  <2>0. /\ thread = o /\ thread' = Nothing /\ UNCHANGED <<calls, queue, starters, aborted, down, strays>>
        /\ order[o].verdict \in {"passed", "bad", Nothing}
    BY <1>10 DEF Decide, TypeOK, OrderStates
  <2>1. CASE CanUpgrade(o) /\ Upgrade(o)
    <3>1. Upgrade(o) BY <2>1
    <3>2. live' \subseteq Ids /\ UNCHANGED <<controllers, sweep, breaker>>
      BY <1>0, <3>1 DEF Upgrade, TypeOK
    <3>3. /\ claim' \in [Files -> {"us", "other", Nothing}]
          /\ order' \in [Orders -> OrderStates] /\ upgrades' \in 0..MaxUpgrades
      <4>1. CASE ClaimsConflict(o)
        <5>1. /\ claim' = [f \in Files |-> IF f \in Granted(o) THEN Nothing ELSE claim[f]]
              /\ Moves(o, "leaving", "bad", {}) /\ UNCHANGED upgrades
          BY <3>1, <4>1 DEF Upgrade
        <5>2. order' \in [Orders -> OrderStates] BY <5>1, MovesEffect DEF Phases
        <5> QED BY <5>1, <5>2 DEF TypeOK
      <4>2. CASE ~ClaimsConflict(o)
        <5>1. /\ AcquireClaims(o) /\ upgrades' = upgrades + 1
              /\ Moves(o, "upgrading", order[o].verdict, Granted(o))
          BY <3>1, <4>2 DEF Upgrade
        <5>2. Granted(o) \in SUBSET Files BY ClaimTypes
        <5>3. order' \in [Orders -> OrderStates] BY <2>0, <5>1, <5>2, MovesEffect DEF Phases
        <5>4. upgrades' \in 0..MaxUpgrades BY <1>0, <2>1, <5>1 DEF CanUpgrade, TypeOK
        <5> QED BY <5>1, <5>3, <5>4, ClaimTypes
      <4> QED BY <4>1, <4>2
    <3> QED BY <1>3, <2>0, <3>2, <3>3 DEF TypeOK
  <2>2. CASE ~CanUpgrade(o) /\ order[o].verdict = Nothing
    <3>1. /\ Moves(o, "leaving", "bad", {}) /\ breaker' = Recorded(o, "bad", breaker)
          /\ UNCHANGED <<watch, claim, upgrades>>
      BY <1>10, <2>2 DEF Decide
    <3>2. order' \in [Orders -> OrderStates] /\ breaker' \in Circuits
      BY <3>1, MovesEffect, RecordedType DEF Phases, TypeOK
    <3> QED BY <1>3, <2>0, <3>1, <3>2 DEF TypeOK, watch
  <2>3. CASE ~CanUpgrade(o) /\ order[o].verdict # Nothing
    <3>1. Keep(o, order[o].verdict) /\ UNCHANGED <<claim, upgrades>>
      BY <1>10, <2>3 DEF Decide
    <3>2. Unregister(o) /\ order' \in [Orders -> OrderStates] /\ breaker' \in Circuits
      BY <2>0, <3>1, MovesEffect, RecordedType DEF Keep, Phases, TypeOK
    <3> QED BY <1>3, <2>0, <3>1, <3>2, WatchTypes DEF TypeOK
  <2>4. CASE ThrowInUpgrade(o)
    <3>1. /\ Unregister(o) /\ Moves(o, "throwing", "bad", {})
          /\ UNCHANGED <<claim, upgrades, breaker>>
      BY <2>4 DEF ThrowInUpgrade
    <3>2. order' \in [Orders -> OrderStates] BY <3>1, MovesEffect DEF Phases
    <3> QED BY <1>3, <2>0, <3>1, <3>2, WatchTypes DEF TypeOK
  <2> QED BY <1>10, <2>1, <2>2, <2>3, <2>4 DEF Decide
<1>11. ASSUME NEW o \in Orders, Settle(o) PROVE TypeInv'
  <2>1. /\ thread = Nothing /\ ReleaseClaims(o)
        /\ Unregister(o) \/ UNCHANGED watch
        /\ queue' = [queue EXCEPT ![CallOf[o]] = IF order[o].phase = "throwing"
                                       THEN MarkFailed(@, o) ELSE MarkCompleted(@, o)]
        /\ Moves(o, "answered", order[o].verdict, {})
        /\ thread' = CallOf[o] /\ starters' = 1
        /\ UNCHANGED <<calls, aborted, upgrades, breaker, down, strays>>
    BY <1>11 DEF Settle, Awaits
  <2>2. order[o].verdict \in {"passed", "bad", Nothing} BY DEF TypeOK, OrderStates
  <2>3. order' \in [Orders -> OrderStates] BY <2>1, <2>2, MovesEffect DEF Phases
  <2>4. queue' \in [Calls -> Queues] BY <1>0, <2>1, QueueTypes DEF TypeOK
  <2>5. Rest BY <2>1, <2>3, <2>4, WatchTypes, ClaimTypes DEF TypeOK
  <2> QED BY <1>0, <1>3, <2>1, <2>5
<1>12. ASSUME NEW c \in Calls, Close(c) \/ Deliver(c) \/ CallerAborts(c) PROVE TypeInv'
  <2>1. CASE Close(c)
    <3>1. order' \in [Orders -> OrderStates]
      <4>1. \A x \in OrderStates :
              [x EXCEPT !.phase = "answered", !.verdict = "bad"] \in OrderStates
        BY DEF OrderStates, Phases
      <4> QED BY <2>1, <4>1 DEF Close, TypeOK
    <3>2. queue' \in [Calls -> Queues]
      <4> DEFINE blocked == {IdOf[o] : o \in queue[c].entries}
      <4>1. blocked \subseteq Ids BY <1>0 DEF TypeOK, Queues
      <4>2. queue' = [queue EXCEPT ![c].failed = @ \cup blocked] BY <2>1 DEF Close
      <4> HIDE DEF blocked
      <4> QED BY <4>1, <4>2 DEF TypeOK, Queues
    <3>3. call' \in [Calls -> {"idle", "open", "closing", "over"}] BY <2>1 DEF Close, TypeOK
    <3> QED BY <1>0, <2>1, <3>1, <3>2, <3>3 DEF Close, TypeOK, ThreadInv, watch
  <2>2. CASE Deliver(c) BY <1>0, <2>2 DEF Deliver, TypeOK, ThreadInv, watch
  <2>3. CASE CallerAborts(c) BY <1>0, <2>3 DEF CallerAborts, TypeOK, ThreadInv, watch, calls
  <2> QED BY <1>12, <2>1, <2>2, <2>3
<1>13. ASSUME NEW S, Fires(S)
       PROVE  order' \in [Orders -> OrderStates] /\ \A o \in Orders : order'[o].phase = order[o].phase
  <2>1. order' = [o \in Orders |-> [order[o] EXCEPT !.own = @ \/ o \in S]] BY <1>13 DEF Fires
  <2>2. order \in [Orders -> OrderStates] BY <1>0 DEF TypeOK
  <2>3. \A o \in Orders : \A b \in BOOLEAN :
          /\ [order[o] EXCEPT !.own = b] \in OrderStates
          /\ [order[o] EXCEPT !.own = b].phase = order[o].phase
    BY <2>2 DEF OrderStates
  <2>4. \A o \in Orders : (order[o].own \/ o \in S) \in BOOLEAN OBVIOUS
  <2>5. \A o \in Orders : order'[o] = [order[o] EXCEPT !.own = order[o].own \/ o \in S] BY <2>1
  <2>6. \A o \in Orders : order'[o] \in OrderStates /\ order'[o].phase = order[o].phase
    BY <2>3, <2>4, <2>5
  <2> QED BY <2>1, <2>6
<1>14. ASSUME NEW I \in SUBSET live, SweepTick(I) PROVE TypeInv'
  <2>1. Rest /\ thread = Nothing /\ UNCHANGED <<thread, starters>>
    BY <1>13, <1>14 DEF SweepTick, TypeOK
  <2> QED BY <1>3, <2>1
<1>15. ASSUME NEW i \in Ids, Kill(i) PROVE TypeInv'
  <2>1. Rest /\ thread = Nothing /\ UNCHANGED <<thread, starters>>
    BY <1>13, <1>15 DEF Kill, TypeOK, watch
  <2> QED BY <1>3, <2>1
<1>16. ASSUME Shutdown PROVE TypeInv'
  <2>1. order' \in [Orders -> OrderStates] BY <1>13, <1>16 DEF Shutdown
  <2> QED BY <1>0, <1>16, <2>1 DEF Shutdown, TypeOK, ThreadInv, calls
<1>17. ASSUME NEW f \in Files, OtherClaims(f) \/ OtherReleases(f) PROVE TypeInv'
  BY <1>17 DEF OtherClaims, OtherReleases, TypeOK, ThreadInv, watch, calls
<1>18. CASE CoolDown
  <2>1. breaker' \in Circuits BY <1>18 DEF CoolDown, TypeOK, Circuits
  <2> QED BY <1>18, <2>1 DEF CoolDown, TypeOK, ThreadInv, watch, calls
<1>20. ASSUME NEW o \in Orders, StrayEnds(o) PROVE TypeInv'
  BY <1>20 DEF StrayEnds, TypeOK, ThreadInv, watch, calls
<1>19. CASE UNCHANGED vars BY <1>19 DEF vars, TypeOK, ThreadInv, watch
<1> QED
  BY <1>1, <1>2, <1>4, <1>5, <1>6, <1>7, <1>8, <1>9, <1>10, <1>11, <1>12, <1>14, <1>15,
     <1>16, <1>17, <1>18, <1>19, <1>20
  DEF Next, Progress, Advance, EndRun

(* Every variable keeps its type: no call is answered that was never made, no
   worker slot is started that nobody asked for, upgrades stay under their cap
   and the circuit's count under its threshold. *)
THEOREM TypeCorrect == Spec => []TypeOK
<1>1. TypeInv => TypeOK BY DEF TypeInv
<1> QED BY <1>1, TypeInit, TypeStep, PTL DEF Spec

-----------------------------------------------------------------------------
(* What the steps do to the queues, the watch and the claims.              *)

\* The phases from an order's dispatch to its answer; among them those in which
\* it is watched, and those in which it holds claims.
Taken == {"working", "backoff", "retrying", "upgrading", "deciding", "leaving",
          "expanding", "packing", "throwing"}
Watched == {"working", "backoff", "retrying", "upgrading", "deciding", "leaving"}
Holding == {"working", "retrying", "upgrading", "leaving"}

\* Whom the session watches, and what it claims.
WatchInv ==
  /\ \A i \in Ids : controllers[i] # Nothing =>
        IdOf[controllers[i]] = i /\ order[controllers[i]].phase \in Watched
  /\ \A i \in live : \E o \in Orders : IdOf[o] = i /\ order[o].phase \in Watched

ClaimInv ==
  /\ \A f \in Files : claim[f] = "us" => \E o \in Orders : f \in order[o].held
  /\ \A o \in Orders : order[o].held # {} => order[o].phase \in Holding

\* An order is in flight from its dispatch to its answer, and only while its
\* call is open; a call that is not idle has accepted something.
QueueInv ==
  /\ \A c \in Calls :
       /\ queue[c].entries \cup queue[c].inFlight \subseteq Of(c)
       /\ call[c] = "idle" <=> \A o \in Of(c) : order[o].phase = "absent"
  /\ \A o \in Orders :
       /\ order[o].phase \in Taken <=> o \in queue[CallOf[o]].inFlight
       /\ order[o].phase = "queued" => o \in queue[CallOf[o]].entries
       /\ o \in queue[CallOf[o]].entries => order[o].phase \in {"queued", "answered"}
       /\ order[o].phase \in Taken \cup {"queued"} => call[CallOf[o]] = "open"
       /\ call[CallOf[o]] = "open" /\ o \in queue[CallOf[o]].entries => order[o].phase = "queued"
  /\ thread \in Calls => call[thread] = "open"

\* The order is put under watch or stays there, leaves the watch, or was not in it.
WatchMoves(o) ==
  \/ /\ order'[o].phase \in Watched
     /\ \A i \in Ids : \/ controllers'[i] \in {controllers[i], Nothing}
                       \/ i = IdOf[o] /\ controllers'[i] = o
     /\ live' \subseteq live \cup {IdOf[o]}
  \/ /\ \A i \in Ids : controllers'[i] = IF i = IdOf[o] THEN Nothing ELSE controllers[i]
     /\ live' \subseteq live \ {IdOf[o]}
  \/ /\ order[o].phase \notin Watched
     /\ UNCHANGED <<controllers, live>>

\* The order takes claims, gives its own back, or gives up those it asked for.
ClaimMoves(o) ==
  \/ /\ \A f \in Files : claim'[f] = IF f \in Granted(o) THEN "us" ELSE claim[f]
     /\ order'[o].held = Granted(o) /\ order'[o].phase \in Holding
     /\ order[o].held = {}
  \/ /\ \A f \in Files : claim'[f] = IF f \in order[o].held /\ claim[f] = "us"
                                     THEN Nothing ELSE claim[f]
     /\ order'[o].held = {}
  \/ /\ \A f \in Files : claim'[f] = IF f \in Granted(o) THEN Nothing ELSE claim[f]
     /\ order[o].phase \in Taken
     /\ order'[o].held = {} /\ order[o].held = {}

\* One order moves, and no other.
Moved(o) ==
  /\ \A x \in Orders \ {o} : order'[x] = order[x]
  /\ WatchMoves(o) /\ ClaimMoves(o)

\* A step of an order between its dispatch and its answer.
Works(o) == EndRun(o) \/ EndBackoff(o) \/ CutBackoff(o) \/ Decide(o)

WorkerMoves(o) ==
  /\ UNCHANGED <<call, queue, saved, signal, starters, aborted>>
  /\ thread \notin Calls /\ thread' \notin Calls
  /\ Moved(o)
  /\ order[o].phase \in Taken /\ order'[o].phase \in Taken
  /\ order'[o].phase \in Watched => order[o].phase \in Watched
  /\ order'[o].parent = order[o].parent
  /\ order'[o].phase # "working"
  /\ order'[o].phase = "retrying" => order[o].phase \in Watched /\ order[o].parent \notin aborted

\* A step of nobody's worker: what it does to the orders is to fire controllers.
Outside ==
  /\ UNCHANGED <<queue, thread, starters>>
  /\ \A o \in Orders : /\ order'[o].phase = order[o].phase
                       /\ order'[o].parent = order[o].parent
                       /\ order'[o].held = order[o].held
                       /\ order'[o].verdict = order[o].verdict
                       /\ order[o].own => order'[o].own
  /\ aborted \subseteq aborted' /\ strays' \subseteq strays
  /\ \A i \in Ids : controllers'[i] \in {controllers[i], Nothing}
  /\ live' \subseteq live
  /\ \A f \in Files : claim'[f] = "us" <=> claim[f] = "us"

\* What the methods of the watch and the claims do.
LEMMA WatchEffects ==
  ASSUME TypeOK, NEW o \in Orders
  PROVE  /\ Register(o) => /\ \A i \in Ids : \/ controllers'[i] = controllers[i]
                                             \/ i = IdOf[o] /\ controllers'[i] = o
                           /\ live' \subseteq live \cup {IdOf[o]}
         /\ Unregister(o) \/ UnregisterAttempt(o) =>
              /\ \A i \in Ids : controllers'[i] = IF i = IdOf[o] THEN Nothing ELSE controllers[i]
              /\ live' \subseteq live \ {IdOf[o]}
BY WatchTypes DEF TypeOK, Register, Unregister, UnregisterAttempt

\* What granting and releasing claims does to the session's rows.
LEMMA ClaimEffects ==
  ASSUME TypeOK, NEW o \in Orders
  PROVE  /\ AcquireClaims(o) =>
              \A f \in Files : claim'[f] = IF f \in Granted(o) THEN "us" ELSE claim[f]
         /\ ReleaseClaims(o) =>
              \A f \in Files : claim'[f] = IF f \in order[o].held /\ claim[f] = "us"
                                          THEN Nothing ELSE claim[f]
         /\ UNCHANGED claim /\ order[o].held = {} =>
              \A f \in Files : claim'[f] = IF f \in order[o].held /\ claim[f] = "us"
                                          THEN Nothing ELSE claim[f]
BY DEF AcquireClaims, ReleaseClaims

\* Every action of a worker is such a step.
LEMMA WorksEffect ==
  ASSUME TypeInv, ClaimInv, NEW o \in Orders, Works(o)
  PROVE  WorkerMoves(o)
<1> USE DEF TypeInv
<1>0. /\ Nothing \notin Calls \cup Orders /\ Calls \cap Orders = {}
      /\ IdOf[o] \in Ids
  BY QueueAssumption, CoordinatorAssumption
<1>1. /\ order[o].phase \notin Holding => order[o].held = {}
      /\ order[o].verdict \in {"passed", "bad", Nothing}
      /\ Granted(o) \in SUBSET Files
  BY ClaimTypes DEF ClaimInv, TypeOK, OrderStates
<1>2. ASSUME NEW p \in Phases, NEW v \in {"passed", "bad", Nothing}, NEW H \in SUBSET Files,
             Moves(o, p, v, H)
      PROVE  /\ \A x \in Orders \ {o} : order'[x] = order[x]
             /\ order'[o].phase = p /\ order'[o].held = H /\ order'[o].parent = order[o].parent
  BY <1>2, MovesEffect
<1>3. ASSUME NEW v \in {"passed", "bad", Nothing}, Keep(o, v)
      PROVE  /\ \A x \in Orders \ {o} : order'[x] = order[x]
             /\ order'[o].phase \in {"packing", "expanding"}
             /\ order'[o].held = {} /\ order'[o].parent = order[o].parent
             /\ Unregister(o)
  <2>1. PICK p \in {"packing", "expanding"} : Moves(o, p, v, {}) BY <1>3 DEF Keep
  <2>2. Unregister(o) BY <1>3 DEF Keep
  <2> QED BY <2>1, <2>2, <1>2 DEF Phases
<1>4. ASSUME NEW v \in Verdicts, Return(o, v) PROVE WorkerMoves(o)
  <2>1. /\ ReleaseClaims(o) /\ Keep(o, v) /\ thread = Nothing
        /\ order[o].phase \in {"working", "upgrading"}
        /\ UNCHANGED <<calls, queue, thread, starters, aborted>>
    BY <1>4 DEF Return, Awaits
  <2>2. v \in {"passed", "bad", Nothing} BY DEF Verdicts
  <2>3. ClaimMoves(o) /\ WatchMoves(o)
    BY <1>3, <2>1, <2>2, WatchEffects, ClaimEffects DEF ClaimMoves, WatchMoves
  <2> QED BY <1>0, <1>3, <2>1, <2>2, <2>3 DEF WorkerMoves, Moved, Taken, Watched, calls
<1>5. ASSUME NEW v \in Verdicts, ReturnRetry(o, v) PROVE WorkerMoves(o)
  <2>1. /\ ReleaseClaims(o) /\ UnregisterAttempt(o) /\ Moves(o, "deciding", v, {})
        /\ thread = Nothing /\ thread' = o /\ order[o].phase = "retrying"
        /\ UNCHANGED <<calls, queue, starters, aborted>>
    BY <1>5 DEF ReturnRetry, ToDecide, Awaits
  <2>2. /\ \A x \in Orders \ {o} : order'[x] = order[x]
        /\ order'[o].phase = "deciding" /\ order'[o].held = {}
        /\ order'[o].parent = order[o].parent
    BY <1>2, <2>1 DEF Phases, Verdicts
  <2>3. ClaimMoves(o) /\ WatchMoves(o)
    BY <2>1, <2>2, WatchEffects, ClaimEffects DEF ClaimMoves, WatchMoves
  <2> QED BY <1>0, <2>1, <2>2, <2>3 DEF WorkerMoves, Moved, Taken, Watched, calls
<1>6. ASSUME ThrowAndRetry(o) PROVE WorkerMoves(o)
  <2>1. /\ ReleaseClaims(o)
        /\ UnregisterAttempt(o) \/ UNCHANGED watch
        /\ order' = [order EXCEPT ![o].phase = "backoff", ![o].attempt = @ + 1, ![o].held = {}]
        /\ thread = Nothing /\ order[o].phase \in {"working", "retrying"}
        /\ UNCHANGED <<calls, queue, thread, starters, aborted>>
    BY <1>6 DEF ThrowAndRetry, Awaits
  <2>2. /\ \A x \in Orders \ {o} : order'[x] = order[x]
        /\ order'[o].phase = "backoff" /\ order'[o].held = {}
        /\ order'[o].parent = order[o].parent
    BY <2>1 DEF TypeOK, OrderStates
  <2>3. WatchMoves(o)
    <3>1. CASE UnregisterAttempt(o) BY <3>1, WatchEffects DEF WatchMoves
    <3>2. CASE UNCHANGED watch BY <2>2, <3>2 DEF WatchMoves, Watched, watch
    <3> QED BY <2>1, <3>1, <3>2
  <2>4. ClaimMoves(o) BY <2>1, <2>2, ClaimEffects DEF ClaimMoves
  <2> QED BY <1>0, <2>1, <2>2, <2>3, <2>4 DEF WorkerMoves, Moved, Taken, Watched, calls
<1>7. ASSUME Fail(o) PROVE WorkerMoves(o)
  <2>1. /\ ReleaseClaims(o)
        /\ UnregisterAttempt(o) \/ UNCHANGED watch
        /\ \/ Moves(o, "leaving", "bad", {}) /\ UNCHANGED thread
           \/ Moves(o, "deciding", Nothing, {}) /\ thread' = o
        /\ thread = Nothing /\ order[o].phase \in {"working", "retrying"}
        /\ UNCHANGED <<calls, queue, starters, aborted>>
    BY <1>7 DEF Fail, Awaits, ToDecide
  <2>2. /\ \A x \in Orders \ {o} : order'[x] = order[x]
        /\ order'[o].phase \in {"leaving", "deciding"} /\ order'[o].held = {}
        /\ order'[o].parent = order[o].parent
    BY <1>2, <2>1 DEF Phases
  <2>3. WatchMoves(o)
    <3>1. CASE UnregisterAttempt(o) BY <3>1, WatchEffects DEF WatchMoves
    <3>2. CASE UNCHANGED watch BY <2>2, <3>2 DEF WatchMoves, Watched, watch
    <3> QED BY <2>1, <3>1, <3>2
  <2>4. ClaimMoves(o) BY <2>1, <2>2, ClaimEffects DEF ClaimMoves
  <2> QED BY <1>0, <2>1, <2>2, <2>3, <2>4 DEF WorkerMoves, Moved, Taken, Watched, calls
<1>8. ASSUME FailUpgrade(o) PROVE WorkerMoves(o)
  <2>1. /\ ReleaseClaims(o) /\ Moves(o, "leaving", "bad", {})
        /\ thread = Nothing /\ order[o].phase = "upgrading"
        /\ UNCHANGED <<calls, queue, thread, starters, aborted, watch>>
    BY <1>8 DEF FailUpgrade, Awaits
  <2>2. /\ \A x \in Orders \ {o} : order'[x] = order[x]
        /\ order'[o].phase = "leaving" /\ order'[o].held = {}
        /\ order'[o].parent = order[o].parent
    BY <1>2, <2>1 DEF Phases
  <2>3. ClaimMoves(o) /\ WatchMoves(o)
    BY <2>1, <2>2, ClaimEffects DEF ClaimMoves, WatchMoves, Watched, watch
  <2> QED BY <1>0, <2>1, <2>2, <2>3 DEF WorkerMoves, Moved, Taken, Watched, calls
<1>9. ASSUME EndExpansion(o) PROVE WorkerMoves(o)
  <2>1. /\ Moves(o, "packing", order[o].verdict, {})
        /\ thread = Nothing /\ order[o].phase = "expanding"
        /\ UNCHANGED <<calls, queue, thread, starters, aborted, watch, claim>>
    BY <1>9 DEF EndExpansion, Awaits
  <2>2. /\ \A x \in Orders \ {o} : order'[x] = order[x]
        /\ order'[o].phase = "packing" /\ order'[o].held = {}
        /\ order'[o].parent = order[o].parent /\ order[o].held = {}
    BY <1>1, <1>2, <2>1 DEF Phases, Holding
  <2>3. ClaimMoves(o) /\ WatchMoves(o)
    BY <2>1, <2>2, ClaimEffects DEF ClaimMoves, WatchMoves, Watched, watch
  <2> QED BY <1>0, <2>1, <2>2, <2>3 DEF WorkerMoves, Moved, Taken, Watched, calls
<1>10. ASSUME CutBackoff(o) PROVE WorkerMoves(o)
  <2>1. /\ Moves(o, "deciding", Nothing, {})
        /\ thread = Nothing /\ thread' = o /\ order[o].phase = "backoff"
        /\ UNCHANGED <<calls, queue, starters, aborted, watch, claim>>
    BY <1>10 DEF CutBackoff, Awaits, ToDecide
  <2>2. /\ \A x \in Orders \ {o} : order'[x] = order[x]
        /\ order'[o].phase = "deciding" /\ order'[o].held = {}
        /\ order'[o].parent = order[o].parent /\ order[o].held = {}
    BY <1>1, <1>2, <2>1 DEF Phases, Holding
  <2>3. ClaimMoves(o) /\ WatchMoves(o)
    BY <2>1, <2>2, ClaimEffects DEF ClaimMoves, WatchMoves, Watched, watch
  <2> QED BY <1>0, <2>1, <2>2, <2>3 DEF WorkerMoves, Moved, Taken, Watched, calls
<1>11. ASSUME EndBackoff(o) PROVE WorkerMoves(o)
  <2>1. /\ thread = Nothing /\ order[o].phase = "backoff" /\ ~Fired(o)
        /\ UNCHANGED <<calls, queue, starters, aborted>>
        /\ order[o].held = {} /\ order[o].parent \notin aborted
    BY <1>1, <1>11 DEF EndBackoff, Awaits, Holding, Fired
  <2>2. CASE ClaimsConflict(o)
    <3>1. /\ UnregisterAttempt(o) /\ Moves(o, "deciding", Nothing, {}) /\ thread' = o
          /\ claim' = [f \in Files |-> IF f \in Granted(o) THEN Nothing ELSE claim[f]]
      BY <1>11, <2>2 DEF EndBackoff, ToDecide
    <3>2. /\ \A x \in Orders \ {o} : order'[x] = order[x]
          /\ order'[o].phase = "deciding" /\ order'[o].held = {}
          /\ order'[o].parent = order[o].parent
      BY <1>2, <3>1 DEF Phases
    <3>3. ClaimMoves(o) /\ WatchMoves(o)
      BY <2>1, <2>2, <3>1, <3>2, WatchEffects DEF ClaimMoves, WatchMoves, Taken
    <3> QED BY <1>0, <2>1, <3>1, <3>2, <3>3 DEF WorkerMoves, Moved, Taken, Watched, calls
  <2>3. CASE ~ClaimsConflict(o)
    <3>1. /\ Register(o) /\ AcquireClaims(o)
          /\ Moves(o, "retrying", Nothing, Granted(o)) /\ UNCHANGED thread
      BY <1>11, <2>3 DEF EndBackoff
    <3>2. /\ \A x \in Orders \ {o} : order'[x] = order[x]
          /\ order'[o].phase = "retrying" /\ order'[o].held = Granted(o)
          /\ order'[o].parent = order[o].parent
      BY <1>1, <1>2, <3>1 DEF Phases
    <3>3. ClaimMoves(o)
      BY <2>1, <3>1, <3>2, ClaimEffects DEF ClaimMoves, Holding
    <3>4. WatchMoves(o) BY <3>1, <3>2, WatchEffects DEF WatchMoves, Watched
    <3> QED BY <1>0, <2>1, <3>1, <3>2, <3>3, <3>4 DEF WorkerMoves, Moved, Taken, Watched, calls
  <2> QED BY <2>2, <2>3
<1>12. ASSUME Decide(o) PROVE WorkerMoves(o)
  <2>1. /\ thread = o /\ thread' = Nothing /\ order[o].phase = "deciding"
        /\ UNCHANGED <<calls, queue, starters, aborted>>
        /\ order[o].held = {}
    BY <1>1, <1>12 DEF Decide, ThreadInv, Holding
  <2>2. CASE Upgrade(o) /\ ClaimsConflict(o)
    <3>1. /\ live' = live \cup {IdOf[o]} /\ UNCHANGED controllers
          /\ claim' = [f \in Files |-> IF f \in Granted(o) THEN Nothing ELSE claim[f]]
          /\ Moves(o, "leaving", "bad", {})
      BY <2>2 DEF Upgrade
    <3>2. /\ \A x \in Orders \ {o} : order'[x] = order[x]
          /\ order'[o].phase = "leaving" /\ order'[o].held = {}
          /\ order'[o].parent = order[o].parent
      BY <1>2, <3>1 DEF Phases
    <3>3. ClaimMoves(o) BY <2>1, <2>2, <3>1, <3>2 DEF ClaimMoves, Taken
    <3>4. WatchMoves(o) BY <3>1, <3>2 DEF WatchMoves, Watched
    <3> QED BY <1>0, <2>1, <3>1, <3>2, <3>3, <3>4 DEF WorkerMoves, Moved, Taken, Watched, calls
  <2>3. CASE Upgrade(o) /\ ~ClaimsConflict(o)
    <3>1. /\ live' = live \cup {IdOf[o]} /\ UNCHANGED controllers /\ AcquireClaims(o)
          /\ Moves(o, "upgrading", order[o].verdict, Granted(o))
      BY <2>3 DEF Upgrade
    <3>2. /\ \A x \in Orders \ {o} : order'[x] = order[x]
          /\ order'[o].phase = "upgrading" /\ order'[o].held = Granted(o)
          /\ order'[o].parent = order[o].parent
      BY <1>1, <1>2, <3>1 DEF Phases
    <3>3. ClaimMoves(o) BY <2>1, <3>1, <3>2, ClaimEffects DEF ClaimMoves, Holding
    <3>4. WatchMoves(o) BY <3>1, <3>2 DEF WatchMoves, Watched
    <3> QED BY <1>0, <2>1, <3>1, <3>2, <3>3, <3>4 DEF WorkerMoves, Moved, Taken, Watched, calls
  <2>4. CASE ~CanUpgrade(o) /\ order[o].verdict = Nothing
    <3>1. Moves(o, "leaving", "bad", {}) /\ UNCHANGED <<watch, claim>>
      BY <1>12, <2>4 DEF Decide
    <3>2. /\ \A x \in Orders \ {o} : order'[x] = order[x]
          /\ order'[o].phase = "leaving" /\ order'[o].held = {}
          /\ order'[o].parent = order[o].parent
      BY <1>2, <3>1 DEF Phases
    <3>3. ClaimMoves(o) BY <2>1, <3>1, <3>2, ClaimEffects DEF ClaimMoves
    <3>4. WatchMoves(o) BY <3>1, <3>2 DEF WatchMoves, Watched, watch
    <3> QED BY <1>0, <2>1, <3>1, <3>2, <3>3, <3>4 DEF WorkerMoves, Moved, Taken, Watched, calls
  <2>5. CASE ~CanUpgrade(o) /\ order[o].verdict # Nothing
    <3>1. Keep(o, order[o].verdict) /\ UNCHANGED claim BY <1>12, <2>5 DEF Decide
    <3>2. /\ \A x \in Orders \ {o} : order'[x] = order[x]
          /\ order'[o].phase \in {"packing", "expanding"}
          /\ order'[o].held = {} /\ order'[o].parent = order[o].parent
          /\ Unregister(o)
      BY <1>1, <1>3, <3>1
    <3>3. ClaimMoves(o) BY <2>1, <3>1, <3>2, ClaimEffects DEF ClaimMoves
    <3>4. WatchMoves(o) BY <3>2, WatchEffects DEF WatchMoves
    <3> QED BY <1>0, <2>1, <3>1, <3>2, <3>3, <3>4 DEF WorkerMoves, Moved, Taken, Watched, calls
  <2>6. CASE ThrowInUpgrade(o)
    <3>1. Unregister(o) /\ Moves(o, "throwing", "bad", {}) /\ UNCHANGED claim
      BY <2>6 DEF ThrowInUpgrade
    <3>2. /\ \A x \in Orders \ {o} : order'[x] = order[x]
          /\ order'[o].phase = "throwing" /\ order'[o].held = {}
          /\ order'[o].parent = order[o].parent
      BY <1>2, <3>1 DEF Phases
    <3>3. ClaimMoves(o) BY <2>1, <3>1, <3>2, ClaimEffects DEF ClaimMoves
    <3>4. WatchMoves(o) BY <3>1, WatchEffects DEF WatchMoves
    <3> QED BY <1>0, <2>1, <3>1, <3>2, <3>3, <3>4 DEF WorkerMoves, Moved, Taken, Watched, calls
  <2> QED BY <1>12, <2>2, <2>3, <2>4, <2>5, <2>6 DEF Decide
<1> QED
  BY <1>4, <1>5, <1>6, <1>7, <1>8, <1>9, <1>10, <1>11, <1>12 DEF Works, EndRun

\* A chain of processNext that finds an order dispatches it.
LEMMA DispatchMoves ==
  ASSUME TypeInv, ClaimInv, QueueInv, NEW c \in Calls, ProcessNext(c), Runnable(queue[c]) # {}
  PROVE  \E o \in Of(c) :
           /\ o \in queue[c].entries /\ CanRun(queue[c], o)
           /\ queue' = [queue EXCEPT ![c] = MarkInFlight(Dequeued(queue[c], o), o)]
           /\ Moved(o)
           /\ order[o].phase = "queued"
           /\ order'[o].phase \in {"packing", "throwing", "working", "leaving"}
           /\ order'[o].phase \in Watched =>
                order'[o].parent = signal /\ signal \notin aborted
           /\ order'[o].phase = "working" => order'[o].held = Wanted(o)
           /\ UNCHANGED <<call, saved, signal, aborted, strays>>
<1> USE DEF TypeInv
<1> DEFINE o == FirstRunnable(queue[c])
<1>1. /\ o \in queue[c].entries /\ o \in Orders /\ CanRun(queue[c], o)
  BY DequeueRuns DEF TypeOK
<1>2. /\ queue' = [queue EXCEPT ![c] = MarkInFlight(Dequeued(queue[c], o), o)]
      /\ Dispatch(o) /\ thread = c
      /\ UNCHANGED <<calls, aborted, strays>>
  BY DEF ProcessNext, TypeOK
<1> HIDE DEF o
<1>3. o \in Of(c) /\ order[o].phase = "queued"
  BY <1>1, <1>2 DEF QueueInv, Of
<1>4. order[o].held = {} BY <1>1, <1>3 DEF ClaimInv, Holding
<1>5. /\ \A x \in Orders \ {o} : order'[x] = order[x]
      /\ WatchMoves(o) /\ ClaimMoves(o)
      /\ order'[o].phase \in {"packing", "throwing", "working", "leaving"}
      /\ order'[o].phase \in Watched => order'[o].parent = signal /\ signal \notin aborted
      /\ order'[o].phase = "working" => order'[o].held = Wanted(o)
  <2>1. CASE /\ order'[o].phase \in {"packing", "throwing"}
             /\ order'[o].held = {} /\ order'[o].parent = order[o].parent
             /\ UNCHANGED <<watch, claim>>
    <3>1. ClaimMoves(o) BY <1>1, <1>4, <2>1, ClaimEffects DEF ClaimMoves
    <3>2. WatchMoves(o) BY <1>3, <2>1 DEF WatchMoves, Watched, watch
    <3> QED BY <1>1, <1>2, <2>1, <3>1, <3>2, DispatchEffect DEF Watched
  <2>2. CASE /\ order'[o].phase \in {"working", "leaving"}
             /\ signal \notin aborted
             /\ order'[o].held = Granted(o) /\ order'[o].parent = signal
             /\ order'[o].phase = "working" => Granted(o) = Wanted(o)
             /\ Register(o) /\ sweep' = TRUE /\ AcquireClaims(o)
    <3>1. ClaimMoves(o) BY <1>1, <1>4, <2>2, ClaimEffects DEF ClaimMoves, Holding
    <3>2. WatchMoves(o) BY <1>1, <2>2, WatchEffects DEF WatchMoves, Watched
    <3> QED BY <1>1, <1>2, <2>2, <3>1, <3>2, DispatchEffect
  <2> QED BY <1>1, <1>2, <2>1, <2>2, DispatchEffect
<1> QED BY <1>1, <1>2, <1>3, <1>5 DEF Moved, calls

\* An order's result reaches its call.
LEMMA SettleMoves ==
  ASSUME TypeInv, NEW o \in Orders, Settle(o)
  PROVE  /\ Moved(o)
         /\ thread = Nothing /\ thread' = CallOf[o]
         /\ order[o].phase \in {"leaving", "packing", "throwing"}
         /\ order'[o].phase = "answered"
         /\ order'[o].own = order[o].own /\ order'[o].parent = order[o].parent
         /\ UNCHANGED <<call, saved, signal, aborted, strays>>
<1> USE DEF TypeInv
<1>1. /\ thread = Nothing /\ ReleaseClaims(o)
      /\ IF order[o].phase = "leaving" THEN Unregister(o) ELSE UNCHANGED watch
      /\ order[o].phase \in {"leaving", "packing", "throwing"}
      /\ Moves(o, "answered", order[o].verdict, {})
      /\ thread' = CallOf[o]
      /\ UNCHANGED <<calls, aborted, strays>>
  BY DEF Settle, Awaits
<1>2. order[o].verdict \in {"passed", "bad", Nothing} BY DEF TypeOK, OrderStates
<1>3. /\ \A x \in Orders \ {o} : order'[x] = order[x]
      /\ order'[o].phase = "answered" /\ order'[o].held = {}
      /\ order'[o].own = order[o].own /\ order'[o].parent = order[o].parent
  BY <1>1, <1>2, MovesEffect DEF Phases
<1>4. ClaimMoves(o) BY <1>1, <1>3, ClaimEffects DEF ClaimMoves
<1>5. WatchMoves(o)
  BY <1>1, WatchEffects DEF WatchMoves, watch, Watched
<1> QED BY <1>1, <1>3, <1>4, <1>5 DEF Moved, calls

\* What the caller, the sweep, the user, shutdown and other processes do.
LEMMA OutsideEffect ==
  ASSUME TypeInv,
         \/ \E c \in Calls : CallerAborts(c)
         \/ SweepTick({}) \/ \E i \in live : SweepTick({i})
         \/ \E i \in Ids : Kill(i)
         \/ \E f \in Files : OtherClaims(f) \/ OtherReleases(f)
         \/ CoolDown \/ Shutdown \/ UNCHANGED vars
         \/ \E o \in Orders : StrayEnds(o)
  PROVE  Outside /\ UNCHANGED <<call, saved, signal>>
<1> USE DEF TypeInv
<1>1. ASSUME NEW S, Fires(S)
      PROVE  \A o \in Orders : /\ order'[o].phase = order[o].phase
                               /\ order'[o].parent = order[o].parent
                               /\ order'[o].held = order[o].held
                               /\ order'[o].verdict = order[o].verdict
                               /\ order[o].own => order'[o].own
  BY <1>1 DEF Fires, TypeOK, OrderStates
<1>2. ASSUME NEW I, SweepTick(I) PROVE Outside /\ UNCHANGED <<call, saved, signal>>
  BY <1>1, <1>2 DEF SweepTick, Outside, calls
<1>3. ASSUME NEW i \in Ids, Kill(i) PROVE Outside /\ UNCHANGED <<call, saved, signal>>
  BY <1>1, <1>3 DEF Kill, Outside, calls, watch
<1>4. ASSUME Shutdown PROVE Outside /\ UNCHANGED <<call, saved, signal>>
  BY <1>1, <1>4 DEF Shutdown, Outside, calls
<1>5. ASSUME NEW f \in Files, OtherClaims(f) \/ OtherReleases(f)
      PROVE  Outside /\ UNCHANGED <<call, saved, signal>>
  <2>1. \A g \in Files : claim'[g] = "us" <=> claim[g] = "us"
    BY <1>5, CoordinatorAssumption DEF OtherClaims, OtherReleases, TypeOK
  <2> QED BY <1>5, <2>1 DEF OtherClaims, OtherReleases, Outside, calls, watch
<1>6. ASSUME \/ CoolDown \/ UNCHANGED vars
             \/ \E c \in Calls : CallerAborts(c)
             \/ \E o \in Orders : StrayEnds(o)
      PROVE  Outside /\ UNCHANGED <<call, saved, signal>>
  BY <1>6 DEF CoolDown, CallerAborts, StrayEnds, vars, Outside, calls, watch
<1> QED BY <1>2, <1>3, <1>4, <1>5, <1>6

\* The kinds of step there are.
LEMMA StepKinds ==
  ASSUME TypeInv, ClaimInv, [Next]_vars
  PROVE  \/ \E c \in Calls : Open(c) \/ ProcessNext(c) \/ Close(c) \/ Deliver(c)
         \/ \E o \in Orders : Settle(o) \/ (Works(o) /\ WorkerMoves(o))
         \/ Outside /\ UNCHANGED <<call, saved, signal>>
<1>1. \/ \E c \in Calls : Open(c) \/ ProcessNext(c) \/ Close(c) \/ Deliver(c)
      \/ \E o \in Orders : Settle(o) \/ Works(o)
      \/ \E c \in Calls : CallerAborts(c)
      \/ SweepTick({}) \/ \E i \in live : SweepTick({i})
      \/ \E i \in Ids : Kill(i)
      \/ \E f \in Files : OtherClaims(f) \/ OtherReleases(f)
      \/ CoolDown \/ Shutdown \/ UNCHANGED vars
      \/ \E o \in Orders : StrayEnds(o)
  BY DEF Next, Progress, Advance, Works
<1> QED BY <1>1, OutsideEffect, WorksEffect

-----------------------------------------------------------------------------
(* A call that is over leaves nothing behind.                              *)

\* One order's move keeps the watch and the claims in order.
LEMMA MovedKeeps ==
  ASSUME TypeInv, TypeInv', WatchInv, ClaimInv, NEW o \in Orders, Moved(o)
  PROVE  WatchInv' /\ ClaimInv'
<1> USE DEF TypeInv
<1>0. Nothing \notin Orders /\ IdOf[o] \in Ids /\ Nothing # "us"
  BY QueueAssumption, CoordinatorAssumption
<1>1. \A x \in Orders \ {o} : order'[x] = order[x] BY DEF Moved
<1>2. ClaimInv'
  <2>1. ASSUME NEW f \in Files, claim'[f] = "us" PROVE \E p \in Orders : f \in order'[p].held
    BY <1>0, <1>1, <2>1 DEF Moved, ClaimMoves, ClaimInv
  <2>2. order'[o].held # {} => order'[o].phase \in Holding BY DEF Moved, ClaimMoves
  <2> QED BY <1>1, <2>1, <2>2 DEF ClaimInv
<1>3. ASSUME NEW i \in Ids, controllers'[i] # Nothing
      PROVE  IdOf[controllers'[i]] = i /\ order'[controllers'[i]].phase \in Watched
  <2>1. controllers[i] \in Orders \cup {Nothing} /\ controllers'[i] \in Orders \cup {Nothing}
    BY DEF TypeOK
  <2>2. CASE controllers'[i] = o /\ i = IdOf[o] /\ order'[o].phase \in Watched BY <2>2
  <2>3. CASE controllers'[i] = controllers[i] /\ i # IdOf[o]
    BY <1>1, <1>3, <2>1, <2>3 DEF WatchInv
  <2>4. CASE controllers'[i] = controllers[i] /\ order'[o].phase \in Watched
    BY <1>1, <1>3, <2>1, <2>4 DEF WatchInv
  <2>5. CASE controllers'[i] = controllers[i] /\ order[o].phase \notin Watched
    BY <1>1, <1>3, <2>1, <2>5 DEF WatchInv
  <2> QED BY <1>3, <2>2, <2>3, <2>4, <2>5 DEF Moved, WatchMoves
<1>4. ASSUME NEW i \in live' PROVE \E p \in Orders : IdOf[p] = i /\ order'[p].phase \in Watched
  <2>1. CASE i \in live /\ (i # IdOf[o] \/ order[o].phase \notin Watched)
    BY <1>1, <2>1 DEF WatchInv
  <2>2. CASE i \in live /\ order'[o].phase \in Watched BY <1>1, <2>2 DEF WatchInv
  <2>3. CASE i = IdOf[o] /\ order'[o].phase \in Watched BY <2>3
  <2> QED BY <1>4, <2>1, <2>2, <2>3 DEF Moved, WatchMoves
<1> QED BY <1>2, <1>3, <1>4 DEF WatchInv

\* The fields the queue's methods set, and those they leave.
LEMMA QueueFields ==
  ASSUME NEW q \in Queues, NEW o \in Orders
  PROVE  /\ MarkInFlight(Dequeued(q, o), o).entries = q.entries \ {o}
         /\ MarkInFlight(Dequeued(q, o), o).inFlight = q.inFlight \cup {o}
         /\ MarkInFlight(Dequeued(q, o), o).completed = q.completed
         /\ MarkInFlight(Dequeued(q, o), o).failed = q.failed
         /\ MarkCompleted(q, o).entries = q.entries
         /\ MarkCompleted(q, o).inFlight = q.inFlight \ {o}
         /\ MarkCompleted(q, o).completed = q.completed \cup {IdOf[o]}
         /\ MarkCompleted(q, o).failed = q.failed
         /\ MarkFailed(q, o).entries = q.entries
         /\ MarkFailed(q, o).inFlight = q.inFlight \ {o}
         /\ MarkFailed(q, o).completed = q.completed
         /\ MarkFailed(q, o).failed = q.failed \cup {IdOf[o]}
BY DEF Queues, Dequeued, MarkInFlight, MarkCompleted, MarkFailed

\* What Settle does to the queue of the order's call.
LEMMA SettleQueue ==
  ASSUME TypeInv, NEW o \in Orders, Settle(o)
  PROVE  /\ \A c \in Calls \ {CallOf[o]} : queue'[c] = queue[c]
         /\ queue'[CallOf[o]].entries = queue[CallOf[o]].entries
         /\ queue'[CallOf[o]].inFlight = queue[CallOf[o]].inFlight \ {o}
         /\ \/ /\ queue'[CallOf[o]].failed = queue[CallOf[o]].failed \cup {IdOf[o]}
               /\ queue'[CallOf[o]].completed = queue[CallOf[o]].completed
            \/ /\ queue'[CallOf[o]].failed = queue[CallOf[o]].failed
               /\ queue'[CallOf[o]].completed = queue[CallOf[o]].completed \cup {IdOf[o]}
<1>1. CallOf[o] \in Calls BY CoordinatorAssumption
<1>2. queue \in [Calls -> Queues] BY DEF TypeInv, TypeOK
<1>3. queue' = [queue EXCEPT ![CallOf[o]] =
                  IF order[o].phase = "throwing" THEN MarkFailed(queue[CallOf[o]], o)
                                                 ELSE MarkCompleted(queue[CallOf[o]], o)]
  BY <1>1, <1>2 DEF Settle
<1>4. queue'[CallOf[o]] \in {MarkFailed(queue[CallOf[o]], o), MarkCompleted(queue[CallOf[o]], o)}
  BY <1>1, <1>2, <1>3
<1> QED BY <1>1, <1>2, <1>3, <1>4, QueueFields

\* What Open does, order by order.
LEMMA OpenEffect ==
  ASSUME TypeInv, QueueInv, NEW c \in Calls, Open(c)
  PROVE  /\ Accepted(c) \subseteq Of(c) /\ Accepted(c) # {}
         /\ call[c] = "idle" /\ call' = [call EXCEPT ![c] = "open"]
         /\ \A d \in After[c] : call[d] = "over"
         /\ signal' = c /\ thread = Nothing /\ thread' = c
         /\ \A d \in Calls \ {c} : queue'[d] = queue[d]
         /\ queue'[c].entries = Accepted(c)
         /\ queue[c].inFlight = {} /\ queue'[c].inFlight = {}
         /\ queue'[c].completed = queue[c].completed /\ queue'[c].failed = queue[c].failed
         /\ \A o \in Orders : /\ order'[o].held = order[o].held
                              /\ order'[o].parent = order[o].parent
                              /\ order'[o].own = order[o].own
                              /\ o \notin Accepted(c) => order'[o] = order[o]
         /\ \A o \in Of(c) : order[o].phase = "absent"
         /\ \A o \in Accepted(c) : order'[o].phase = "queued" /\ CallOf[o] = c
         /\ UNCHANGED <<controllers, live, claim, aborted, strays>>
<1> USE DEF TypeInv
<1>1. Accepted(c) \subseteq Of(c) /\ Accepted(c) # {} BY DEF Open, Accepted, Enqueued
<1>2. /\ call[c] = "idle" /\ call' = [call EXCEPT ![c] = "open"]
      /\ \A d \in After[c] : call[d] = "over"
      /\ signal' = c /\ thread = Nothing /\ thread' = c
      /\ UNCHANGED <<controllers, live, claim, aborted, strays>>
      /\ queue' = [queue EXCEPT ![c].entries = Accepted(c)]
      /\ order' = [o \in Orders |-> IF o \in Accepted(c)
                                     THEN [order[o] EXCEPT !.phase = "queued"] ELSE order[o]]
  BY DEF Open, watch
<1>3. \A o \in Of(c) : order[o].phase = "absent" BY <1>2 DEF QueueInv
<1>4. queue[c].inFlight = {}
  BY <1>3 DEF QueueInv, Of, Taken
<1>5. queue[c] \in Queues BY DEF TypeOK
<1>6. /\ queue'[c].entries = Accepted(c) /\ queue'[c].inFlight = queue[c].inFlight
      /\ queue'[c].completed = queue[c].completed /\ queue'[c].failed = queue[c].failed
      /\ \A d \in Calls \ {c} : queue'[d] = queue[d]
  BY <1>2, <1>5 DEF TypeOK, Queues
<1>7. \A o \in Orders : /\ order'[o].held = order[o].held
                        /\ order'[o].parent = order[o].parent
                        /\ order'[o].own = order[o].own
                        /\ o \notin Accepted(c) => order'[o] = order[o]
                        /\ o \in Accepted(c) => order'[o].phase = "queued"
  BY <1>2 DEF TypeOK, OrderStates
<1> QED BY <1>1, <1>2, <1>3, <1>4, <1>6, <1>7 DEF Of

\* What Close does, order by order.
LEMMA CloseEffect ==
  ASSUME TypeInv, QueueInv, NEW c \in Calls, Close(c)
  PROVE  /\ call[c] = "open" /\ call' = [call EXCEPT ![c] = "closing"]
         /\ thread = Nothing /\ thread' = Nothing
         /\ \A d \in Calls \ {c} : queue'[d] = queue[d]
         /\ queue[c].inFlight = {} /\ queue'[c].inFlight = {}
         /\ queue'[c].entries = queue[c].entries /\ queue'[c].completed = queue[c].completed
         /\ queue'[c].failed = queue[c].failed \cup {IdOf[o] : o \in queue[c].entries}
         /\ \A o \in Orders : /\ order'[o].held = order[o].held
                              /\ order'[o].parent = order[o].parent
                              /\ order'[o].own = order[o].own
                              /\ o \notin queue[c].entries => order'[o] = order[o]
         /\ \A o \in queue[c].entries : /\ order[o].phase = "queued"
                                        /\ order'[o].phase = "answered"
                                        /\ CallOf[o] = c /\ o \in Orders
         /\ UNCHANGED <<saved, signal, controllers, live, claim, aborted, strays>>
<1> USE DEF TypeInv
<1> DEFINE ids == {IdOf[o] : o \in queue[c].entries}
<1>1. /\ call[c] = "open" /\ call' = [call EXCEPT ![c] = "closing"]
      /\ thread = Nothing /\ thread' = Nothing
      /\ queue[c].inFlight = {}
      /\ UNCHANGED <<saved, signal, controllers, live, claim, aborted, strays>>
      /\ queue' = [queue EXCEPT ![c].failed = @ \cup ids]
      /\ order' = [o \in Orders |-> IF o \in queue[c].entries
                     THEN [order[o] EXCEPT !.phase = "answered", !.verdict = "bad"]
                     ELSE order[o]]
  BY DEF Close, watch
<1>2. \A o \in queue[c].entries : o \in Orders /\ CallOf[o] = c /\ order[o].phase = "queued"
  <2>1. \A o \in queue[c].entries : o \in Orders /\ CallOf[o] = c BY DEF QueueInv, Of
  <2>2. call[c] = "open" BY <1>1
  <2> QED BY <2>1, <2>2 DEF QueueInv
<1>3. queue[c] \in Queues BY DEF TypeOK
<1> HIDE DEF ids
<1>4. /\ queue'[c].entries = queue[c].entries /\ queue'[c].inFlight = queue[c].inFlight
      /\ queue'[c].completed = queue[c].completed /\ queue'[c].failed = queue[c].failed \cup ids
      /\ \A d \in Calls \ {c} : queue'[d] = queue[d]
  BY <1>1, <1>3 DEF TypeOK, Queues
<1>5. \A o \in Orders : /\ order'[o].held = order[o].held
                        /\ order'[o].parent = order[o].parent
                        /\ order'[o].own = order[o].own
                        /\ o \notin queue[c].entries => order'[o] = order[o]
                        /\ o \in queue[c].entries => order'[o].phase = "answered"
  BY <1>1 DEF TypeOK, OrderStates
<1> QED BY <1>1, <1>2, <1>4, <1>5 DEF ids

\* The inductive invariant behind what the calls leave behind.
CoreInv == TypeInv /\ QueueInv /\ WatchInv /\ ClaimInv

\* The core holds at the start.
LEMMA CoreInit == Init => CoreInv
<1> SUFFICES ASSUME Init PROVE CoreInv OBVIOUS
<1>1. TypeInv BY TypeInit
<1>2. \A o \in Orders : order[o].phase = "absent" /\ order[o].held = {}
  BY DEF Init, NewOrder
<1>3. \A c \in Calls : /\ queue[c].entries = {} /\ queue[c].inFlight = {}
                       /\ call[c] = "idle"
  BY DEF Init, EmptyQueue
<1>4. /\ \A i \in Ids : controllers[i] = Nothing
      /\ live = {} /\ \A f \in Files : claim[f] # "us"
      /\ thread \notin Calls /\ \A o \in Orders : CallOf[o] \in Calls
  BY CoordinatorAssumption DEF Init
<1> QED BY <1>1, <1>2, <1>3, <1>4 DEF CoreInv, QueueInv, WatchInv, ClaimInv, Taken, Of

\* The queues follow the orders.
LEMMA QueueStep == CoreInv /\ [Next]_vars => QueueInv'
<1> SUFFICES ASSUME CoreInv, [Next]_vars PROVE QueueInv' OBVIOUS
<1>0. /\ TypeInv /\ QueueInv /\ ClaimInv BY DEF CoreInv
<1>1. /\ Nothing \notin Calls \cup Orders /\ \A o \in Orders : CallOf[o] \in Calls
      /\ \A c \in Calls : Of(c)' = Of(c)
  BY CoordinatorAssumption DEF Of
<1>2. ASSUME NEW c \in Calls, Open(c) PROVE QueueInv'
  BY <1>0, <1>1, <1>2, OpenEffect DEF QueueInv, Taken, Of, TypeInv, TypeOK
<1>3. ASSUME NEW c \in Calls, ProcessNext(c) PROVE QueueInv'
  <2>1. CASE Runnable(queue[c]) = {}
    BY <1>0, <1>1, <1>3, <2>1 DEF ProcessNext, QueueInv, calls
  <2>2. CASE Runnable(queue[c]) # {}
    <3>1. PICK o \in Of(c) :
           /\ o \in queue[c].entries
           /\ queue' = [queue EXCEPT ![c] = MarkInFlight(Dequeued(queue[c], o), o)]
           /\ Moved(o)
           /\ order[o].phase = "queued"
           /\ order'[o].phase \in {"packing", "throwing", "working", "leaving"}
           /\ UNCHANGED call
      BY <1>0, <1>3, <2>2, DispatchMoves
    <3>2. thread = c /\ thread' \in {c, Nothing} BY <1>3 DEF ProcessNext
    <3>3. /\ \A d \in Calls \ {c} : queue'[d] = queue[d]
          /\ queue'[c].entries = queue[c].entries \ {o}
          /\ queue'[c].inFlight = queue[c].inFlight \cup {o}
      BY <1>0, <3>1, QueueFields DEF TypeInv, TypeOK, Of
    <3>4. \A x \in Orders \ {o} : order'[x] = order[x] BY <3>1 DEF Moved
    <3> QED BY <1>0, <1>1, <3>1, <3>2, <3>3, <3>4 DEF QueueInv, Taken, Of
  <2> QED BY <2>1, <2>2
<1>4. ASSUME NEW o \in Orders, Settle(o) PROVE QueueInv'
  <2>1. \A x \in Orders \ {o} : order'[x] = order[x] BY <1>0, <1>4, SettleMoves DEF Moved
  <2> QED BY <1>0, <1>1, <1>4, <2>1, SettleMoves, SettleQueue DEF QueueInv, Taken, Of
<1>5. ASSUME NEW c \in Calls, Close(c) PROVE QueueInv'
  BY <1>0, <1>1, <1>5, CloseEffect DEF QueueInv, Taken, Of, TypeInv, TypeOK
<1>6. ASSUME NEW c \in Calls, Deliver(c) PROVE QueueInv'
  BY <1>0, <1>1, <1>6 DEF Deliver, QueueInv, Taken, Of, TypeInv, TypeOK
<1>7. ASSUME NEW o \in Orders, WorkerMoves(o) PROVE QueueInv'
  BY <1>0, <1>1, <1>7 DEF WorkerMoves, Moved, QueueInv, Taken, Of
<1>8. ASSUME Outside, UNCHANGED call PROVE QueueInv'
  BY <1>0, <1>1, <1>8 DEF Outside, QueueInv, Of
<1> QED BY <1>0, <1>2, <1>3, <1>4, <1>5, <1>6, <1>7, <1>8, StepKinds

\* Every step keeps the core.
LEMMA CoreStep == CoreInv /\ [Next]_vars => CoreInv'
<1> SUFFICES ASSUME CoreInv, [Next]_vars PROVE CoreInv' OBVIOUS
<1>0. TypeInv /\ QueueInv /\ WatchInv /\ ClaimInv BY DEF CoreInv
<1>1. TypeInv' /\ QueueInv' BY <1>0, TypeStep, QueueStep
<1>2. Nothing \notin Orders BY CoordinatorAssumption
<1>3. ASSUME NEW c \in Calls, Open(c) PROVE WatchInv' /\ ClaimInv'
  <2>1. \A o \in Accepted(c) : order[o].phase = "absent" /\ order[o].held = {}
    BY <1>0, <1>3, OpenEffect DEF ClaimInv, Holding, Of
  <2>2. \A o \in Orders : order[o].phase \in Watched \cup Holding => order'[o] = order[o]
    BY <1>0, <1>3, <2>1, OpenEffect DEF Watched, Holding
  <2>3. UNCHANGED <<controllers, live, claim>>
        /\ \A o \in Orders : order'[o].held = order[o].held
    BY <1>0, <1>3, OpenEffect
  <2> QED BY <1>0, <1>2, <2>2, <2>3 DEF WatchInv, ClaimInv, TypeInv, TypeOK
<1>4. ASSUME NEW c \in Calls, ProcessNext(c) PROVE WatchInv' /\ ClaimInv'
  <2>1. CASE Runnable(queue[c]) = {}
    BY <1>0, <1>4, <2>1 DEF ProcessNext, WatchInv, ClaimInv, watch
  <2>2. CASE Runnable(queue[c]) # {}
    BY <1>0, <1>1, <1>4, <2>2, DispatchMoves, MovedKeeps DEF Of
  <2> QED BY <2>1, <2>2
<1>5. ASSUME NEW o \in Orders, Settle(o) \/ WorkerMoves(o) PROVE WatchInv' /\ ClaimInv'
  BY <1>0, <1>1, <1>5, SettleMoves, MovedKeeps DEF WorkerMoves
<1>6. ASSUME NEW c \in Calls, Close(c) PROVE WatchInv' /\ ClaimInv'
  <2>1. \A o \in Orders : order[o].phase \in Watched \cup Holding => order'[o] = order[o]
    BY <1>0, <1>6, CloseEffect DEF Watched, Holding
  <2>2. UNCHANGED <<controllers, live, claim>>
        /\ \A o \in Orders : order'[o].held = order[o].held
    BY <1>0, <1>6, CloseEffect
  <2> QED BY <1>0, <1>2, <2>1, <2>2 DEF WatchInv, ClaimInv, TypeInv, TypeOK
<1>7. ASSUME NEW c \in Calls, Deliver(c) PROVE WatchInv' /\ ClaimInv'
  BY <1>0, <1>7 DEF Deliver, WatchInv, ClaimInv, watch
<1>8. ASSUME Outside PROVE WatchInv' /\ ClaimInv'
  BY <1>0, <1>2, <1>8 DEF Outside, WatchInv, ClaimInv, TypeInv, TypeOK
<1> QED BY <1>0, <1>1, <1>3, <1>4, <1>5, <1>6, <1>7, <1>8, StepKinds DEF CoreInv

(* Whatever the batches went through - retries, upgrades, conflicts, the stall
   sweep, kills, shutdown, other processes - the registry of controllers, the
   liveness clock and the session's claims are empty when no call is under way. *)
THEOREM LeavesNothingBehind == Spec => []NothingLeftBehind
<1>1. CoreInv => NothingLeftBehind
  <2> SUFFICES ASSUME CoreInv, \A c \in Calls : call[c] \in {"idle", "over"}
               PROVE  /\ \A i \in Ids : controllers[i] = Nothing
                      /\ live = {}
                      /\ \A f \in Files : claim[f] # "us"
    BY DEF NothingLeftBehind
  <2>1. \A o \in Orders : order[o].phase \notin Taken
    BY CoordinatorAssumption DEF CoreInv, QueueInv
  <2> QED BY <2>1 DEF CoreInv, TypeInv, TypeOK, WatchInv, ClaimInv, Taken, Watched, Holding
<1> QED BY <1>1, CoreInit, CoreStep, PTL DEF Spec

-----------------------------------------------------------------------------
(* Claims, and the caller's abort.                                         *)

\* The calls run one after the other.  HeldIsClaimed and NoStartAfterAbort are
\* about such calls: claims and config.abortSignal are the session's, and two
\* calls that overlap share them.
Sequential == \A c, d \in Calls : c = d \/ c \in After[d] \/ d \in After[c]

\* Orders in flight in one call have no file in common, and claim only files of
\* their own scope.
ScopeInv ==
  /\ \A o \in Orders : order[o].held \subseteq Wanted(o)
  /\ \A o, p \in Orders : /\ order[o].phase \in Taken /\ order[p].phase \in Taken
                          /\ CallOf[o] = CallOf[p] /\ o # p
                          => ScopeOf[o] \cap ScopeOf[p] = {}

\* What an order holds is claimed for the session.
OursInv == \A o \in Orders : \A f \in order[o].held : claim[f] = "us"

\* A worker has the whole scope of its order claimed; and one that nobody waits
\* for has been told to stop, for good.
WorkInv ==
  /\ \A o \in Orders :
       order[o].phase \in {"working", "retrying", "upgrading"} => order[o].held = Wanted(o)
  /\ \A o \in strays : Fired(o) /\ order[o].phase \notin {"absent", "queued"}

\* The abort signal in the config is that of the one call under way, and the
\* signal every watched order listens to.
SignalInv ==
  /\ \A c \in Calls : call[c] # "idle" => \A d \in After[c] : call[d] = "over"
  /\ \A c \in Calls : call[c] \in {"open", "closing"} => signal = c
  /\ \A o \in Orders : order[o].phase \in Watched => order[o].parent = CallOf[o]

\* The file conflict check of the queue keeps the scopes in flight apart.
LEMMA ScopeStep == CoreInv /\ ScopeInv /\ [Next]_vars => ScopeInv'
<1> SUFFICES ASSUME CoreInv, ScopeInv, [Next]_vars PROVE ScopeInv' OBVIOUS
<1>0. TypeInv /\ QueueInv /\ ClaimInv BY DEF CoreInv
<1>1. \A o \in Orders : Wanted(o)' = Wanted(o) /\ Granted(o) \subseteq Wanted(o)
  BY DEF Wanted, Granted
<1>2. ASSUME NEW o \in Orders, Moved(o), order'[o].phase \notin Taken \/ order[o].phase \in Taken
      PROVE  ScopeInv'
  <2>1. \A x \in Orders \ {o} : order'[x] = order[x] BY <1>2 DEF Moved
  <2>2. order'[o].held \subseteq Wanted(o) BY <1>1, <1>2 DEF Moved, ClaimMoves, ScopeInv
  <2> QED BY <1>1, <1>2, <2>1, <2>2 DEF ScopeInv
<1>3. ASSUME \A o \in Orders : /\ order'[o].held = order[o].held
                               /\ order'[o].phase \notin Taken \/ order[o].phase \in Taken
      PROVE  ScopeInv'
  BY <1>1, <1>3 DEF ScopeInv
<1>4. ASSUME NEW c \in Calls, Open(c) PROVE ScopeInv'
  <2>1. \A o \in Orders : /\ order'[o].held = order[o].held
                          /\ order'[o].phase = "queued" \/ order'[o] = order[o]
    BY <1>0, <1>4, OpenEffect
  <2> QED BY <1>3, <2>1 DEF Taken
<1>5. ASSUME NEW c \in Calls, ProcessNext(c) PROVE ScopeInv'
  <2>1. CASE Runnable(queue[c]) = {}
    BY <1>3, <1>5, <2>1 DEF ProcessNext
  <2>2. CASE Runnable(queue[c]) # {}
    <3>1. PICK o \in Of(c) : CanRun(queue[c], o) /\ Moved(o)
      BY <1>0, <1>5, <2>2, DispatchMoves
    <3>2. o \in Orders /\ CallOf[o] = c /\ \A x \in Orders \ {o} : order'[x] = order[x]
      BY <3>1 DEF Moved, Of
    <3>3. order'[o].held \subseteq Wanted(o) BY <1>1, <3>1, <3>2 DEF Moved, ClaimMoves, ScopeInv
    <3>4. \A p \in Orders : order[p].phase \in Taken /\ CallOf[p] = c => p \in queue[c].inFlight
      BY <1>0 DEF QueueInv
    <3>5. \A p \in Orders : order[p].phase \in Taken /\ CallOf[p] = c /\ p # o
                            => ScopeOf[p] \cap ScopeOf[o] = {}
      BY <3>1, <3>4 DEF CanRun, HasFileConflict
    <3> QED BY <1>1, <3>2, <3>3, <3>5 DEF ScopeInv
  <2> QED BY <2>1, <2>2
<1>6. ASSUME NEW o \in Orders, Settle(o) \/ WorkerMoves(o) PROVE ScopeInv'
  BY <1>0, <1>2, <1>6, SettleMoves DEF WorkerMoves, Taken
<1>7. ASSUME NEW c \in Calls, Close(c) PROVE ScopeInv'
  <2>1. \A o \in Orders : /\ order'[o].held = order[o].held
                          /\ order'[o].phase = "answered" \/ order'[o] = order[o]
    BY <1>0, <1>7, CloseEffect
  <2> QED BY <1>3, <2>1 DEF Taken
<1>8. ASSUME NEW c \in Calls, Deliver(c) PROVE ScopeInv'
  BY <1>3, <1>8 DEF Deliver
<1>9. ASSUME Outside PROVE ScopeInv' BY <1>3, <1>9 DEF Outside
<1> QED BY <1>0, <1>4, <1>5, <1>6, <1>7, <1>8, <1>9, StepKinds

\* No step of a worker starts it with part of its files, or leaves one running
\* that was not told to stop.
LEMMA WorksKeep ==
  ASSUME TypeInv, NEW o \in Orders, Works(o)
  PROVE  /\ order'[o].own = order[o].own /\ order'[o].parent = order[o].parent
         /\ order'[o].phase \in {"working", "retrying", "upgrading"} => order'[o].held = Wanted(o)
         /\ UNCHANGED aborted
         /\ \A x \in strays' : x \in strays \/ (x = o /\ Fired(o))
<1> USE DEF TypeInv
<1> DEFINE Same == order'[o].own = order[o].own /\ order'[o].parent = order[o].parent
           Whole == order'[o].phase \in {"working", "retrying", "upgrading"} =>
                      order'[o].held = Wanted(o)
<1>1. ASSUME NEW p \in Phases, NEW v \in {"passed", "bad", Nothing}, NEW H \in SUBSET Files,
             Moves(o, p, v, H), p \in {"working", "retrying", "upgrading"} => H = Wanted(o)
      PROVE  Same /\ Whole
  BY <1>1, MovesEffect
<1>2. /\ order[o].verdict \in {"passed", "bad", Nothing} /\ Granted(o) \in SUBSET Files
      /\ {"deciding", "leaving", "packing", "expanding", "throwing", "backoff",
           "retrying", "upgrading"} \subseteq Phases
      /\ Verdicts \subseteq {"passed", "bad", Nothing}
  BY ClaimTypes DEF TypeOK, OrderStates, Phases, Verdicts
<1>3. ASSUME NEW v \in {"passed", "bad", Nothing}, Keep(o, v) PROVE Same /\ Whole
  <2>1. PICK p \in {"packing", "expanding"} : Moves(o, p, v, {}) BY <1>3 DEF Keep
  <2> QED BY <1>1, <1>2, <2>1
<1>4. ASSUME NEW v \in Verdicts, Return(o, v) \/ ReturnRetry(o, v)
      PROVE  Same /\ Whole /\ UNCHANGED <<aborted, strays>>
  <2>1. /\ Keep(o, v) \/ Moves(o, "deciding", v, {})
        /\ UNCHANGED <<aborted, strays>>
    BY <1>4 DEF Return, ReturnRetry, ToDecide
  <2> QED BY <1>1, <1>2, <1>3, <2>1
<1>5. ASSUME ThrowAndRetry(o) PROVE Same /\ Whole /\ UNCHANGED <<aborted, strays>>
  BY <1>5 DEF ThrowAndRetry, TypeOK, OrderStates
<1>6. ASSUME Fail(o) \/ FailUpgrade(o)
      PROVE  /\ Same /\ Whole /\ UNCHANGED aborted
             /\ \A x \in strays' : x \in strays \/ (x = o /\ Fired(o))
  <2>1. /\ Moves(o, "leaving", "bad", {}) \/ Moves(o, "deciding", Nothing, {})
        /\ UNCHANGED aborted /\ Abandons(o)
    BY <1>6 DEF Fail, FailUpgrade, ToDecide
  <2> QED BY <1>1, <1>2, <2>1 DEF Abandons
<1>7. ASSUME EndExpansion(o) \/ CutBackoff(o)
      PROVE  Same /\ Whole /\ UNCHANGED <<aborted, strays>>
  <2>1. /\ Moves(o, "packing", order[o].verdict, {}) \/ Moves(o, "deciding", Nothing, {})
        /\ UNCHANGED <<aborted, strays>>
    BY <1>7 DEF EndExpansion, CutBackoff, ToDecide
  <2> QED BY <1>1, <1>2, <2>1
<1>8. ASSUME EndBackoff(o) PROVE Same /\ Whole /\ UNCHANGED <<aborted, strays>>
  <2>1. /\ \/ Moves(o, "deciding", Nothing, {})
           \/ Moves(o, "retrying", Nothing, Granted(o)) /\ Granted(o) = Wanted(o)
        /\ UNCHANGED <<aborted, strays>>
    BY <1>8 DEF EndBackoff, ToDecide, ClaimsConflict
  <2> QED BY <1>1, <1>2, <2>1
<1>9. ASSUME Decide(o) PROVE Same /\ Whole /\ UNCHANGED <<aborted, strays>>
  <2>1. /\ \/ Moves(o, "leaving", "bad", {})
           \/ Moves(o, "throwing", "bad", {})
           \/ Moves(o, "upgrading", order[o].verdict, Granted(o)) /\ Granted(o) = Wanted(o)
           \/ Keep(o, order[o].verdict)
        /\ UNCHANGED <<aborted, strays>>
    BY <1>9 DEF Decide, Upgrade, ThrowInUpgrade, ClaimsConflict
  <2> QED BY <1>1, <1>2, <1>3, <2>1
<1> QED BY <1>4, <1>5, <1>6, <1>7, <1>8, <1>9 DEF Works, EndRun

\* Nor does any other step.
LEMMA WorkStep == CoreInv /\ WorkInv /\ [Next]_vars => WorkInv'
<1> SUFFICES ASSUME CoreInv, WorkInv, [Next]_vars PROVE WorkInv' OBVIOUS
<1>0. /\ TypeInv /\ QueueInv /\ ClaimInv /\ strays \subseteq Orders
      /\ \A o \in Orders : Wanted(o)' = Wanted(o)
  BY QueueAssumption DEF CoreInv, TypeInv, TypeOK, Wanted
<1>1. ASSUME NEW o \in Orders, \A x \in Orders \ {o} : order'[x] = order[x],
             order'[o].phase \in {"working", "retrying", "upgrading"} => order'[o].held = Wanted(o),
             UNCHANGED aborted,
             \/ /\ order'[o].own = order[o].own /\ order'[o].parent = order[o].parent
                /\ order[o].phase \in Taken /\ order'[o].phase \notin {"absent", "queued"}
                /\ \A x \in strays' : x \in strays \/ (x = o /\ Fired(o))
             \/ order[o].phase = "queued" /\ UNCHANGED strays
      PROVE  WorkInv'
  BY <1>0, <1>1 DEF WorkInv, Fired
<1>2. ASSUME \A o \in Orders :
               /\ order'[o].held = order[o].held /\ order'[o].parent = order[o].parent
               /\ order[o].own => order'[o].own
               /\ \/ order'[o].phase = order[o].phase
                  \/ order'[o].phase = "queued" /\ order[o].phase = "absent"
                  \/ order'[o].phase = "answered",
             aborted \subseteq aborted', strays' \subseteq strays
      PROVE  WorkInv'
  <2>1. \A o \in Orders : Fired(o) => Fired(o)' BY <1>2 DEF Fired
  <2> QED BY <1>0, <1>2, <2>1 DEF WorkInv
<1>3. ASSUME NEW c \in Calls, Open(c) PROVE WorkInv'
  BY <1>0, <1>2, <1>3, OpenEffect
<1>4. ASSUME NEW c \in Calls, ProcessNext(c) PROVE WorkInv'
  <2>1. CASE Runnable(queue[c]) = {} BY <1>2, <1>4, <2>1 DEF ProcessNext
  <2>2. CASE Runnable(queue[c]) # {}
    <3>1. PICK o \in Of(c) :
            /\ Moved(o) /\ order[o].phase = "queued"
            /\ order'[o].phase \in {"packing", "throwing", "working", "leaving"}
            /\ order'[o].phase = "working" => order'[o].held = Wanted(o)
            /\ UNCHANGED <<aborted, strays>>
      BY <1>0, <1>4, <2>2, DispatchMoves
    <3> QED BY <1>1, <3>1 DEF Moved, Of
  <2> QED BY <2>1, <2>2
<1>5. ASSUME NEW o \in Orders, Settle(o) PROVE WorkInv'
  <2>1. /\ Moved(o) /\ order[o].phase \in {"leaving", "packing", "throwing"}
        /\ order'[o].phase = "answered"
        /\ order'[o].own = order[o].own /\ order'[o].parent = order[o].parent
        /\ UNCHANGED <<aborted, strays>>
    BY <1>0, <1>5, SettleMoves
  <2> QED BY <1>1, <2>1 DEF Moved, Taken
<1>6. ASSUME NEW o \in Orders, Works(o), WorkerMoves(o) PROVE WorkInv'
  <2>1. /\ Moved(o) /\ order[o].phase \in Taken
        /\ order'[o].phase \notin {"absent", "queued"}
    BY <1>6 DEF WorkerMoves, Taken
  <2> QED BY <1>0, <1>1, <1>6, <2>1, WorksKeep DEF Moved
<1>7. ASSUME NEW c \in Calls, Close(c) PROVE WorkInv'
  BY <1>0, <1>2, <1>7, CloseEffect
<1>8. ASSUME NEW c \in Calls, Deliver(c) PROVE WorkInv'
  BY <1>2, <1>8 DEF Deliver
<1>9. ASSUME Outside PROVE WorkInv' BY <1>2, <1>9 DEF Outside
<1> QED BY <1>0, <1>3, <1>4, <1>5, <1>6, <1>7, <1>8, <1>9, StepKinds

\* One call at a time, and its signal.
LEMMA SignalStep ==
  ASSUME Sequential, CoreInv, SignalInv, [Next]_vars
  PROVE  SignalInv'
<1>0. TypeInv /\ QueueInv /\ ClaimInv BY DEF CoreInv
<1>1. call \in [Calls -> {"idle", "open", "closing", "over"}] /\ After \in [Calls -> SUBSET Calls]
  BY <1>0, CoordinatorAssumption DEF TypeInv, TypeOK
<1>2. \A c, d \in Calls : call[c] \in {"open", "closing"} /\ call[d] \in {"open", "closing"} => c = d
  BY DEF Sequential, SignalInv
<1>3. ASSUME NEW c \in Calls, Open(c) PROVE SignalInv'
  <2>1. /\ call[c] = "idle" /\ call' = [call EXCEPT ![c] = "open"] /\ signal' = c
        /\ \A d \in After[c] : call[d] = "over"
    BY <1>0, <1>3, OpenEffect
  <2>2. \A d \in Calls : call[d] \notin {"open", "closing"}
    BY <2>1 DEF Sequential, SignalInv
  <2>3. \A o \in Orders : order'[o].phase \in Watched =>
          order[o].phase \in Watched /\ order'[o].parent = order[o].parent
    <3>1. \A o \in Orders : /\ order'[o].parent = order[o].parent
                            /\ order'[o].phase = "queued" \/ order'[o] = order[o]
      BY <1>0, <1>3, OpenEffect
    <3> QED BY <3>1 DEF Watched
  <2>4. \A d \in Calls : call'[d] # "idle" => \A e \in After[d] : call'[e] = "over"
    <3> SUFFICES ASSUME NEW d \in Calls, call'[d] # "idle", NEW e \in After[d]
                 PROVE  call'[e] = "over"
      OBVIOUS
    <3>1. call[e] = "over" /\ e \in Calls BY <1>1, <2>1 DEF SignalInv
    <3> QED BY <1>1, <2>1, <3>1
  <2>5. \A d \in Calls : call'[d] \in {"open", "closing"} => signal' = d
    BY <1>1, <2>1, <2>2
  <2> QED BY <2>3, <2>4, <2>5 DEF SignalInv
<1>4. ASSUME NEW c \in Calls, ProcessNext(c) PROVE SignalInv'
  <2>1. CASE Runnable(queue[c]) = {}
    BY <1>4, <2>1 DEF ProcessNext, SignalInv, calls
  <2>2. CASE Runnable(queue[c]) # {}
    <3>1. PICK o \in Of(c) : /\ Moved(o)
                             /\ order'[o].phase \in Watched => order'[o].parent = signal
                             /\ UNCHANGED <<call, signal>>
      BY <1>0, <1>4, <2>2, DispatchMoves
    <3>2. thread = c BY <1>4 DEF ProcessNext
    <3>3. call[c] = "open" BY <1>0, <3>2 DEF QueueInv
    <3>4. signal = c BY <3>3 DEF SignalInv
    <3>5. CallOf[o] = c /\ \A x \in Orders \ {o} : order'[x] = order[x] BY <3>1 DEF Moved, Of
    <3> QED BY <3>1, <3>4, <3>5 DEF SignalInv
  <2> QED BY <2>1, <2>2
<1>5. ASSUME NEW o \in Orders, Settle(o) PROVE SignalInv'
  BY <1>0, <1>5, SettleMoves DEF Moved, SignalInv, Watched
<1>6. ASSUME NEW o \in Orders, WorkerMoves(o) PROVE SignalInv'
  BY <1>6 DEF WorkerMoves, Moved, SignalInv
<1>7. ASSUME NEW c \in Calls, Close(c) PROVE SignalInv'
  <2>1. /\ call[c] = "open" /\ call' = [call EXCEPT ![c] = "closing"] /\ signal' = signal
        /\ \A o \in Orders : /\ order'[o].parent = order[o].parent
                             /\ order'[o].phase = "answered" \/ order'[o] = order[o]
    BY <1>0, <1>7, CloseEffect
  <2>2. \A d \in Calls : call'[d] # "idle" => \A e \in After[d] : call'[e] = "over"
    <3> SUFFICES ASSUME NEW d \in Calls, call'[d] # "idle", NEW e \in After[d]
                 PROVE  call'[e] = "over"
      OBVIOUS
    <3>1. call[d] # "idle" BY <1>1, <2>1
    <3>2. call[e] = "over" /\ e \in Calls BY <1>1, <3>1 DEF SignalInv
    <3> QED BY <1>1, <2>1, <3>2
  <2>3. \A d \in Calls : call'[d] \in {"open", "closing"} => signal' = d
    BY <1>1, <2>1 DEF SignalInv
  <2>4. \A o \in Orders : order'[o].phase \in Watched => order'[o].parent = CallOf[o]
    BY <2>1 DEF SignalInv, Watched
  <2> QED BY <2>2, <2>3, <2>4 DEF SignalInv
<1>8. ASSUME NEW c \in Calls, Deliver(c) PROVE SignalInv'
  <2>1. call[c] = "closing" /\ call' = [call EXCEPT ![c] = "over"] /\ UNCHANGED order
    BY <1>8 DEF Deliver
  <2>2. \A d \in Calls : call'[d] # "idle" => \A e \in After[d] : call'[e] = "over"
    <3> SUFFICES ASSUME NEW d \in Calls, call'[d] # "idle", NEW e \in After[d]
                 PROVE  call'[e] = "over"
      OBVIOUS
    <3>1. call[d] # "idle" BY <1>1, <2>1
    <3>2. call[e] = "over" /\ e \in Calls BY <1>1, <3>1 DEF SignalInv
    <3> QED BY <1>1, <2>1, <3>2
  <2>3. \A d \in Calls : call'[d] \notin {"open", "closing"}
    BY <1>1, <1>2, <2>1
  <2> QED BY <2>1, <2>2, <2>3 DEF SignalInv
<1>9. ASSUME Outside, UNCHANGED <<call, signal>> PROVE SignalInv'
  BY <1>9 DEF Outside, SignalInv
<1> QED BY <1>0, <1>3, <1>4, <1>5, <1>6, <1>7, <1>8, <1>9, StepKinds

\* No order's move takes a claim away from another order that holds it.
LEMMA OursStep ==
  ASSUME Sequential, CoreInv, SignalInv, ScopeInv, OursInv, [Next]_vars
  PROVE  OursInv'
<1>0. /\ TypeInv /\ QueueInv /\ ClaimInv
      /\ \A o \in Orders : order[o].held \subseteq Files /\ CallOf[o] \in Calls
      /\ Holding \subseteq Taken /\ Nothing # "us"
  BY CoordinatorAssumption DEF CoreInv, TypeInv, TypeOK, OrderStates, Holding, Taken
<1>1. \A o, p \in Orders : order[o].phase \in Taken /\ order[p].phase \in Taken
                           => CallOf[o] = CallOf[p]
  BY <1>0 DEF QueueInv, Sequential, SignalInv
<1>2. \A o, p \in Orders : \A f \in order[p].held :
        order[o].phase \in Taken /\ o # p => f \notin Wanted(o)
  BY <1>0, <1>1 DEF ScopeInv, ClaimInv, Wanted
<1>3. ASSUME NEW o \in Orders, Moved(o) PROVE OursInv'
  <2>1. \A x \in Orders \ {o} : order'[x] = order[x] BY <1>3 DEF Moved
  <2>2. ASSUME NEW p \in Orders \ {o}, NEW f \in order[p].held PROVE claim'[f] = "us"
    <3>1. claim[f] = "us" /\ f \in Files BY <1>0 DEF OursInv
    <3>2. f \in order[o].held => order[o].phase \in Taken /\ f \in Wanted(o)
      BY <1>0 DEF ClaimInv, ScopeInv
    <3>3. f \notin order[o].held BY <1>2, <3>2
    <3>4. order[o].phase \in Taken => f \notin Granted(o) BY <1>2 DEF Granted
    <3> QED BY <1>3, <3>1, <3>3, <3>4 DEF Moved, ClaimMoves
  <2>3. ASSUME NEW f \in order'[o].held PROVE claim'[f] = "us"
    <3>1. Granted(o) \subseteq Files BY <1>0, ClaimTypes DEF TypeInv
    <3> QED BY <1>3, <2>3, <3>1 DEF Moved, ClaimMoves
  <2> QED BY <2>1, <2>2, <2>3 DEF OursInv
<1>4. ASSUME \A o \in Orders : order'[o].held = order[o].held,
             \A f \in Files : claim'[f] = "us" <=> claim[f] = "us"
      PROVE  OursInv'
  BY <1>0, <1>4 DEF OursInv
<1>5. ASSUME NEW c \in Calls, Open(c) \/ Close(c) PROVE OursInv'
  BY <1>0, <1>4, <1>5, OpenEffect, CloseEffect
<1>6. ASSUME NEW c \in Calls, ProcessNext(c) PROVE OursInv'
  <2>1. CASE Runnable(queue[c]) = {}
    BY <1>4, <1>6, <2>1 DEF ProcessNext
  <2>2. CASE Runnable(queue[c]) # {}
    BY <1>0, <1>3, <1>6, <2>2, DispatchMoves DEF Of
  <2> QED BY <2>1, <2>2
<1>7. ASSUME NEW o \in Orders, Settle(o) \/ WorkerMoves(o) PROVE OursInv'
  BY <1>0, <1>3, <1>7, SettleMoves DEF WorkerMoves
<1>8. ASSUME NEW c \in Calls, Deliver(c) PROVE OursInv'
  BY <1>4, <1>8 DEF Deliver
<1>9. ASSUME Outside PROVE OursInv' BY <1>4, <1>9 DEF Outside
<1> QED BY <1>0, <1>5, <1>6, <1>7, <1>8, <1>9, StepKinds

SeqInv == CoreInv /\ ScopeInv /\ SignalInv /\ OursInv /\ WorkInv

\* What needs calls to follow one another holds at the start.
LEMMA SeqInit == Init => SeqInv
<1> SUFFICES ASSUME Init PROVE SeqInv OBVIOUS
<1>1. CoreInv BY CoreInit
<1>2. \A o \in Orders : order[o].phase = "absent" /\ order[o].held = {}
  BY DEF Init, NewOrder
<1>3. strays = {} /\ \A c \in Calls : call[c] = "idle" BY DEF Init
<1> QED BY <1>1, <1>2, <1>3 DEF SeqInv, ScopeInv, SignalInv, OursInv, WorkInv, Taken, Watched

\* Every step keeps it.
LEMMA SeqStep ==
  ASSUME Sequential
  PROVE  SeqInv /\ [Next]_vars => SeqInv'
BY CoreStep, ScopeStep, SignalStep, OursStep, WorkStep DEF SeqInv

(* In calls that follow one another, an order keeps the claims on the files it
   was given until the coordinator stops waiting for its worker, and no other
   order of the batch has one of them: neither a sibling that ends nor a retry
   that meets a conflict gives them away.  A worker that may write a file its
   order does not hold has been told to stop. *)
THEOREM ClaimsAreKept ==
  ASSUME Sequential
  PROVE  Spec => []HeldIsClaimed
<1>1. SeqInv => HeldIsClaimed
  <2>0. ASSUME SeqInv PROVE \A o \in Writing : order[o].held = Wanted(o) \/ Fired(o)
    <3>1. Writers \subseteq Orders BY QueueAssumption
    <3> QED BY <2>0, <3>1 DEF SeqInv, WorkInv, Writing
  <2> SUFFICES ASSUME SeqInv, NEW o \in Orders, NEW f \in order[o].held
               PROVE  /\ claim[f] = "us"
                      /\ \A p \in Orders : f \in order[p].held => p = o \/ CallOf[p] # CallOf[o]
    BY <2>0 DEF HeldIsClaimed
  <2>1. claim[f] = "us" BY DEF SeqInv, OursInv
  <2>2. Holding \subseteq Taken BY DEF Holding, Taken
  <2>3. ASSUME NEW p \in Orders, f \in order[p].held, p # o, CallOf[p] = CallOf[o] PROVE FALSE
    <3>1. order[o].phase \in Taken /\ order[p].phase \in Taken
      BY <2>2, <2>3 DEF SeqInv, CoreInv, ClaimInv
    <3>2. f \in ScopeOf[o] /\ f \in ScopeOf[p] BY <2>3 DEF SeqInv, ScopeInv, Wanted
    <3> QED BY <2>3, <3>1, <3>2 DEF SeqInv, ScopeInv
  <2> QED BY <2>1, <2>3
<1>2. SeqInv /\ [Next]_vars => SeqInv' BY SeqStep
<1> QED BY <1>1, <1>2, SeqInit, PTL DEF Spec

(* In calls that follow one another, no order of a call whose caller has aborted
   is dispatched to a worker or retried, however the abort fell between the
   steps of the batch. *)
THEOREM AbortIsFinal ==
  ASSUME Sequential
  PROVE  Spec => NoStartAfterAbort
<1> DEFINE Late == \A o \in Orders :
                     /\ order[o].phase # order'[o].phase
                     /\ order'[o].phase \in {"working", "retrying"}
                     => CallOf[o] \notin aborted
<1>1. SeqInv /\ [Next]_vars => Late
  <2> SUFFICES ASSUME SeqInv, [Next]_vars, NEW o \in Orders,
                      order[o].phase # order'[o].phase,
                      order'[o].phase \in {"working", "retrying"}
               PROVE  CallOf[o] \notin aborted
    OBVIOUS
  <2>0. TypeInv /\ QueueInv /\ ClaimInv /\ SignalInv BY DEF SeqInv, CoreInv
  <2>1. ASSUME NEW c \in Calls, Open(c) PROVE FALSE BY <2>0, <2>1, OpenEffect
  <2>2. ASSUME NEW c \in Calls, ProcessNext(c) PROVE CallOf[o] \notin aborted
    <3>1. CASE Runnable(queue[c]) = {} BY <2>2, <3>1 DEF ProcessNext
    <3>2. CASE Runnable(queue[c]) # {}
      <4>1. PICK p \in Of(c) : /\ Moved(p)
                               /\ order'[p].phase \in Watched => signal \notin aborted
        BY <2>0, <2>2, <3>2, DispatchMoves
      <4>2. thread = c BY <2>2 DEF ProcessNext
      <4>3. call[c] = "open" BY <2>0, <4>2 DEF QueueInv
      <4>4. signal = c BY <2>0, <4>3 DEF SignalInv
      <4>5. o = p BY <4>1 DEF Moved
      <4> QED BY <4>1, <4>4, <4>5 DEF Of, Watched
    <3> QED BY <3>1, <3>2
  <2>3. ASSUME NEW p \in Orders, Settle(p) PROVE FALSE BY <2>0, <2>3, SettleMoves DEF Moved
  <2>4. ASSUME NEW p \in Orders, WorkerMoves(p) PROVE CallOf[o] \notin aborted
    <3>1. o = p BY <2>4 DEF WorkerMoves, Moved
    <3>2. order[o].phase \in Watched /\ order[o].parent \notin aborted
      BY <2>4, <3>1 DEF WorkerMoves
    <3> QED BY <2>0, <3>2 DEF SignalInv
  <2>5. ASSUME NEW c \in Calls, Close(c) PROVE FALSE BY <2>0, <2>5, CloseEffect
  <2>6. ASSUME NEW c \in Calls, Deliver(c) PROVE FALSE BY <2>6 DEF Deliver
  <2>7. ASSUME Outside PROVE FALSE BY <2>7 DEF Outside
  <2> QED BY <2>0, <2>1, <2>2, <2>3, <2>4, <2>5, <2>6, <2>7, StepKinds
<1>2. SeqInv /\ [Next]_vars => SeqInv' BY SeqStep
<1>3. SeqInv /\ [Next]_vars => [Late]_vars BY <1>1
<1>4. Spec => [][Late]_vars BY <1>2, <1>3, SeqInit, PTL DEF Spec
<1> QED BY <1>4 DEF NoStartAfterAbort

-----------------------------------------------------------------------------
(* The batch does what OrderBatch promises.                                *)

\* The orders of a call have ids of their own: delegateBatch numbers the
\* requests of a batch.
DistinctIds ==
  \A o, p \in Orders : CallOf[o] = CallOf[p] /\ IdOf[o] = IdOf[p] => o = p

\* Chains end only when nothing can start: as long as an entry can run, another
\* one is in flight, or a chain of the call is being carried out.
DrainInv ==
  \A c \in Calls : call[c] = "open" /\ thread # c =>
    queue[c].inFlight # {} \/ Runnable(queue[c]) = {}

\* An id is completed or failed when its order is answered, and never both.
DoneInv ==
  /\ \A c \in Calls : \A d \in queue[c].completed :
       /\ d \notin queue[c].failed
       /\ \E p \in Of(c) : /\ IdOf[p] = d /\ order[p].phase = "answered"
                           /\ p \notin queue[c].entries
  /\ \A c \in Calls : \A d \in queue[c].failed :
       \E p \in Of(c) : IdOf[p] = d /\ order[p].phase = "answered"
  /\ \A o \in Orders : order[o].phase = "answered" =>
       \/ o \in queue[CallOf[o]].entries
       \/ IdOf[o] \in queue[CallOf[o]].failed \cup queue[CallOf[o]].completed

\* A chain that ends leaves nothing that could run, or somebody under way.
LEMMA DrainStep == CoreInv /\ DrainInv /\ [Next]_vars => DrainInv'
<1> SUFFICES ASSUME CoreInv, DrainInv, [Next]_vars PROVE DrainInv' OBVIOUS
<1>0. /\ TypeInv /\ QueueInv /\ ClaimInv
      /\ call \in [Calls -> {"idle", "open", "closing", "over"}]
      /\ \A q : Runnable(q)' = Runnable(q)
      /\ Nothing \notin Calls
  BY CoordinatorAssumption DEF CoreInv, TypeInv, TypeOK, Runnable, CanRun, HasFileConflict, Pool
<1>1. ASSUME NEW c \in Calls, Open(c) PROVE DrainInv'
  <2>1. /\ call' = [call EXCEPT ![c] = "open"] /\ thread = Nothing /\ thread' = c
        /\ \A d \in Calls \ {c} : queue'[d] = queue[d]
    BY <1>0, <1>1, OpenEffect
  <2>2. ASSUME NEW d \in Calls, call'[d] = "open", thread' # d
        PROVE  queue'[d].inFlight # {} \/ Runnable(queue'[d]) = {}
    BY <1>0, <2>1, <2>2 DEF DrainInv
  <2> QED BY <1>0, <2>2 DEF DrainInv
<1>2. ASSUME NEW c \in Calls, ProcessNext(c) PROVE DrainInv'
  <2>0. thread = c BY <1>2 DEF ProcessNext
  <2>1. CASE Runnable(queue[c]) = {}
    <3>1. UNCHANGED <<call, queue>> BY <1>2, <2>1 DEF ProcessNext, calls
    <3> QED BY <1>0, <2>0, <2>1, <3>1 DEF DrainInv
  <2>2. CASE Runnable(queue[c]) # {}
    <3>1. PICK o \in Of(c) :
            /\ queue' = [queue EXCEPT ![c] = MarkInFlight(Dequeued(queue[c], o), o)]
            /\ UNCHANGED call
      BY <1>0, <1>2, <2>2, DispatchMoves
    <3>2. queue[c] \in Queues /\ queue \in [Calls -> Queues] /\ o \in Orders
      BY <1>0 DEF TypeInv, TypeOK, Of
    <3>3. queue'[c].inFlight # {} /\ \A d \in Calls \ {c} : queue'[d] = queue[d]
      <4>1. MarkInFlight(Dequeued(queue[c], o), o).inFlight = queue[c].inFlight \cup {o}
        BY <3>2, QueueFields
      <4>2. queue'[c] = MarkInFlight(Dequeued(queue[c], o), o) BY <3>1, <3>2
      <4> QED BY <3>1, <3>2, <4>1, <4>2
    <3>4. ASSUME NEW d \in Calls, call'[d] = "open"
          PROVE  queue'[d].inFlight # {} \/ Runnable(queue'[d]) = {}
      BY <2>0, <3>1, <3>3, <3>4 DEF DrainInv
    <3> QED BY <1>0, <3>4 DEF DrainInv
  <2> QED BY <2>1, <2>2
<1>3. ASSUME NEW o \in Orders, Settle(o) PROVE DrainInv'
  <2>1. /\ thread = Nothing /\ thread' = CallOf[o] /\ UNCHANGED call
        /\ \A c \in Calls \ {CallOf[o]} : queue'[c] = queue[c]
    BY <1>0, <1>3, SettleMoves, SettleQueue
  <2> QED BY <1>0, <2>1 DEF DrainInv
<1>4. ASSUME NEW c \in Calls, Close(c) PROVE DrainInv'
  <2>1. /\ call' = [call EXCEPT ![c] = "closing"] /\ thread = Nothing /\ thread' = Nothing
        /\ \A d \in Calls \ {c} : queue'[d] = queue[d]
    BY <1>0, <1>4, CloseEffect
  <2> QED BY <1>0, <2>1 DEF DrainInv
<1>5. ASSUME NEW c \in Calls, Deliver(c) PROVE DrainInv'
  <2>1. call' = [call EXCEPT ![c] = "over"] /\ UNCHANGED <<thread, queue>>
    BY <1>5 DEF Deliver
  <2> QED BY <1>0, <2>1 DEF DrainInv
<1>6. ASSUME NEW o \in Orders, WorkerMoves(o) PROVE DrainInv'
  BY <1>0, <1>6 DEF WorkerMoves, DrainInv
<1>7. ASSUME Outside, UNCHANGED call PROVE DrainInv'
  BY <1>0, <1>7 DEF Outside, DrainInv
<1> QED BY <1>0, <1>1, <1>2, <1>3, <1>4, <1>5, <1>6, <1>7, StepKinds

\* An answered order is left in its queue, completed or failed, as its answer says.
LEMMA DoneStep ==
  ASSUME DistinctIds, CoreInv, DoneInv, [Next]_vars
  PROVE  DoneInv'
<1>0. /\ TypeInv /\ QueueInv /\ ClaimInv
      /\ \A o \in Orders : CallOf[o] \in Calls
      /\ queue \in [Calls -> Queues]
      /\ \A c \in Calls : Of(c)' = Of(c)
  BY CoordinatorAssumption DEF CoreInv, TypeInv, TypeOK, Of
<1>1. ASSUME \A o \in Orders : order'[o].phase = "answered" <=> order[o].phase = "answered",
             UNCHANGED queue
      PROVE  DoneInv'
  BY <1>0, <1>1 DEF DoneInv, Of
<1>2. ASSUME NEW c \in Calls, Open(c) PROVE DoneInv'
  <2>1. /\ \A d \in Calls \ {c} : queue'[d] = queue[d]
        /\ queue'[c].completed = queue[c].completed /\ queue'[c].failed = queue[c].failed
        /\ \A o \in Of(c) : order[o].phase = "absent"
        /\ \A o \in Accepted(c) : order'[o].phase = "queued" /\ CallOf[o] = c
        /\ \A o \in Orders : o \notin Accepted(c) => order'[o] = order[o]
    BY <1>0, <1>2, OpenEffect
  <2>2. queue[c].completed = {} /\ queue[c].failed = {} BY <2>1 DEF DoneInv
  <2>3. \A o \in Orders : order'[o].phase = "answered" <=> order[o].phase = "answered"
    BY <2>1 DEF Of
  <2>4. \A o \in Orders : order[o].phase = "answered" => CallOf[o] # c
    BY <2>1 DEF Of
  <2> QED BY <1>0, <2>1, <2>2, <2>3, <2>4 DEF DoneInv, Of
<1>3. ASSUME NEW c \in Calls, ProcessNext(c) PROVE DoneInv'
  <2>1. CASE Runnable(queue[c]) = {}
    BY <1>1, <1>3, <2>1 DEF ProcessNext
  <2>2. CASE Runnable(queue[c]) # {}
    <3>1. PICK o \in Of(c) :
            /\ queue' = [queue EXCEPT ![c] = MarkInFlight(Dequeued(queue[c], o), o)]
            /\ Moved(o) /\ order[o].phase = "queued"
            /\ order'[o].phase \in {"packing", "throwing", "working", "leaving"}
      BY <1>0, <1>3, <2>2, DispatchMoves
    <3>2. queue[c] \in Queues /\ o \in Orders BY <1>0, <3>1 DEF Of
    <3>3. /\ \A d \in Calls \ {c} : queue'[d] = queue[d]
          /\ queue'[c].entries = queue[c].entries \ {o}
          /\ queue'[c].completed = queue[c].completed
          /\ queue'[c].failed = queue[c].failed
      BY <1>0, <3>1, <3>2, QueueFields
    <3>4. \A x \in Orders : /\ order'[x].phase = "answered" <=> order[x].phase = "answered"
                            /\ order[x].phase = "answered" => x # o
      BY <3>1 DEF Moved
    <3> QED BY <1>0, <3>3, <3>4 DEF DoneInv, Of
  <2> QED BY <2>1, <2>2
<1>4. ASSUME NEW o \in Orders, Settle(o) PROVE DoneInv'
  <2> DEFINE c == CallOf[o]
  <2>1. /\ \A x \in Orders \ {o} : order'[x] = order[x]
        /\ order[o].phase \in {"leaving", "packing", "throwing"}
        /\ order'[o].phase = "answered"
    BY <1>0, <1>4, SettleMoves DEF Moved
  <2>2. /\ \A d \in Calls \ {c} : queue'[d] = queue[d]
        /\ queue'[c].entries = queue[c].entries
        /\ \/ /\ queue'[c].failed = queue[c].failed \cup {IdOf[o]}
              /\ queue'[c].completed = queue[c].completed
           \/ /\ queue'[c].failed = queue[c].failed
              /\ queue'[c].completed = queue[c].completed \cup {IdOf[o]}
    BY <1>0, <1>4, SettleQueue
  <2>3. c \in Calls /\ o \in Of(c) /\ o \notin queue[c].entries
    BY <1>0, <2>1 DEF QueueInv, Of
  <2>4. IdOf[o] \notin queue[c].failed /\ IdOf[o] \notin queue[c].completed
    <3>1. \A p \in Of(c) : IdOf[p] = IdOf[o] => p = o
      BY <2>3 DEF DistinctIds, Of
    <3> QED BY <2>1, <2>3, <3>1 DEF DoneInv
  <2>5. \A x \in Orders : order[x].phase = "answered" => order'[x].phase = "answered"
    BY <2>1
  <2> HIDE DEF c
  <2>6. ASSUME NEW b \in Calls, NEW d \in queue'[b].completed
        PROVE  /\ d \notin queue'[b].failed
               /\ \E p \in Of(b) : /\ IdOf[p] = d /\ order'[p].phase = "answered"
                                   /\ p \notin queue'[b].entries
    <3>1. CASE b = c /\ d = IdOf[o] BY <2>1, <2>2, <2>3, <2>4, <2>6, <3>1
    <3>2. CASE d \in queue[b].completed /\ ~(b = c /\ d = IdOf[o])
      <4>1. d \notin queue'[b].failed /\ queue'[b].entries = queue[b].entries
        BY <2>2, <3>2 DEF DoneInv
      <4>2. PICK p \in Of(b) : /\ IdOf[p] = d /\ order[p].phase = "answered"
                               /\ p \notin queue[b].entries
        BY <3>2 DEF DoneInv
      <4> QED BY <2>5, <4>1, <4>2 DEF Of
    <3> QED BY <2>2, <2>4, <2>6, <3>1, <3>2
  <2>7. ASSUME NEW b \in Calls, NEW d \in queue'[b].failed
        PROVE  \E p \in Of(b) : IdOf[p] = d /\ order'[p].phase = "answered"
    <3>1. CASE b = c /\ d = IdOf[o] BY <2>1, <2>3, <3>1
    <3>2. CASE d \in queue[b].failed
      <4>1. PICK p \in Of(b) : IdOf[p] = d /\ order[p].phase = "answered"
        BY <3>2 DEF DoneInv
      <4> QED BY <2>5, <4>1 DEF Of
    <3> QED BY <2>2, <2>7, <3>1, <3>2
  <2>8. ASSUME NEW x \in Orders, order'[x].phase = "answered"
        PROVE  \/ x \in queue'[CallOf[x]].entries
               \/ IdOf[x] \in queue'[CallOf[x]].failed \cup queue'[CallOf[x]].completed
    <3>1. CASE x = o BY <2>2, <3>1 DEF c
    <3>2. CASE x # o BY <1>0, <2>1, <2>2, <2>8, <3>2 DEF DoneInv
    <3> QED BY <3>1, <3>2
  <2> QED BY <1>0, <2>6, <2>7, <2>8 DEF DoneInv
<1>5. ASSUME NEW c \in Calls, Close(c) PROVE DoneInv'
  <2>1. /\ \A d \in Calls \ {c} : queue'[d] = queue[d]
        /\ queue'[c].entries = queue[c].entries /\ queue'[c].completed = queue[c].completed
        /\ queue'[c].failed = queue[c].failed \cup {IdOf[o] : o \in queue[c].entries}
        /\ \A o \in Orders : o \notin queue[c].entries => order'[o] = order[o]
        /\ \A o \in queue[c].entries : /\ order[o].phase = "queued"
                                       /\ order'[o].phase = "answered"
                                       /\ CallOf[o] = c /\ o \in Orders
    BY <1>0, <1>5, CloseEffect
  <2>2. \A x \in Orders : order[x].phase = "answered" => order'[x].phase = "answered"
    BY <2>1
  <2>3. ASSUME NEW b \in Calls, NEW d \in queue'[b].completed
        PROVE  /\ d \notin queue'[b].failed
               /\ \E p \in Of(b) : /\ IdOf[p] = d /\ order'[p].phase = "answered"
                                   /\ p \notin queue'[b].entries
    <3>1. d \in queue[b].completed /\ queue'[b].entries = queue[b].entries BY <2>1, <2>3
    <3>2. PICK p \in Of(b) : /\ IdOf[p] = d /\ order[p].phase = "answered"
                             /\ p \notin queue[b].entries
      BY <3>1 DEF DoneInv
    <3>3. d \notin queue[b].failed BY <3>1 DEF DoneInv
    <3>4. ASSUME b = c, NEW o \in queue[c].entries, d = IdOf[o] PROVE FALSE
      BY <2>1, <3>2, <3>4 DEF DistinctIds, Of
    <3>5. d \notin queue'[b].failed BY <2>1, <3>3, <3>4
    <3> QED BY <2>2, <3>1, <3>2, <3>5 DEF Of
  <2>4. ASSUME NEW b \in Calls, NEW d \in queue'[b].failed
        PROVE  \E p \in Of(b) : IdOf[p] = d /\ order'[p].phase = "answered"
    <3>1. CASE b = c /\ \E o \in queue[c].entries : d = IdOf[o] BY <2>1, <3>1 DEF Of
    <3>2. CASE d \in queue[b].failed
      <4>1. PICK p \in Of(b) : IdOf[p] = d /\ order[p].phase = "answered"
        BY <3>2 DEF DoneInv
      <4> QED BY <2>2, <4>1 DEF Of
    <3> QED BY <2>1, <2>4, <3>1, <3>2
  <2>5. ASSUME NEW x \in Orders, order'[x].phase = "answered"
        PROVE  \/ x \in queue'[CallOf[x]].entries
               \/ IdOf[x] \in queue'[CallOf[x]].failed \cup queue'[CallOf[x]].completed
    <3>1. CASE x \in queue[c].entries BY <2>1, <3>1
    <3>2. CASE x \notin queue[c].entries
      <4>1. order[x].phase = "answered" BY <2>1, <2>5, <3>2
      <4> QED BY <1>0, <2>1, <4>1 DEF DoneInv
    <3> QED BY <3>1, <3>2
  <2> QED BY <1>0, <2>3, <2>4, <2>5 DEF DoneInv
<1>6. ASSUME NEW c \in Calls, Deliver(c) PROVE DoneInv'
  BY <1>1, <1>6 DEF Deliver
<1>7. ASSUME NEW o \in Orders, WorkerMoves(o) PROVE DoneInv'
  BY <1>1, <1>7 DEF WorkerMoves, Moved, Taken
<1>8. ASSUME Outside PROVE DoneInv' BY <1>1, <1>8 DEF Outside
<1> QED BY <1>0, <1>2, <1>3, <1>4, <1>5, <1>6, <1>7, <1>8, StepKinds

BatchInv == CoreInv /\ DrainInv /\ DoneInv

\* What the refinement rests on holds at the start.
LEMMA BatchInit == Init => BatchInv
<1> SUFFICES ASSUME Init PROVE BatchInv OBVIOUS
<1>1. CoreInv BY CoreInit
<1>2. \A o \in Orders : order[o].phase = "absent" BY DEF Init, NewOrder
<1>3. \A c \in Calls : /\ call[c] = "idle" /\ queue[c].completed = {}
                       /\ queue[c].failed = {}
  BY DEF Init, EmptyQueue
<1> QED BY <1>1, <1>2, <1>3 DEF BatchInv, DrainInv, DoneInv

\* The status OrderBatch sees, kept by a step that leaves the order in its phase,
\* or in flight, and its answer what it was.
LEMMA StatusSame ==
  ASSUME NEW o \in Orders,
         \/ order'[o].phase = order[o].phase
         \/ order'[o].phase \in Taken /\ order[o].phase \in Taken,
         order[o].phase = "answered" =>
           (\/ o \in queue'[CallOf[o]].entries
            \/ IdOf[o] \in queue'[CallOf[o]].failed) <=>
           (\/ o \in queue[CallOf[o]].entries
            \/ IdOf[o] \in queue[CallOf[o]].failed)
  PROVE  Status(o)' = Status(o)
BY DEF Status, Taken

\* An order is taken while it is in flight, and done or failed when answered.
LEMMA StatusIs ==
  ASSUME NEW o \in Orders, TypeOK
  PROVE  /\ Status(o) = "absent" <=> order[o].phase = "absent"
         /\ Status(o) = "waiting" <=> order[o].phase = "queued"
         /\ Status(o) = "taken" <=> order[o].phase \in Taken
         /\ Status(o) = "done" <=> /\ order[o].phase = "answered"
                                   /\ o \notin queue[CallOf[o]].entries
                                   /\ IdOf[o] \notin queue[CallOf[o]].failed
         /\ Status(o) = "failed" <=> /\ order[o].phase = "answered"
                                     /\ \/ o \in queue[CallOf[o]].entries
                                        \/ IdOf[o] \in queue[CallOf[o]].failed
<1>1. order[o].phase \in Phases BY DEF TypeOK, OrderStates
<1> QED BY <1>1 DEF Status, Taken, Phases

st == [o \in Orders |-> Status(o)]
ov == [c \in Calls |-> call[c] \in {"closing", "over"}]

\* What a completed id stands for in OrderBatch, and the other way round.
LEMMA ProvidedIs ==
  ASSUME DistinctIds, BatchInv, NEW o \in Orders, NEW d
  PROVE  /\ d \in queue[CallOf[o]].completed =>
              \E p \in Orders : CallOf[p] = CallOf[o] /\ IdOf[p] = d /\ Status(p) = "done"
         /\ \A p \in Orders : CallOf[p] = CallOf[o] /\ IdOf[p] = d /\ Status(p) = "done"
              => d \in queue[CallOf[o]].completed
<1>0. TypeOK /\ DoneInv /\ CallOf[o] \in Calls
  BY CoordinatorAssumption DEF BatchInv, CoreInv, TypeInv
<1>1. ASSUME d \in queue[CallOf[o]].completed
      PROVE  \E p \in Orders : CallOf[p] = CallOf[o] /\ IdOf[p] = d /\ Status(p) = "done"
  <2>1. PICK p \in Of(CallOf[o]) : /\ IdOf[p] = d /\ order[p].phase = "answered"
                                   /\ p \notin queue[CallOf[o]].entries
    BY <1>0, <1>1 DEF DoneInv
  <2>2. p \in Orders /\ CallOf[p] = CallOf[o] BY <2>1 DEF Of
  <2>3. d \notin queue[CallOf[o]].failed BY <1>0, <1>1 DEF DoneInv
  <2>4. Status(p) = "done" BY <1>0, <2>1, <2>2, <2>3, StatusIs
  <2> QED BY <2>1, <2>2, <2>4
<1>2. ASSUME NEW p \in Orders, CallOf[p] = CallOf[o], IdOf[p] = d, Status(p) = "done"
      PROVE  d \in queue[CallOf[o]].completed
  <2>1. /\ order[p].phase = "answered" /\ p \notin queue[CallOf[p]].entries
        /\ IdOf[p] \notin queue[CallOf[p]].failed
    BY <1>0, <1>2, StatusIs
  <2> QED BY <1>0, <1>2, <2>1 DEF DoneInv
<1> QED BY <1>1, <1>2

\* Every step of the coordinator is a step of the batch, or none.
LEMMA BatchStep ==
  ASSUME DistinctIds, BatchInv, BatchInv', [Next]_vars
  PROVE  Batch!Next \/ UNCHANGED <<st, ov>>
<1>0. /\ CoreInv /\ DrainInv /\ DoneInv /\ TypeInv /\ QueueInv /\ ClaimInv
      /\ TypeOK /\ TypeOK'
      /\ \A o \in Orders : CallOf[o] \in Calls
      /\ call \in [Calls -> {"idle", "open", "closing", "over"}]
      /\ queue \in [Calls -> Queues] /\ Nothing \notin Calls
  BY CoordinatorAssumption DEF BatchInv, CoreInv, TypeInv, TypeOK
<1>1. ASSUME \A o \in Orders : Status(o)' = Status(o) PROVE st' = st
  BY <1>1 DEF st
<1>2. ASSUME NEW c \in Calls, Open(c) PROVE Batch!Accept(c)
  <2>1. /\ Accepted(c) \subseteq Of(c) /\ Accepted(c) # {}
        /\ call[c] = "idle" /\ call' = [call EXCEPT ![c] = "open"]
        /\ \A d \in Calls \ {c} : queue'[d] = queue[d]
        /\ \A o \in Of(c) : order[o].phase = "absent"
        /\ \A o \in Accepted(c) : order'[o].phase = "queued"
        /\ \A o \in Orders : o \notin Accepted(c) => order'[o] = order[o]
    BY <1>0, <1>2, OpenEffect
  <2>2. ASSUME NEW o \in Orders, o \notin Accepted(c) PROVE Status(o)' = Status(o)
    BY <1>0, <2>1, <2>2, StatusSame DEF Of
  <2>3. \A o \in Accepted(c) : Status(o)' = "waiting" BY <2>1 DEF Status
  <2>4. st' = [o \in Orders |-> IF o \in Accepted(c) THEN "waiting" ELSE st[o]]
    BY <2>2, <2>3 DEF st
  <2>5. ov' = ov BY <1>0, <2>1 DEF ov
  <2>6. \A o \in Of(c) : st[o] = "absent" BY <1>0, <2>1, StatusIs DEF st, Of
  <2>7. ~ov[c] BY <2>1 DEF ov
  <2>8. Accepted(c) \in SUBSET Of(c) BY <2>1
  <2> QED BY <2>1, <2>4, <2>5, <2>6, <2>7, <2>8 DEF Batch!Accept, Batch!Of, Of, st, ov
<1>3. ASSUME NEW c \in Calls, ProcessNext(c) PROVE Batch!Next \/ UNCHANGED <<st, ov>>
  <2>1. CASE Runnable(queue[c]) = {}
    <3>1. UNCHANGED <<call, order, queue>> BY <1>3, <2>1 DEF ProcessNext, calls
    <3> QED BY <3>1 DEF st, ov, Status
  <2>2. CASE Runnable(queue[c]) # {}
    <3>1. PICK o \in Of(c) :
            /\ CanRun(queue[c], o)
            /\ queue' = [queue EXCEPT ![c] = MarkInFlight(Dequeued(queue[c], o), o)]
            /\ Moved(o)
            /\ order[o].phase = "queued"
            /\ order'[o].phase \in {"packing", "throwing", "working", "leaving"}
            /\ UNCHANGED call
      BY <1>0, <1>3, <2>2, DispatchMoves
    <3>2. o \in Orders /\ CallOf[o] = c /\ queue[c] \in Queues BY <1>0, <3>1 DEF Of
    <3>3. /\ queue'[c].entries = queue[c].entries \ {o}
          /\ queue'[c].failed = queue[c].failed
          /\ \A d \in Calls \ {c} : queue'[d] = queue[d]
      BY <1>0, <3>1, <3>2, QueueFields
    <3>4. ASSUME NEW x \in Orders \ {o} PROVE Status(x)' = Status(x)
      <4>1. order'[x] = order[x] BY <3>1 DEF Moved
      <4> QED BY <1>0, <3>3, <4>1, StatusSame
    <3>5. Status(o)' = "taken" BY <3>1 DEF Status
    <3>6. st' = [st EXCEPT ![o] = "taken"] BY <3>2, <3>4, <3>5 DEF st
    <3>7. ov' = ov BY <3>1 DEF ov
    <3>8. st[o] = "waiting" BY <3>1, <3>2 DEF st, Status
    <3>9. ~ov[c]
      <4>1. call[c] = "open" BY <1>0, <3>1, <3>2 DEF QueueInv
      <4> QED BY <4>1 DEF ov
    <3>10. ASSUME NEW d \in DependsOn[o] PROVE Batch!Provided(o, d)
      <4>1. d \in queue[CallOf[o]].completed BY <3>1, <3>2 DEF CanRun
      <4>2. PICK p \in Orders : CallOf[p] = CallOf[o] /\ IdOf[p] = d /\ Status(p) = "done"
        BY <3>2, <4>1, ProvidedIs
      <4> QED BY <4>2 DEF Batch!Provided, Batch!Of
    <3>11. Batch!Take(o)
      BY <3>2, <3>6, <3>7, <3>8, <3>9, <3>10 DEF Batch!Take, st, ov
    <3> QED BY <3>2, <3>11 DEF Batch!Next
  <2> QED BY <2>1, <2>2
<1>4. ASSUME NEW o \in Orders, Settle(o) PROVE Batch!Answer(o)
  <2> DEFINE c == CallOf[o]
  <2>1. /\ \A x \in Orders \ {o} : order'[x] = order[x]
        /\ order[o].phase \in {"leaving", "packing", "throwing"}
        /\ order'[o].phase = "answered" /\ UNCHANGED call
    BY <1>0, <1>4, SettleMoves DEF Moved
  <2>2. /\ \A d \in Calls \ {c} : queue'[d] = queue[d]
        /\ queue'[c].entries = queue[c].entries
        /\ queue'[c].failed \subseteq queue[c].failed \cup {IdOf[o]}
        /\ queue[c].failed \subseteq queue'[c].failed
    BY <1>0, <1>4, SettleQueue
  <2>3. ASSUME NEW x \in Orders \ {o} PROVE Status(x)' = Status(x)
    <3>1. CallOf[x] = c => IdOf[x] # IdOf[o] BY DEF DistinctIds
    <3> QED BY <1>0, <2>1, <2>2, <3>1, StatusSame
  <2>4. Status(o)' \in {"done", "failed"} BY <2>1 DEF Status
  <2>5. st[o] = "taken" BY <2>1 DEF st, Status
  <2>6. ~ov[c]
    <3>1. call[c] = "open" BY <1>0, <2>1 DEF QueueInv, Taken
    <3> QED BY <1>0, <3>1 DEF ov
  <2>7. st' = [st EXCEPT ![o] = Status(o)'] BY <2>3 DEF st
  <2>8. ov' = ov BY <2>1 DEF ov
  <2> QED BY <2>4, <2>5, <2>6, <2>7, <2>8 DEF Batch!Answer, st, ov
<1>5. ASSUME NEW c \in Calls, Close(c) PROVE Batch!Close(c)
  <2>1. /\ call[c] = "open" /\ call' = [call EXCEPT ![c] = "closing"]
        /\ thread = Nothing /\ queue[c].inFlight = {}
        /\ \A d \in Calls \ {c} : queue'[d] = queue[d]
        /\ queue'[c].entries = queue[c].entries
        /\ queue'[c].failed = queue[c].failed \cup {IdOf[o] : o \in queue[c].entries}
        /\ \A o \in Orders : o \notin queue[c].entries => order'[o] = order[o]
        /\ \A o \in queue[c].entries : /\ order[o].phase = "queued"
                                       /\ order'[o].phase = "answered"
                                       /\ CallOf[o] = c /\ o \in Orders
    BY <1>0, <1>5, CloseEffect
  <2>2. \A o \in Orders : o \in queue[c].entries <=> CallOf[o] = c /\ st[o] = "waiting"
    BY <1>0, <2>1, StatusIs DEF st, QueueInv
  <2>3. \A o \in queue[c].entries : Status(o)' = "failed"
    BY <2>1 DEF Status
  <2>4. ASSUME NEW o \in Orders, o \notin queue[c].entries PROVE Status(o)' = Status(o)
    <3>1. ASSUME CallOf[o] = c, NEW x \in queue[c].entries PROVE IdOf[o] # IdOf[x]
      BY <2>1, <2>4, <3>1 DEF DistinctIds
    <3> QED BY <1>0, <2>1, <2>4, <3>1, StatusSame
  <2>5. st' = [o \in Orders |-> IF CallOf[o] = c /\ st[o] = "waiting" THEN "failed" ELSE st[o]]
    <3>1. \A o \in Orders : st'[o] = IF CallOf[o] = c /\ st[o] = "waiting" THEN "failed" ELSE st[o]
      BY <2>2, <2>3, <2>4 DEF st
    <3> QED BY <3>1 DEF st
  <2>6. ov' = [ov EXCEPT ![c] = TRUE] /\ ~ov[c]
    <3>1. \A d \in Calls : ov'[d] <=> (IF d = c THEN TRUE ELSE ov[d])
      BY <1>0, <2>1 DEF ov
    <3> QED BY <1>0, <2>1, <3>1 DEF ov
  <2>7. \E o \in Batch!Of(c) : st[o] # "absent"
    <3>1. PICK o \in Of(c) : order[o].phase # "absent" BY <1>0, <2>1 DEF QueueInv
    <3> QED BY <1>0, <3>1, StatusIs DEF Of, Batch!Of, st
  <2>8. ASSUME NEW o \in Batch!Of(c) PROVE st[o] # "taken"
    BY <1>0, <2>1, <2>8, StatusIs DEF Batch!Of, st, QueueInv
  <2>9. ASSUME NEW o \in Batch!Of(c), st[o] = "waiting"
        PROVE  \E d \in DependsOn[o] : ~Batch!Provided(o, d)
    <3>1. o \in queue[c].entries /\ o \in Orders /\ CallOf[o] = c /\ queue[c] \in Queues
      BY <1>0, <2>2, <2>9 DEF Batch!Of
    <3>2. Runnable(queue[c]) = {} BY <1>0, <2>1 DEF DrainInv
    <3>3. PICK d \in DependsOn[o] : d \notin queue[c].completed
      BY <2>1, <3>1, <3>2, IdleBlocks
    <3>4. \A p \in Orders : CallOf[p] = CallOf[o] /\ IdOf[p] = d => Status(p) # "done"
      BY <3>1, <3>3, ProvidedIs
    <3> QED BY <3>1, <3>3, <3>4 DEF Batch!Provided, Batch!Of
  <2> QED BY <2>5, <2>6, <2>7, <2>8, <2>9 DEF Batch!Close, st, ov
<1>6. ASSUME NEW c \in Calls, Deliver(c) PROVE UNCHANGED <<st, ov>>
  <2>1. /\ UNCHANGED <<order, queue>> /\ call[c] = "closing"
        /\ call' = [call EXCEPT ![c] = "over"]
    BY <1>6 DEF Deliver
  <2>2. \A d \in Calls : (call'[d] \in {"closing", "over"}) = (call[d] \in {"closing", "over"})
    BY <1>0, <2>1
  <2>3. ov' = ov BY <2>2, Zenon DEF ov
  <2>4. st' = st BY <2>1 DEF st, Status
  <2> QED BY <2>3, <2>4
<1>7. ASSUME NEW o \in Orders, WorkerMoves(o) PROVE UNCHANGED <<st, ov>>
  <2>1. \A x \in Orders : Status(x)' = Status(x)
    BY <1>7, StatusSame DEF WorkerMoves, Moved
  <2> QED BY <1>1, <1>7, <2>1 DEF WorkerMoves, ov
<1>8. ASSUME Outside, UNCHANGED call PROVE UNCHANGED <<st, ov>>
  <2>1. \A x \in Orders : Status(x)' = Status(x)
    BY <1>8, StatusSame DEF Outside
  <2> QED BY <1>1, <1>8, <2>1 DEF ov
<1> QED
  BY <1>0, <1>2, <1>3, <1>4, <1>5, <1>6, <1>7, <1>8, StepKinds DEF Batch!Next

(* The coordinator implements OrderBatch: whatever caps, file conflicts, kills,
   retries and upgrades do, an order starts once, after those it depends on are
   done, is answered once, and is given up as blocked only when nothing is in
   flight and a dependency will never be done. *)
THEOREM KeepsBatch ==
  ASSUME DistinctIds
  PROVE  Spec => BatchSpec
<1>1. Init => Batch!Init
  <2> SUFFICES ASSUME Init PROVE Batch!Init OBVIOUS
  <2>1. \A o \in Orders : Status(o) = "absent" BY DEF Init, NewOrder, Status
  <2>2. \A c \in Calls : (call[c] \in {"closing", "over"}) = FALSE BY DEF Init
  <2>3. st = [o \in Orders |-> "absent"] BY <2>1 DEF st
  <2>4. ov = [c \in Calls |-> FALSE] BY <2>2, Zenon DEF ov
  <2> QED BY <2>3, <2>4 DEF Batch!Init, st, ov
<1>2. BatchInv /\ [Next]_vars => BatchInv'
  BY CoreStep, DrainStep, DoneStep DEF BatchInv
<1>3. BatchInv /\ BatchInv' /\ [Next]_vars => [Batch!Next]_<<st, ov>>
  BY BatchStep
<1>4. Spec => [][Batch!Next]_<<st, ov>>
  BY <1>2, <1>3, BatchInit, PTL DEF Spec
<1> QED BY <1>1, <1>4, PTL DEF Spec, BatchSpec, Batch!Spec, st, ov
=============================================================================
