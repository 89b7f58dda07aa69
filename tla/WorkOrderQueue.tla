--------------------------- MODULE WorkOrderQueue ---------------------------
(***************************************************************************)
(* The queue one batch of work orders goes through: src/agent/work-queue.ts. *)
(* A queue is a record of sets; the operators below are its methods, each   *)
(* from a queue to the queue it leaves.                                     *)
(*                                                                          *)
(* The batch enqueues every order with the same priority, so the order of   *)
(* the entries is the order of the requests: entries is a set, and Position *)
(* says which of two entries comes first.                                   *)
(***************************************************************************)
EXTENDS Naturals, FiniteSets

CONSTANTS
    Orders,          \* the work orders
    Files,           \* the files in their scopes
    Ids,             \* the ids orders are named by
    IdOf,            \* [Orders -> Ids]: the id; two batches may use the same one
    KeyOf,           \* [Orders -> keys]: the dedupeKey
    Position,        \* [Orders -> Nat]: the place of an order in its batch
    ScopeOf,         \* [Orders -> SUBSET Files]: scope.files
    DependsOn,       \* [Orders -> SUBSET Ids]: dependencies
    Writers,         \* the orders of a profile with the role "hands"
    MaxWorkers,      \* maxConcurrency
    MaxExplore,      \* maxExploreConcurrency
    MaxWrite         \* maxWriteConcurrency

ASSUME QueueAssumption ==
    /\ IdOf \in [Orders -> Ids]
    /\ Position \in [Orders -> Nat]
    /\ ScopeOf \in [Orders -> SUBSET Files]
    /\ DependsOn \in [Orders -> SUBSET Ids]
    /\ Writers \subseteq Orders
    /\ {MaxWorkers, MaxExplore, MaxWrite} \subseteq Nat \ {0}

Queues == [entries   : SUBSET Orders,
           inFlight  : SUBSET Orders,
           completed : SUBSET Ids,
           failed    : SUBSET Ids]

EmptyQueue == [entries |-> {}, inFlight |-> {}, completed |-> {}, failed |-> {}]

(* What is left of a list of requests when they are enqueued one by one: an
   order whose key an earlier one has is refused. *)
Enqueued(S) ==
    {o \in S : ~ \E p \in S : KeyOf[p] = KeyOf[o] /\ Position[p] < Position[o]}

\* Mutant: only identical scopes conflict.
HasFileConflict_SameScope(q, o) ==
    \E p \in q.inFlight : ScopeOf[p] = ScopeOf[o] /\ ScopeOf[o] # {}

HasFileConflict(q, o) == \E p \in q.inFlight : ScopeOf[p] \cap ScopeOf[o] # {}

\* The number of workers in flight that count against the same pool as o.
Pool(q, o) == Cardinality(IF o \in Writers THEN q.inFlight \cap Writers
                                           ELSE q.inFlight \ Writers)

CanRun(q, o) ==
    /\ DependsOn[o] \subseteq q.completed
    /\ ~HasFileConflict(q, o)
    /\ Cardinality(q.inFlight) < MaxWorkers
    /\ Pool(q, o) < (IF o \in Writers THEN MaxWrite ELSE MaxExplore)

Runnable(q) == {o \in q.entries : CanRun(q, o)}

\* The order dequeue returns: the first entry that can run.
FirstRunnable(q) == CHOOSE o \in Runnable(q) :
                  \A p \in Runnable(q) : Position[o] <= Position[p]

Dequeued(q, o) == [q EXCEPT !.entries = @ \ {o}]

MarkInFlight(q, o) == [q EXCEPT !.inFlight = @ \cup {o}]

MarkCompleted(q, o) == [q EXCEPT !.completed = @ \cup {IdOf[o]},
                                 !.inFlight  = @ \ {o}]

\* Mutant: a failed order counts as completed too.
MarkFailed_Completes(q, o) ==
    [q EXCEPT !.failed    = @ \cup {IdOf[o]},
              !.completed = @ \cup {IdOf[o]},
              !.inFlight  = @ \ {o}]

MarkFailed(q, o) == [q EXCEPT !.failed   = @ \cup {IdOf[o]},
                              !.inFlight = @ \ {o}]

=============================================================================
