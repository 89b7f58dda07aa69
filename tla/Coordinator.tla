---------------------------- MODULE Coordinator ----------------------------
(***************************************************************************)
(* DelegationCoordinator (src/agent/coordinator.ts): calls that delegate   *)
(* one work order or a batch of them, the workers that carry the orders    *)
(* out, their retries and the upgrade to a stronger model, and what kills  *)
(* them: the caller's abort signal, the stall sweep, the user, shutdown.   *)
(* A worker that is killed is only told to stop, and no longer waited for. *)
(* Beside it, the file claims the session shares with other processes      *)
(* (session-registry.ts), the liveness clock (worker-liveness.ts) and the  *)
(* circuit breaker (worker-circuit-breaker.ts).                            *)
(*                                                                         *)
(* JavaScript runs a handler up to its next await without a break; a part  *)
(* that takes several steps here holds thread, and meanwhile only another  *)
(* process moves.  A worker is a box that returns a verdict ("passed" or   *)
(* "bad": failed, blocked or escalated) or throws.                         *)
(***************************************************************************)
EXTENDS WorkOrderQueue

CONSTANTS
  Calls,              \* calls of delegateBatch and delegate
  Singles,            \* those of delegate: one order, no queue
  CallOf,             \* [Orders -> Calls]
  Refused,            \* orders the call leaves out: too deep or too trivial
  TierLocked,         \* orders of a profile with a tierLock (one such profile)
  Upgradable,         \* orders a card above their model's tier is allowed for
  Retries,            \* [Orders -> Nat]: budget.maxRetries
  MaxUpgrades,        \* MAX_PRO_UPGRADES
  Threshold,          \* the breaker's failureThreshold
  After,              \* [Calls -> SUBSET Calls]: the calls it has to wait for
  MayShutDown,        \* whether shutdown may happen
  Faults,             \* [Orders -> SUBSET {"scope", "throws", "upgrade"}]: what
                      \* may keep an order from its worker, or from the upgrade
  Contested,          \* BOUND: the files another session may claim
  Nothing             \* no order, signal, holder, verdict or thread owner

ASSUME CoordinatorAssumption ==
  /\ Singles \subseteq Calls
  /\ CallOf \in [Orders -> Calls]
  /\ Retries \in [Orders -> Nat]
  /\ MaxUpgrades \in Nat /\ Threshold \in Nat \ {0}
  /\ TierLocked \cap Upgradable = {}
  /\ After \in [Calls -> SUBSET Calls]
  /\ MayShutDown \in BOOLEAN
  /\ \A o \in Orders : CallOf[o] \in Singles => DependsOn[o] = {}
  /\ Faults \in [Orders -> SUBSET {"scope", "throws", "upgrade"}]
  /\ Nothing \notin Orders \cup Calls \cup {"us", "other"}
  /\ Calls \cap Orders = {}

VARIABLES
  call,         \* each call: "idle", "open", "closing" or "over"
  queue,        \* each call's WorkOrderQueue
  order,        \* each order: how far it is, and what it holds
  thread,       \* the call or order whose synchronous part is running
  starters,     \* processNext chains that part has still to start
  signal,       \* config.abortSignal: the call whose signal it is
  saved,        \* each call: savedSignal
  aborted,      \* the calls whose abort signal has fired
  controllers,  \* orderControllers: an id's order
  live,         \* the ids the liveness clock watches
  sweep,        \* whether the stall sweep's interval is on
  claim,        \* each file's exclusive claim: "us", "other" or Nothing
  upgrades,     \* proUpgradeCount
  breaker,      \* the tier-locked profile's circuit
  down,         \* shutdown has happened
  strays        \* the writers whose worker is not waited for and may still write

watch == <<controllers, live, sweep>>
calls == <<call, saved, signal>>
vars == <<call, queue, order, thread, starters, signal, saved, aborted,
          watch, claim, upgrades, breaker, down, strays>>

Phases == {"absent",    \* not accepted (yet)
           "queued", "working", "backoff", "retrying", "upgrading",
           "deciding",  \* the retries are over: upgrade, keep the run or give up
           "leaving",   \* a result is on its way out, the finally is still to run
           "expanding", \* the brief summary of a passed run is worked out
           "packing",   \* a result is on its way out, nothing is held
           "throwing",  \* the set-up threw
           "answered"}

(* attempt is the retry under way, verdict that of the result so far, own whether the order's controller has fired, parent the call
   whose signal was config.abortSignal when the order was dispatched, held
   the files it took claims for. *)
OrderStates == [phase   : Phases,
                attempt : Nat,
                verdict : {"passed", "bad", Nothing},
                own     : BOOLEAN,
                parent  : Calls \cup {Nothing},
                held    : SUBSET Files]

NewOrder == [phase |-> "absent", attempt |-> 0, verdict |-> Nothing, own |-> FALSE,
             parent |-> Nothing, held |-> {}]

Circuits == [state : {"closed", "open", "cooled", "halfOpen"}, failures : 0..Threshold]

TypeOK ==
  /\ call \in [Calls -> {"idle", "open", "closing", "over"}]
  /\ queue \in [Calls -> Queues]
  /\ order \in [Orders -> OrderStates]
  /\ thread \in Calls \cup Orders \cup {Nothing}
  /\ starters \in 0..MaxWorkers
  /\ signal \in Calls \cup {Nothing}
  /\ saved \in [Calls -> Calls \cup {Nothing}]
  /\ aborted \subseteq Calls
  /\ controllers \in [Ids -> Orders \cup {Nothing}]
  /\ live \subseteq Ids
  /\ sweep \in BOOLEAN
  /\ claim \in [Files -> {"us", "other", Nothing}]
  /\ upgrades \in 0..MaxUpgrades
  /\ breaker \in Circuits
  /\ down \in BOOLEAN
  /\ strays \subseteq Writers

Init ==
  /\ call = [c \in Calls |-> "idle"]
  /\ queue = [c \in Calls |-> EmptyQueue]
  /\ order = [o \in Orders |-> NewOrder]
  /\ thread = Nothing /\ starters = 0
  /\ signal = Nothing
  /\ saved = [c \in Calls |-> Nothing]
  /\ aborted = {}
  /\ controllers = [i \in Ids |-> Nothing]
  /\ live = {} /\ sweep = FALSE
  /\ claim = [f \in Files |-> Nothing]
  /\ upgrades = 0
  /\ breaker = [state |-> "closed", failures |-> 0]
  /\ down = FALSE
  /\ strays = {}

Of(c) == {o \in Orders : CallOf[o] = c}

\* The order moves on to phase p with verdict v, holding the claims H.
Moves(o, p, v, H) ==
  order' = [order EXCEPT ![o].phase = p, ![o].verdict = v, ![o].held = H]

\* mergedSignal: the order's own controller, or the signal it was given.
Fired(o) == order[o].own \/ order[o].parent \in aborted

\* A caller's abort is never taken for a stall, even when both have fired.
CallerAborted(o) == order[o].parent \in aborted

-----------------------------------------------------------------------------
\* File claims.

Wanted(o) == IF o \in Writers THEN ScopeOf[o] ELSE {}
Granted(o) == {f \in Wanted(o) : claim[f] # "other"}
ClaimsConflict(o) == Granted(o) # Wanted(o)

AcquireClaims(o) ==
  claim' = [f \in Files |-> IF f \in Granted(o) THEN "us" ELSE claim[f]]

\* releaseClaim deletes the session's row for the file, whoever took it.
ReleaseClaims(o) ==
  claim' = [f \in Files |-> IF f \in order[o].held /\ claim[f] = "us"
                            THEN Nothing ELSE claim[f]]

-----------------------------------------------------------------------------
\* The circuit of the tier-locked profile.

RecordSuccess(b) ==
  CASE b.state = "halfOpen" -> [state |-> "closed", failures |-> 0]
    [] b.state = "closed"   -> [b EXCEPT !.failures = 0]
    [] OTHER                -> b

\* Mutant: failures of probes are counted without end.
RecordFailure_Unbounded(b) ==
  [b EXCEPT !.failures = @ + 1, !.state = IF b.failures + 1 >= Threshold THEN "open" ELSE @]

RecordFailure(b) ==
  LET n == IF b.failures < Threshold THEN b.failures + 1 ELSE Threshold
  IN CASE b.state = "halfOpen" -> [b EXCEPT !.state = "open"]
       [] b.state # "halfOpen" /\ n >= Threshold -> [state |-> "open", failures |-> n]
       [] OTHER -> [b EXCEPT !.failures = n]

Recorded(o, verdict, b) ==
  IF o \notin TierLocked THEN b
  ELSE IF verdict = "passed" THEN RecordSuccess(b) ELSE RecordFailure(b)

\* The cooldown of an open circuit runs out.
CoolDown ==
  /\ breaker.state = "open"
  /\ breaker' = [breaker EXCEPT !.state = "cooled"]
  /\ UNCHANGED <<calls, queue, order, thread, starters, aborted, watch, claim,
                 upgrades, down, strays>>

-----------------------------------------------------------------------------
\* Watching an order.

Register(o) ==
  /\ controllers' = [controllers EXCEPT ![IdOf[o]] = o]
  /\ live' = live \cup {IdOf[o]}

\* Mutant: the sweep is left to stop, the id is still under watch.
Unregister_StillLive(o) ==
  /\ controllers' = [controllers EXCEPT ![IdOf[o]] = Nothing]
  /\ UNCHANGED <<live, sweep>>

\* The finally of delegateOrder.
Unregister(o) ==
  /\ controllers' = [controllers EXCEPT ![IdOf[o]] = Nothing]
  /\ live' = live \ {IdOf[o]}
  /\ sweep' = (sweep /\ live' # {})

\* The finally of one retry: nobody looks whether the sweep is still needed.
UnregisterAttempt(o) ==
  /\ controllers' = [controllers EXCEPT ![IdOf[o]] = Nothing]
  /\ live' = live \ {IdOf[o]}
  /\ UNCHANGED sweep

-----------------------------------------------------------------------------
\* A call begins.

Accepted(c) == IF c \in Singles THEN Of(c) \ Refused ELSE Enqueued(Of(c) \ Refused)

Open(c) ==
  /\ thread = Nothing /\ call[c] = "idle" /\ ~down
  /\ \A d \in After[c] : call[d] = "over"
  /\ Accepted(c) # {}
  /\ call' = [call EXCEPT ![c] = "open"]
  /\ saved' = [saved EXCEPT ![c] = signal]
  /\ signal' = c
  /\ queue' = [queue EXCEPT ![c].entries = Accepted(c)]
  /\ order' = [o \in Orders |-> IF o \in Accepted(c)
                                 THEN [order[o] EXCEPT !.phase = "queued"] ELSE order[o]]
  /\ thread' = c
  /\ starters' = IF c \in Singles THEN 1 ELSE MaxWorkers
  /\ UNCHANGED <<aborted, watch, claim, upgrades, breaker, down, strays>>

\* delegateOrder turns the order away before it watches it.
TurnAway(o, p) ==
  /\ Moves(o, p, "bad", {})
  /\ UNCHANGED <<watch, claim>>

\* The order takes what it gets of its files, and the signal its call listens to.
Begins(o, p, v) ==
  order' = [order EXCEPT ![o].phase = p, ![o].verdict = v, ![o].held = Granted(o),
                         ![o].parent = signal]

\* delegateOrder from the order's controller to the start of its worker.
Launch(o) ==
  /\ Register(o) /\ sweep' = TRUE
  /\ AcquireClaims(o)
  /\ IF ClaimsConflict(o) THEN Begins(o, "leaving", "bad") ELSE Begins(o, "working", Nothing)

\* Only delegate asks the circuit, and only for a tier-locked profile.
AsksCircuit(o) == CallOf[o] \in Singles /\ o \in TierLocked

\* Mutant: the caller's signal is not looked at before an order starts.
Dispatch_IgnoresAbort(o) ==
  /\ UNCHANGED breaker
  /\ Launch(o)

Dispatch(o) ==
  /\ breaker' = IF AsksCircuit(o) /\ breaker.state = "cooled"
                THEN [breaker EXCEPT !.state = "halfOpen"] ELSE breaker
  /\ IF (AsksCircuit(o) /\ breaker.state = "open") \/ signal \in aborted
     THEN TurnAway(o, "packing")
     ELSE \/ "scope" \in Faults[o] /\ TurnAway(o, "packing")
          \/ "throws" \in Faults[o] /\ TurnAway(o, "throwing")
          \/ Launch(o)

(* One chain of processNext up to its first await: it takes an order and
   dispatches it, or finds none and ends. *)
ProcessNext(c) ==
  /\ thread = c
  /\ \/ /\ Runnable(queue[c]) = {}
        /\ starters' = 0 /\ thread' = Nothing
        /\ UNCHANGED <<queue, order, watch, claim, breaker>>
     \/ /\ Runnable(queue[c]) # {}
        /\ LET o == FirstRunnable(queue[c])
           IN /\ queue' = [queue EXCEPT ![c] = MarkInFlight(Dequeued(@, o), o)]
              /\ Dispatch(o)
        /\ starters' = starters - 1
        /\ thread' = IF starters = 1 THEN Nothing ELSE c
  /\ UNCHANGED <<calls, aborted, upgrades, down, strays>>

-----------------------------------------------------------------------------
\* The worker of an order.

\* A run stands: the order is no longer watched, and its summary may be expanded.
Keep(o, v) ==
  /\ Unregister(o)
  /\ breaker' = Recorded(o, v, breaker)
  /\ \E p \in {"packing"} \cup (IF v = "passed" THEN {"expanding"} ELSE {}) :
       Moves(o, p, v, {})

\* The synchronous part that follows the last retry.
ToDecide(o, v) == Moves(o, "deciding", v, {}) /\ thread' = o

Awaits(o, phases) == thread = Nothing /\ order[o].phase \in phases

\* The worker returns a result.
Return(o, v) ==
  /\ Awaits(o, {"working", "upgrading"}) /\ ~Fired(o)
  /\ ReleaseClaims(o)
  /\ Keep(o, v)
  /\ UNCHANGED <<calls, queue, thread, starters, aborted, upgrades, down, strays>>

\* A retry returns a result: for the circuit that alone is a success.
ReturnRetry(o, v) ==
  /\ Awaits(o, {"retrying"}) /\ ~Fired(o)
  /\ ReleaseClaims(o)
  /\ UnregisterAttempt(o)
  /\ breaker' = Recorded(o, "passed", breaker)
  /\ ToDecide(o, v)
  /\ UNCHANGED <<calls, queue, starters, aborted, upgrades, down, strays>>

\* The worker throws, and the backoff before the next retry begins.
ThrowAndRetry(o) ==
  /\ Awaits(o, {"working", "retrying"}) /\ ~Fired(o)
  /\ order[o].attempt < Retries[o]
  /\ ReleaseClaims(o)
  /\ IF order[o].phase = "retrying" THEN UnregisterAttempt(o) ELSE UNCHANGED watch
  /\ order' = [order EXCEPT ![o].phase = "backoff", ![o].attempt = @ + 1, ![o].held = {}]
  /\ UNCHANGED <<calls, queue, thread, starters, aborted, upgrades, breaker, down, strays>>

\* Mutant: a worker that fails by itself is left running.
Abandons_Deaf(o) == strays' = strays \cup ({o} \cap Writers)

(* wrapAbort has stopped waiting for the worker of o, which shares the signal
   and ends some time later; or that worker threw, and is over. *)
Abandons(o) == strays' = IF Fired(o) THEN strays \cup ({o} \cap Writers) ELSE strays

(* The worker throws with no retry left, or the order's controller fires
   under it.  A caller's abort of the first run, or an AbortError of its own,
   ends the order at once; a retry's only ends the retries. *)
Fail(o) ==
  /\ Awaits(o, {"working", "retrying"})
  /\ ReleaseClaims(o)
  /\ Abandons(o)
  /\ IF order[o].phase = "retrying" THEN UnregisterAttempt(o) ELSE UNCHANGED watch
  /\ \/ /\ order[o].phase = "working" /\ (CallerAborted(o) \/ ~Fired(o))
        /\ Moves(o, "leaving", "bad", {}) /\ UNCHANGED thread
     \/ /\ \/ order[o].phase = "retrying"
           \/ ~CallerAborted(o) /\ (Fired(o) \/ Retries[o] = 0)
        /\ ToDecide(o, Nothing)
  /\ UNCHANGED <<calls, queue, starters, aborted, upgrades, breaker, down>>

FailUpgrade(o) ==
  /\ Awaits(o, {"upgrading"})
  /\ ReleaseClaims(o)
  /\ Abandons(o)
  /\ Moves(o, "leaving", "bad", {})
  /\ UNCHANGED <<calls, queue, thread, starters, aborted, watch, upgrades, breaker, down>>

\* A worker that was told to stop has stopped.
StrayEnds(o) ==
  /\ thread = Nothing /\ o \in strays
  /\ strays' = strays \ {o}
  /\ UNCHANGED <<calls, queue, order, thread, starters, aborted, watch, claim, upgrades,
                 breaker, down>>

\* The backoff is over; the sweep, if it has stopped, is not started again.
EndBackoff(o) ==
  /\ Awaits(o, {"backoff"}) /\ ~Fired(o)
  /\ IF ClaimsConflict(o)
     THEN /\ UnregisterAttempt(o)
          /\ claim' = [f \in Files |-> IF f \in Granted(o) THEN Nothing ELSE claim[f]]
          /\ ToDecide(o, Nothing)
     ELSE /\ Register(o) /\ UNCHANGED sweep
          /\ AcquireClaims(o)
          /\ Moves(o, "retrying", Nothing, Granted(o))
          /\ UNCHANGED thread
  /\ UNCHANGED <<calls, queue, starters, aborted, upgrades, breaker, down, strays>>

\* Mutant: sleep does not listen to the signal.
CutBackoff_Deaf(o) ==
  /\ Awaits(o, {"backoff"}) /\ Fired(o)
  /\ UNCHANGED vars

CutBackoff(o) ==
  /\ Awaits(o, {"backoff"}) /\ Fired(o)
  /\ ToDecide(o, Nothing)
  /\ UNCHANGED <<calls, queue, starters, aborted, watch, claim, upgrades, breaker, down, strays>>

CanUpgrade(o) ==
  o \in Upgradable /\ Retries[o] > 0 /\ upgrades < MaxUpgrades

\* The order runs again with a stronger model.
Upgrade(o) ==
  /\ live' = live \cup {IdOf[o]}
  /\ UNCHANGED <<controllers, sweep, breaker>>
  /\ IF ClaimsConflict(o)
     THEN /\ claim' = [f \in Files |-> IF f \in Granted(o) THEN Nothing ELSE claim[f]]
          /\ Moves(o, "leaving", "bad", {})
          /\ UNCHANGED upgrades
     ELSE /\ AcquireClaims(o)
          /\ upgrades' = upgrades + 1
          /\ Moves(o, "upgrading", order[o].verdict, Granted(o))

\* There is no runtime for the stronger model: delegateOrder throws.
ThrowInUpgrade(o) ==
  /\ "upgrade" \in Faults[o]
  /\ Unregister(o)
  /\ Moves(o, "throwing", "bad", {})
  /\ UNCHANGED <<claim, upgrades, breaker>>

Decide(o) ==
  /\ thread = o /\ thread' = Nothing
  /\ IF CanUpgrade(o) THEN Upgrade(o) \/ ThrowInUpgrade(o)
     ELSE /\ IF order[o].verdict = Nothing
             THEN /\ Moves(o, "leaving", "bad", {})
                  /\ breaker' = Recorded(o, "bad", breaker)
                  /\ UNCHANGED watch
             ELSE Keep(o, order[o].verdict)
          /\ UNCHANGED <<claim, upgrades>>
  /\ UNCHANGED <<calls, queue, starters, aborted, down, strays>>

\* The run that works the brief summary out ends, well or badly.
EndExpansion(o) ==
  /\ Awaits(o, {"expanding"})
  /\ Moves(o, "packing", order[o].verdict, {})
  /\ UNCHANGED <<calls, queue, thread, starters, aborted, watch, claim, upgrades,
                 breaker, down, strays>>

-----------------------------------------------------------------------------
\* A result reaches its call.

(* delegateOrder has returned or thrown: what it still held is given back,
   the queue marks the order, whatever its verdict, and the chain goes on. *)
Settle(o) ==
  LET c == CallOf[o] IN
  /\ Awaits(o, {"leaving", "packing", "throwing"})
  /\ IF order[o].phase = "leaving" THEN Unregister(o) ELSE UNCHANGED watch
  /\ ReleaseClaims(o)
  /\ queue' = [queue EXCEPT ![c] = IF order[o].phase = "throwing"
                                   THEN MarkFailed(@, o) ELSE MarkCompleted(@, o)]
  /\ Moves(o, "answered", order[o].verdict, {})
  /\ thread' = c /\ starters' = 1
  /\ UNCHANGED <<calls, aborted, upgrades, breaker, down, strays>>

\* Every chain has ended: the orders that never could start are blocked.
Close(c) ==
  LET blocked == queue[c].entries IN
  /\ thread = Nothing /\ call[c] = "open" /\ queue[c].inFlight = {}
  /\ call' = [call EXCEPT ![c] = "closing"]
  /\ queue' = [queue EXCEPT ![c].failed = @ \cup {IdOf[o] : o \in blocked}]
  /\ order' = [o \in Orders |->
                 IF o \in blocked THEN [order[o] EXCEPT !.phase = "answered", !.verdict = "bad"]
                 ELSE order[o]]
  /\ UNCHANGED <<saved, signal, thread, starters, aborted, watch, claim, upgrades,
                 breaker, down, strays>>

\* The results are packed, and the call returns.
Deliver(c) ==
  /\ thread = Nothing /\ call[c] = "closing"
  /\ call' = [call EXCEPT ![c] = "over"]
  /\ signal' = saved[c]
  /\ UNCHANGED <<saved, queue, order, thread, starters, aborted, watch, claim,
                 upgrades, breaker, down, strays>>

-----------------------------------------------------------------------------
\* What stops workers, and the other processes.

\* The controllers of the orders S fire.
Fires(S) == order' = [o \in Orders |-> [order[o] EXCEPT !.own = @ \/ o \in S]]

ControlledBy(I) == {controllers[i] : i \in I} \ {Nothing}

(* A tick of the stall sweep finds the ids I silent for too long.  With
   nobody left to watch the interval is cleared. *)
SweepTick(I) ==
  /\ thread = Nothing /\ sweep
  /\ I # {} \/ live = {}
  /\ Fires(ControlledBy(I))
  /\ live' = live \ I
  /\ sweep' = (live' # {})
  /\ UNCHANGED <<calls, queue, thread, starters, aborted, controllers, claim,
                 upgrades, breaker, down, strays>>

\* killWorker; with no controller under the id it does nothing.
Kill(i) ==
  /\ thread = Nothing /\ controllers[i] # Nothing
  /\ Fires({controllers[i]})
  /\ UNCHANGED <<calls, queue, thread, starters, aborted, watch, claim, upgrades,
                 breaker, down, strays>>

CallerAborts(c) ==
  /\ thread = Nothing /\ call[c] = "open"
  /\ aborted' = aborted \cup {c}
  /\ UNCHANGED <<calls, queue, order, thread, starters, watch, claim, upgrades,
                 breaker, down, strays>>

Shutdown ==
  /\ MayShutDown /\ thread = Nothing /\ ~down
  /\ down' = TRUE
  /\ Fires(ControlledBy(Ids))
  /\ controllers' = [i \in Ids |-> Nothing]
  /\ sweep' = FALSE
  /\ UNCHANGED <<calls, queue, thread, starters, aborted, live, claim, upgrades, breaker,
                 strays>>

OtherClaims(f) ==
  /\ f \in Contested /\ claim[f] = Nothing
  /\ claim' = [claim EXCEPT ![f] = "other"]
  /\ UNCHANGED <<calls, queue, order, thread, starters, aborted, watch, upgrades,
                 breaker, down, strays>>

OtherReleases(f) ==
  /\ claim[f] = "other" /\ claim' = [claim EXCEPT ![f] = Nothing]
  /\ UNCHANGED <<calls, queue, order, thread, starters, aborted, watch, upgrades,
                 breaker, down, strays>>

Verdicts == {"passed", "bad"}

EndRun(o) ==
  \/ \E v \in Verdicts : Return(o, v) \/ ReturnRetry(o, v)
  \/ ThrowAndRetry(o) \/ Fail(o) \/ FailUpgrade(o) \/ EndExpansion(o)

Advance(o) == EndRun(o) \/ EndBackoff(o) \/ CutBackoff(o) \/ Decide(o) \/ Settle(o)

Progress(c) == ProcessNext(c) \/ Close(c) \/ Deliver(c)

Next ==
  \/ \E c \in Calls : Open(c) \/ Progress(c) \/ CallerAborts(c)
  \/ \E o \in Orders : Advance(o) \/ StrayEnds(o)
  \/ SweepTick({}) \/ \E i \in live : SweepTick({i})
  \/ \E i \in Ids : Kill(i)
  \/ \E f \in Files : OtherClaims(f) \/ OtherReleases(f)
  \/ CoolDown \/ Shutdown

Spec == Init /\ [][Next]_vars

(* A worker ends, or its budget timer aborts it.  The event loop runs what is
   ready, and timers go off.  Nothing is assumed of the workers nobody waits
   for. *)
FairSpec ==
  /\ Spec
  /\ \A o \in Orders : WF_vars(Advance(o))
  /\ \A c \in Calls : WF_vars(Progress(c))

-----------------------------------------------------------------------------
(* The batch keeps what OrderBatch promises: an order starts once and after
   those it depends on, is answered once, and is given up as blocked only
   when no chain is left and a dependency was never completed - whatever
   caps, file conflicts, kills and retries did to the chains before. *)
Status(o) ==
  CASE order[o].phase = "absent" -> "absent"
    [] order[o].phase = "queued" -> "waiting"
    [] order[o].phase = "answered" ->
         IF o \in queue[CallOf[o]].entries \/ IdOf[o] \in queue[CallOf[o]].failed
         THEN "failed" ELSE "done"
    [] OTHER -> "taken"

Batch == INSTANCE OrderBatch
         WITH status <- [o \in Orders |-> Status(o)],
              over   <- [c \in Calls |-> call[c] \in {"closing", "over"}]

BatchSpec == Batch!Spec

(* delegateBatch and delegate always return: every chain of processNext comes
   to its end, with workers that throw, are killed or find their files taken. *)
CallEnds == \A c \in Calls : call[c] = "open" ~> call[c] = "over"

(* Once every call is over nothing of an order is left: no controller, no id
   under watch, no claim of the session on a file. *)
NothingLeftBehind ==
  (\A c \in Calls : call[c] \in {"idle", "over"}) =>
    /\ \A i \in Ids : controllers[i] = Nothing
    /\ live = {}
    /\ \A f \in Files : claim[f] # "us"

\* The writers whose worker may be at work.
Writing == {o \in Writers : order[o].phase \in {"working", "retrying", "upgrading"}} \cup strays

(* The files an order was given stay claimed until the coordinator stops
   waiting for its worker, and by no other order of the batch: no sibling that
   ends, and no retry that finds a conflict, gives them away.  A worker that
   writes with less than its whole scope claimed has been told to stop
   (delegateOrder, acquireClaim, releaseClaim, wrapAbort). *)
HeldIsClaimed ==
  /\ \A o \in Orders : \A f \in order[o].held :
       /\ claim[f] = "us"
       /\ \A p \in Orders : f \in order[p].held => p = o \/ CallOf[p] # CallOf[o]
  /\ \A o \in Writing : order[o].held = Wanted(o) \/ Fired(o)

(* After the caller's abort no order of the call gets a new worker; an
   upgrade is the exception the code makes. *)
NoStartAfterAbort ==
  [][\A o \in Orders :
       /\ order[o].phase # order'[o].phase
       /\ order'[o].phase \in {"working", "retrying"}
       => CallOf[o] \notin aborted]_vars

(* An order's dependents run only when it succeeded. *)
DependentsNeedSuccess ==
  \A o, p \in Orders :
    /\ CallOf[o] = CallOf[p] /\ IdOf[p] \in DependsOn[o]
    /\ order[o].phase \in {"working", "retrying", "upgrading"}
    => order[p].verdict = "passed"

(* The claims keep two workers from writing one file at the same time, also
   when they belong to calls that overlap. *)
OneWriter ==
  \A o, p \in Orders : o # p => order[o].held \cap order[p].held = {}
=============================================================================
