---------------------------- MODULE TaskRegistry ----------------------------
(***************************************************************************)
(* The daemon's task registry (server/task-registry.ts) over its JSON      *)
(* store (server/task-store.ts) and a runtime pool.                        *)
(*                                                                         *)
(* Node runs a callback and every promise continuation it enqueues before  *)
(* the next timer, request or I/O event, and JsonTaskStore never really    *)
(* waits.  So a step below is one such run to completion: what the code    *)
(* does between two points where it waits for the outside world.  Inside   *)
(* such a run only a crash of the process can intervene; the two points    *)
(* where it would be visible on disk have a phase of their own:            *)
(* "scheduled" (the record is saved as pending, not yet as running) and    *)
(* "recovering" (the restart loop is half way).                            *)
(*                                                                         *)
(* A timestamp, a prompt, a result, an error text and the session id are   *)
(* left out.  A retry policy is its maxAttempts; 1 stands for none, since  *)
(* maybeScheduleRetry returns at once for both.                            *)
(***************************************************************************)
EXTENDS Naturals, FiniteSets

CONSTANTS
  Tasks,        \* task ids that may be generated
  Execs,        \* calls of scheduleExecution, one id each
  Keys,         \* idempotency keys callers use
  RetryKey,     \* stands for the `origin:retry:n` keys, used with force only
  NoExec,       \* absence of an entry in a map of executions
  ForceFlags,   \* the values of input.force callers pass
  Policies,     \* the values of retry.maxAttempts callers pass
  Timed,        \* whether the timeoutMs of callers is above 0 (it may be 0)
  PoolWaits,    \* whether pool.acquire may wait (SessionRuntimePool does not)
  MaxCrashes    \* bound: how many times the process stops

ASSUME NoExecAssumption == NoExec \notin Execs
ASSUME RetryKeyAssumption == RetryKey \notin Keys
ASSUME FlagsAssumption ==
  ForceFlags \subseteq BOOLEAN /\ Timed \subseteq BOOLEAN /\ PoolWaits \in BOOLEAN
ASSUME PoliciesAssumption == Policies \subseteq Nat \ {0}
ASSUME CrashAssumption == MaxCrashes \in Nat

VARIABLES
  status,       \* TaskRecord.status on disk; "none" while the id is not in use
  info,         \* the rest of TaskRecord: key, attempt, origin, policy, timeoutMs > 0
  phase,        \* how far each scheduleExecution call has come
  of,           \* the task each call executes
  aborted,      \* calls whose AbortController has been aborted
  armed,        \* calls whose timeout timer is still set in the event loop
  controller,   \* abortControllers: task -> the call whose controller it holds
  timerOf,      \* timeoutTimers: task -> the call whose timer it holds
  retries,      \* retryTimers: task -> timers pending for a retry of that task
  lost,         \* history: tasks whose retry timer went with a stop of the process
  proc,         \* the process: "up", "closing", "down" or "recovering"
  crashes       \* how many times it stopped

vars == <<status, info, phase, of, aborted, armed, controller, timerOf,
          retries, lost, proc, crashes>>

Terminal == {"completed", "failed", "cancelled", "timed_out"}
Active == {"pending", "running"}
Status == Active \cup Terminal \cup {"none"}
Phase == {"unused", "scheduled", "acquiring", "executing", "settled"}

Info == [key : Keys \cup {RetryKey}, attempt : Nat, origin : Tasks, policy : Nat,
         timed : BOOLEAN]
BlankInfo(t) == [key |-> RetryKey, attempt |-> 0, origin |-> t, policy |-> 0,
                 timed |-> FALSE]

-----------------------------------------------------------------------------
(* The status reducer.                                                     *)

STATUS_PRIORITY == [cancelled |-> 4, timed_out |-> 3, failed |-> 2,
                    completed |-> 1, pending |-> 0, running |-> 0]

\* Mutant: the ranking of terminal statuses is forgotten.
canTransition_Unranked(from, to) == from \in Active \cup Terminal

canTransition(from, to) ==
  \/ from \in Active
  \/ /\ from \in Terminal
     /\ STATUS_PRIORITY[to] > STATUS_PRIORITY[from]

\* Mutant: a timeout is not tried again.
WillRetry_FailedOnly(t, to) ==
  to = "failed" /\ info[t].attempt < info[t].policy

WillRetry(t, to) ==
  /\ to \in {"failed", "timed_out"}
  /\ info[t].attempt < info[t].policy

\* The timers that the cleanup of a transition clears.
Cleared(t, to) ==
  IF canTransition(status[t], to) /\ to \in Terminal THEN {timerOf[t]} ELSE {}

\* transition(): everything but the timers, which the caller also changes.
transition(t, to) ==
  \/ /\ canTransition(status[t], to)
     /\ status' = [status EXCEPT ![t] = to]
     /\ retries' = IF WillRetry(t, to)
                     THEN [retries EXCEPT ![t] = @ + 1] ELSE retries
     /\ \/ /\ to \in Terminal
           /\ controller' = [controller EXCEPT ![t] = NoExec]
           /\ timerOf' = [timerOf EXCEPT ![t] = NoExec]
        \/ /\ to \notin Terminal
           /\ UNCHANGED <<controller, timerOf>>
  \/ /\ ~canTransition(status[t], to)
     /\ UNCHANGED <<status, retries, controller, timerOf>>

-----------------------------------------------------------------------------
Live(e) == phase[e] \in {"scheduled", "acquiring", "executing"}

\* No run to completion is under way: timers and requests may be served.
EventLoopIdle ==
  /\ proc \in {"up", "closing"}
  /\ \A e \in Execs : phase[e] # "scheduled"
  /\ PoolWaits \/ \A e \in Execs : phase[e] # "acquiring"

Init ==
  /\ status = [t \in Tasks |-> "none"]
  /\ info = [t \in Tasks |-> BlankInfo(t)]
  /\ phase = [e \in Execs |-> "unused"]
  /\ \E t \in Tasks : of = [e \in Execs |-> t]
  /\ aborted = {}
  /\ armed = {}
  /\ controller = [t \in Tasks |-> NoExec]
  /\ timerOf = [t \in Tasks |-> NoExec]
  /\ retries = [t \in Tasks |-> 0]
  /\ lost = {}
  /\ proc = "up"
  /\ crashes = 0

\* scheduleExecution(record) is entered.
Schedule(e, t) ==
  /\ phase[e] = "unused"
  /\ phase' = [phase EXCEPT ![e] = "scheduled"]
  /\ of' = [of EXCEPT ![e] = t]

\* The new record of createTask is saved; it is its own origin unless a retry.
SaveNew(t, key, attempt, origin, policy, timed) ==
  /\ status[t] = "none"
  /\ status' = [status EXCEPT ![t] = "pending"]
  /\ info' = [info EXCEPT ![t] = [key |-> key, attempt |-> attempt, origin |-> origin,
                                  policy |-> policy, timed |-> timed]]

findActiveByIdempotencyKey(k) ==
  {t \in Tasks : status[t] \in Active /\ info[t].key = k}

\* createTask that finds no active task under its key, or is forced.
createTaskNew(t, e, k, force, policy, timed) ==
  /\ EventLoopIdle
  /\ proc = "up"
  /\ force \/ findActiveByIdempotencyKey(k) = {}
  /\ SaveNew(t, k, 1, t, policy, timed)
  /\ Schedule(e, t)
  /\ UNCHANGED <<aborted, armed, controller, timerOf, retries, lost, proc, crashes>>

\* createTask that finds one: the record is returned, and scheduled once more.
createTaskExisting(t, e, k) ==
  /\ EventLoopIdle
  /\ proc = "up"
  /\ FALSE \in ForceFlags
  /\ t \in findActiveByIdempotencyKey(k)
  /\ Schedule(e, t)
  /\ UNCHANGED <<status, info, aborted, armed, controller, timerOf, retries,
                 lost, proc, crashes>>

\* Mutant: the timeout timer is not set.
Start_NoTimer(e) ==
  /\ phase[e] = "scheduled"
  /\ status' = [status EXCEPT ![of[e]] =
                  IF canTransition(@, "running") THEN "running" ELSE @]
  /\ controller' = [controller EXCEPT ![of[e]] = e]
  /\ phase' = [phase EXCEPT ![e] = "acquiring"]
  /\ UNCHANGED <<info, of, aborted, armed, timerOf, retries, lost, proc, crashes>>

\* scheduleExecution up to its await of acquire.
Start(e) ==
  LET t == of[e] IN
  /\ phase[e] = "scheduled"
  /\ \/ /\ canTransition(status[t], "running")
        /\ status' = [status EXCEPT ![t] = "running"]
     \/ /\ ~canTransition(status[t], "running")
        /\ UNCHANGED status
  /\ controller' = [controller EXCEPT ![t] = e]
  /\ \/ /\ info[t].timed
        /\ timerOf' = [timerOf EXCEPT ![t] = e]
        /\ armed' = armed \cup {e}
     \/ /\ ~info[t].timed
        /\ UNCHANGED <<timerOf, armed>>
  /\ phase' = [phase EXCEPT ![e] = "acquiring"]
  /\ UNCHANGED <<info, of, aborted, retries, lost, proc, crashes>>

\* acquire answers: an execution aborted meanwhile ends here.
Acquired(e) ==
  /\ proc \in {"up", "closing"}
  /\ \A x \in Execs : phase[x] # "scheduled"
  /\ phase[e] = "acquiring"
  /\ phase' = [phase EXCEPT ![e] = IF e \in aborted THEN "settled" ELSE "executing"]
  /\ UNCHANGED <<status, info, of, aborted, armed, controller, timerOf, retries,
                 lost, proc, crashes>>

\* execute() resolves.
Resolve(e) ==
  /\ EventLoopIdle
  /\ phase[e] = "executing"
  /\ phase' = [phase EXCEPT ![e] = "settled"]
  /\ transition(of[e], "completed")
  /\ armed' = armed \ Cleared(of[e], "completed")
  /\ UNCHANGED <<info, of, aborted, lost, proc, crashes>>

\* What the catch block makes of an error, by the state of the call's signal.
FailureStatus(e) == IF e \in aborted THEN "cancelled" ELSE "failed"

\* acquire() or execute() throws.
Throw(e) ==
  LET t == of[e]
      to == FailureStatus(e)
  IN
  /\ EventLoopIdle
  /\ phase[e] \in {"acquiring", "executing"}
  /\ phase' = [phase EXCEPT ![e] = "settled"]
  /\ \/ /\ e \in aborted
        /\ status[t] \in {"timed_out", "cancelled"}
        /\ UNCHANGED <<status, armed, controller, timerOf, retries>>
     \/ /\ e \in aborted => status[t] \notin {"timed_out", "cancelled"}
        /\ transition(t, to)
        /\ armed' = armed \ Cleared(t, to)
  /\ UNCHANGED <<info, of, aborted, lost, proc, crashes>>

\* The timeout timer of a call fires, whether or not the call still runs.
Timeout(e) ==
  LET t == of[e] IN
  /\ EventLoopIdle
  /\ e \in armed
  /\ aborted' = aborted \cup {e}
  /\ transition(t, "timed_out")
  /\ armed' = armed \ ({e} \cup Cleared(t, "timed_out"))
  /\ UNCHANGED <<info, phase, of, lost, proc, crashes>>

\* Mutant: cancelling writes the status only.
cancel_NoAbort(t) ==
  /\ EventLoopIdle
  /\ status[t] # "none"
  /\ transition(t, "cancelled")
  /\ armed' = armed \ Cleared(t, "cancelled")
  /\ UNCHANGED <<info, phase, of, aborted, lost, proc, crashes>>

\* POST /tasks/:id/cancel.
cancel(t) ==
  /\ EventLoopIdle
  /\ status[t] # "none"
  /\ aborted' = aborted \cup ({controller[t]} \ {NoExec})
  /\ transition(t, "cancelled")
  /\ armed' = armed \ Cleared(t, "cancelled")
  /\ UNCHANGED <<info, phase, of, lost, proc, crashes>>

\* A retry timer fires: createTask with force and the next attempt.
RetryFire(t, n, e) ==
  /\ EventLoopIdle
  /\ retries[t] > 0
  /\ retries' = [retries EXCEPT ![t] = @ - 1]
  /\ SaveNew(n, RetryKey, info[t].attempt + 1, info[t].origin, info[t].policy,
             info[t].timed)
  /\ Schedule(e, n)
  /\ UNCHANGED <<aborted, armed, controller, timerOf, lost, proc, crashes>>

\* The tasks a retry timer waits for: nothing on disk says so.
Waiting == {t \in Tasks : retries[t] > 0}

\* Shutdown: dispose() clears every timer the registry can still name (taken
\* only where the bound still lets the process end).
dispose ==
  /\ EventLoopIdle
  /\ proc = "up"
  /\ crashes < MaxCrashes
  /\ proc' = "closing"
  /\ retries' = [t \in Tasks |-> 0]
  /\ lost' = lost \cup Waiting
  /\ armed' = armed \ {timerOf[t] : t \in Tasks}
  /\ timerOf' = [t \in Tasks |-> NoExec]
  /\ UNCHANGED <<status, info, phase, of, aborted, controller, crashes>>

\* The process ends, at any point: only the store survives.
Crash ==
  /\ proc # "down"
  /\ crashes < MaxCrashes
  /\ crashes' = crashes + 1
  /\ proc' = "down"
  /\ phase' = [e \in Execs |-> IF phase[e] = "unused" THEN "unused" ELSE "settled"]
  /\ aborted' = {}
  /\ armed' = {}
  /\ controller' = [t \in Tasks |-> NoExec]
  /\ timerOf' = [t \in Tasks |-> NoExec]
  /\ retries' = [t \in Tasks |-> 0]
  /\ lost' = lost \cup Waiting
  /\ UNCHANGED <<status, info, of>>

\* The next process starts, as the owner of the cron lock.
Restart ==
  /\ proc = "down"
  /\ proc' = "recovering"
  /\ UNCHANGED <<status, info, phase, of, aborted, armed, controller, timerOf,
                 retries, lost, crashes>>

\* Mutant: recovery stores a status of its own.
recoverStaleTask_Interrupted(t) ==
  /\ proc = "recovering"
  /\ status[t] = "running"
  /\ transition(t, "interrupted")
  /\ UNCHANGED <<info, phase, of, aborted, armed, lost, proc, crashes>>

\* One turn of the loop of recoverStaleTasks.
recoverStaleTask(t) ==
  /\ proc = "recovering"
  /\ status[t] = "running"
  /\ transition(t, "timed_out")
  /\ armed' = armed \ Cleared(t, "timed_out")
  /\ UNCHANGED <<info, phase, of, aborted, lost, proc, crashes>>

\* Mutant: the process is up before the running records are recovered.
Recovered_Early ==
  /\ proc = "recovering"
  /\ proc' = "up"
  /\ UNCHANGED <<status, info, phase, of, aborted, armed, controller, timerOf,
                 retries, lost, crashes>>

Recovered ==
  /\ proc = "recovering"
  /\ \A t \in Tasks : status[t] # "running"
  /\ proc' = "up"
  /\ UNCHANGED <<status, info, phase, of, aborted, armed, controller, timerOf,
                 retries, lost, crashes>>

createTask ==
  \E t \in Tasks, e \in Execs, k \in Keys :
    \/ \E f \in ForceFlags, p \in Policies, b \in Timed :
         createTaskNew(t, e, k, f, p, b)
    \/ createTaskExisting(t, e, k)

Next ==
  \/ createTask
  \/ \E e \in Execs : \/ Start(e) \/ Acquired(e) \/ Resolve(e) \/ Throw(e)
                      \/ Timeout(e)
  \/ \E t \in Tasks : cancel(t) \/ recoverStaleTask(t)
  \/ \E t, n \in Tasks, e \in Execs : RetryFire(t, n, e)
  \/ dispose
  \/ Crash
  \/ Restart
  \/ Recovered

Spec == Init /\ [][Next]_vars

(***************************************************************************)
(* Fairness: Node runs a started callback to its end, fires a timer that   *)
(* stays set, and exits once it is closing; the service manager starts the *)
(* process again.  Nothing is assumed of the runtime: it may never answer. *)
(***************************************************************************)
Fairness ==
  /\ \A e \in Execs : WF_vars(Start(e)) /\ WF_vars(Timeout(e))
  /\ \A e \in Execs : WF_vars(~PoolWaits /\ Acquired(e))
  /\ \A t \in Tasks : WF_vars(recoverStaleTask(t))
  /\ WF_vars(Recovered)
  /\ WF_vars(Restart)
  /\ WF_vars(proc = "closing" /\ Crash)

FairSpec == Spec /\ Fairness

-----------------------------------------------------------------------------
(* Properties.                                                             *)

\* Every variable has the type its declaration gives it.
TypeOK ==
  /\ status \in [Tasks -> Status]
  /\ info \in [Tasks -> Info]
  /\ phase \in [Execs -> Phase]
  /\ of \in [Execs -> Tasks]
  /\ aborted \subseteq Execs
  /\ armed \subseteq Execs
  /\ controller \in [Tasks -> Execs \cup {NoExec}]
  /\ timerOf \in [Tasks -> Execs \cup {NoExec}]
  /\ retries \in [Tasks -> Nat]
  /\ lost \subseteq Tasks
  /\ proc \in {"up", "closing", "down", "recovering"}
  /\ crashes \in Nat

\* An execution is only ever aborted for a task that has timed out or been
\* cancelled, and no later answer of that execution or of another one takes
\* this verdict back (the catch block of scheduleExecution against the timer
\* and cancel()).
AbortedIsDecided ==
  \A e \in aborted : status[of[e]] \in {"timed_out", "cancelled"}

\* A record says "running" only while some call of scheduleExecution is there
\* to end it: neither a restart, nor an abort before the runtime is acquired,
\* nor a lost answer leaves a record running for ever.
RunningIsExecuting ==
  proc \in {"up", "closing"} =>
    \A t \in Tasks : status[t] = "running" => \E e \in Execs : Live(e) /\ of[e] = t

\* No deduplicated call has scheduled the task a second time.
ScheduledOnce(t) ==
  \A e, x \in Execs :
    /\ phase[e] # "unused" /\ of[e] = t
    /\ phase[x] # "unused" /\ of[x] = t
    => e = x

\* Once the record of a task scheduled once is terminal, its execution has been
\* told to stop: cancel(), the timeout and the recovery leave nothing running
\* behind a terminal record.
TerminalIsStopping ==
  \A e \in Execs :
    Live(e) /\ status[of[e]] \in Terminal /\ ScheduledOnce(of[e]) => e \in aborted

\* Each attempt of a retry chain is created once, and at most one timer waits
\* to create the next (maybeScheduleRetry against the several transitions that
\* can reach a terminal record); no chain is longer than its policy.
Succeeds(n, t) ==
  /\ status[n] # "none"
  /\ info[n].origin = info[t].origin
  /\ info[n].attempt = info[t].attempt + 1

RetryChainIsLinear ==
  \A t \in Tasks : status[t] # "none" /\ ScheduledOnce(info[t].origin) =>
    /\ info[t].attempt <= info[t].policy
    /\ retries[t] <= 1
    /\ retries[t] = 1 => ~ \E n \in Tasks : Succeeds(n, t)
    /\ \A n, m \in Tasks : Succeeds(n, t) /\ Succeeds(m, t) => n = m

\* A failed or timed-out task with attempts left is not forgotten, in the
\* process that ended it or recovered it or in any later one: its retry is
\* waiting or has been created, unless a process stopped while it waited (the
\* timers are the only place where the code keeps it).
RetryIsPending ==
  \A t \in Tasks :
    /\ status[t] \in {"failed", "timed_out"}
    /\ info[t].attempt < info[t].policy
    => retries[t] > 0 \/ t \in lost \/ \E n \in Tasks : Succeeds(n, t)

\* A failed or timed-out attempt with attempts left has one more waiting or
\* created, never two, whatever transitions, cancels, restarts and forced calls
\* come between, recovered records included; only a process that stops in the
\* backoff loses it (maybeScheduleRetry, task-registry.ts:236-274).
OneRetryFollows == RetryChainIsLinear /\ RetryIsPending

\* Cancelling is aborting: every execution of a cancelled task has been aborted.
CancelAborts ==
  \A e \in Execs : Live(e) /\ status[of[e]] = "cancelled" => e \in aborted

\* A running task with a timeout comes to an end even if its runtime never
\* answers: the timeout or the recovery of the next process ends it.
RunningEnds ==
  \A t \in Tasks :
    status[t] = "running" /\ info[t].timed ~> status[t] \in Terminal

\* The registry implements the abstract life cycle of a task.
Lifecycle == INSTANCE TaskLifecycle
ImplementsLifecycle == Lifecycle!Spec
=============================================================================
