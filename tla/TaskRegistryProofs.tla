------------------------- MODULE TaskRegistryProofs -------------------------
(***************************************************************************)
(* Theorems about TaskRegistry, for any sets of tasks, executions and keys *)
(* and any bounds.                                                         *)
(***************************************************************************)
EXTENDS TaskRegistry, TLAPS

-----------------------------------------------------------------------------
(* The reducer.                                                            *)

\* Every terminal verdict "cancelled" and "timed_out" is final except that a
\* timeout may still be cancelled; canTransition, task-store.ts.
LEMMA VerdictStays ==
  ASSUME NEW s \in {"timed_out", "cancelled"}, NEW to \in Status \ {"none"},
         canTransition(s, to)
  PROVE  to = "cancelled"
BY DEF canTransition, STATUS_PRIORITY, Status, Active, Terminal

\* A cancel and a timeout are refused only where the verdict is already one of
\* the two; canTransition, task-store.ts.
LEMMA VerdictReached ==
  ASSUME NEW s \in Status \ {"none"}, NEW to \in {"timed_out", "cancelled"}
  PROVE  canTransition(s, to) \/ s \in {"timed_out", "cancelled"}
BY DEF canTransition, STATUS_PRIORITY, Status, Active, Terminal

\* Nothing leads out of a terminal status but to another terminal status.
LEMMA TerminalStays ==
  ASSUME NEW s \in Terminal, NEW to \in Status \ {"none"}, canTransition(s, to)
  PROVE  to \in Terminal
BY DEF canTransition, STATUS_PRIORITY, Status, Active, Terminal

-----------------------------------------------------------------------------
(* Type correctness.                                                       *)

\* transition() keeps the variables it writes in their types.
LEMMA TransitionType ==
  ASSUME TypeOK, NEW t \in Tasks, NEW to \in Status, transition(t, to)
  PROVE  /\ status' \in [Tasks -> Status]
         /\ controller' \in [Tasks -> Execs \cup {NoExec}]
         /\ timerOf' \in [Tasks -> Execs \cup {NoExec}]
         /\ retries' \in [Tasks -> Nat]
BY DEF TypeOK, transition

\* Every step keeps every variable in its type.
LEMMA TypeStep == TypeOK /\ [Next]_vars => TypeOK'
<1> SUFFICES ASSUME TypeOK, [Next]_vars PROVE TypeOK' OBVIOUS
<1>1. ASSUME NEW t \in Tasks, NEW e \in Execs, NEW k \in Keys,
             NEW f \in ForceFlags, NEW p \in Policies, NEW b \in Timed,
             createTaskNew(t, e, k, f, p, b)
      PROVE  TypeOK'
  BY <1>1, PoliciesAssumption, FlagsAssumption
     DEF createTaskNew, SaveNew, Schedule, TypeOK, Status, Active, Phase, Info
<1>2. ASSUME NEW t \in Tasks, NEW e \in Execs, NEW k \in Keys,
             createTaskExisting(t, e, k)
      PROVE  TypeOK'
  BY <1>2 DEF createTaskExisting, Schedule, TypeOK, Phase
<1>3. ASSUME NEW e \in Execs, Start(e) PROVE TypeOK'
  BY <1>3 DEF Start, TypeOK, Status, Active, Phase
<1>4. ASSUME NEW e \in Execs, Acquired(e) PROVE TypeOK'
  BY <1>4 DEF Acquired, TypeOK, Phase
<1>5. ASSUME NEW e \in Execs, Resolve(e) PROVE TypeOK'
  <2>1. of[e] \in Tasks /\ "completed" \in Status
    BY DEF TypeOK, Status, Terminal
  <2> QED BY <1>5, <2>1, TransitionType DEF Resolve, TypeOK, Phase
<1>6. ASSUME NEW e \in Execs, Throw(e) PROVE TypeOK'
  <2>1. of[e] \in Tasks /\ FailureStatus(e) \in Status
    BY DEF TypeOK, Status, Terminal, FailureStatus
  <2> QED BY <1>6, <2>1, TransitionType DEF Throw, TypeOK, Phase
<1>7. ASSUME NEW e \in Execs, Timeout(e) PROVE TypeOK'
  <2>1. of[e] \in Tasks /\ "timed_out" \in Status
    BY DEF TypeOK, Status, Terminal
  <2> QED BY <1>7, <2>1, TransitionType DEF Timeout, TypeOK
<1>8. ASSUME NEW t \in Tasks, cancel(t) PROVE TypeOK'
  <2>1. "cancelled" \in Status BY DEF Status, Terminal
  <2> QED BY <1>8, <2>1, TransitionType DEF cancel, TypeOK
<1>9. ASSUME NEW t \in Tasks, recoverStaleTask(t) PROVE TypeOK'
  <2>1. "timed_out" \in Status BY DEF Status, Terminal
  <2> QED BY <1>9, <2>1, TransitionType DEF recoverStaleTask, TypeOK
<1>10. ASSUME NEW t \in Tasks, NEW n \in Tasks, NEW e \in Execs, RetryFire(t, n, e)
       PROVE  TypeOK'
  BY <1>10 DEF RetryFire, SaveNew, Schedule, TypeOK, Status, Active, Phase, Info
<1>11. CASE dispose BY <1>11 DEF dispose, Waiting, TypeOK
<1>12. CASE Crash BY <1>12 DEF Crash, Waiting, TypeOK, Phase
<1>13. CASE Restart BY <1>13 DEF Restart, TypeOK
<1>14. CASE Recovered BY <1>14 DEF Recovered, TypeOK
<1>15. CASE UNCHANGED vars BY <1>15 DEF vars, TypeOK
<1> QED
  BY <1>1, <1>2, <1>3, <1>4, <1>5, <1>6, <1>7, <1>8, <1>9, <1>10, <1>11, <1>12,
     <1>13, <1>14, <1>15 DEF Next, createTask

\* The types hold at the start.
LEMMA TypeInit == Init => TypeOK
BY CrashAssumption DEF Init, TypeOK, Status, Info, BlankInfo, Phase

\* The registry's variables keep their types.
THEOREM TypeCorrect == Spec => []TypeOK
BY TypeInit, TypeStep, PTL DEF Spec

-----------------------------------------------------------------------------
(* Aborted executions and running records.                                 *)

\* Where an execution may be named: a timer, a controller and an abort belong
\* to a call that has started, a controller to a call for its own task, and a
\* call to a task that exists.
NamesStarted ==
  /\ \A e \in aborted \cup armed : phase[e] \notin {"unused", "scheduled"}
  /\ \A t \in Tasks : controller[t] # NoExec =>
       /\ phase[controller[t]] \notin {"unused", "scheduled"}
       /\ of[controller[t]] = t
  /\ \A e \in Execs : phase[e] # "unused" => status[of[e]] # "none"

VerdictInv == TypeOK /\ NamesStarted /\ AbortedIsDecided

\* What transition() does to the statuses and the controllers.
LEMMA TransitionEffect ==
  ASSUME TypeOK, NEW t \in Tasks, NEW to \in Status, transition(t, to)
  PROVE  /\ \A x \in Tasks \ {t} : status'[x] = status[x]
         /\ status'[t] = IF canTransition(status[t], to) THEN to ELSE status[t]
         /\ \A x \in Tasks : controller'[x] \in {controller[x], NoExec}
BY DEF TypeOK, transition

\* A verdict survives every transition, and a cancel or a timeout always
\* reaches one.
LEMMA VerdictKept ==
  ASSUME TypeOK, NEW t \in Tasks, NEW to \in Status \ {"none"}, transition(t, to)
  PROVE  /\ \A x \in Tasks : status[x] \in {"timed_out", "cancelled"} =>
                             status'[x] \in {"timed_out", "cancelled"}
         /\ \A x \in Tasks : status[x] # "none" => status'[x] # "none"
         /\ to \in {"timed_out", "cancelled"} /\ status[t] # "none" =>
                             status'[t] \in {"timed_out", "cancelled"}
<1>1. to \in Status \ {"none"} /\ status[t] \in Status BY DEF TypeOK
<1>2. status[t] \in {"timed_out", "cancelled"} /\ canTransition(status[t], to)
        => to = "cancelled"
  BY <1>1, VerdictStays
<1>3. to \in {"timed_out", "cancelled"} /\ status[t] # "none"
        => canTransition(status[t], to) \/ status[t] \in {"timed_out", "cancelled"}
  BY <1>1, VerdictReached
<1>4. /\ \A x \in Tasks \ {t} : status'[x] = status[x]
      /\ \/ canTransition(status[t], to) /\ status'[t] = to
         \/ ~canTransition(status[t], to) /\ status'[t] = status[t]
  BY TransitionEffect
<1> QED BY <1>1, <1>2, <1>3, <1>4

\* Every step keeps VerdictInv.
LEMMA VerdictStep == VerdictInv /\ [Next]_vars => VerdictInv'
<1> SUFFICES ASSUME VerdictInv, [Next]_vars PROVE NamesStarted' /\ AbortedIsDecided'
  BY TypeStep DEF VerdictInv
<1> USE DEF VerdictInv
<1> USE NoExecAssumption
<1>1. ASSUME NEW t \in Tasks, NEW e \in Execs, NEW k \in Keys,
             NEW f \in ForceFlags, NEW p \in Policies, NEW b \in Timed,
             createTaskNew(t, e, k, f, p, b)
      PROVE  NamesStarted' /\ AbortedIsDecided'
  BY <1>1 DEF createTaskNew, SaveNew, Schedule, TypeOK, NamesStarted, AbortedIsDecided
<1>2. ASSUME NEW t \in Tasks, NEW e \in Execs, NEW k \in Keys,
             createTaskExisting(t, e, k)
      PROVE  NamesStarted' /\ AbortedIsDecided'
  BY <1>2 DEF createTaskExisting, findActiveByIdempotencyKey, Active, Schedule,
              TypeOK, NamesStarted, AbortedIsDecided
<1>3. ASSUME NEW e \in Execs, Start(e) PROVE NamesStarted' /\ AbortedIsDecided'
  BY <1>3 DEF Start, TypeOK, NamesStarted, AbortedIsDecided, canTransition, Active,
              Terminal, STATUS_PRIORITY
<1>4. ASSUME NEW e \in Execs, Acquired(e) PROVE NamesStarted' /\ AbortedIsDecided'
  BY <1>4 DEF Acquired, TypeOK, NamesStarted, AbortedIsDecided
<1>5. ASSUME NEW e \in Execs, Resolve(e) PROVE NamesStarted' /\ AbortedIsDecided'
  <2>1. of[e] \in Tasks /\ "completed" \in Status \ {"none"}
    BY DEF TypeOK, Status, Terminal
  <2> QED BY <1>5, <2>1, VerdictKept, TransitionEffect
          DEF Resolve, TypeOK, NamesStarted, AbortedIsDecided
<1>6. ASSUME NEW e \in Execs, Throw(e) PROVE NamesStarted' /\ AbortedIsDecided'
  <2>1. of[e] \in Tasks /\ FailureStatus(e) \in Status \ {"none"}
    BY DEF TypeOK, Status, Terminal, FailureStatus
  <2> QED BY <1>6, <2>1, VerdictKept, TransitionEffect
          DEF Throw, TypeOK, NamesStarted, AbortedIsDecided
<1>7. ASSUME NEW e \in Execs, Timeout(e) PROVE NamesStarted' /\ AbortedIsDecided'
  <2>1. of[e] \in Tasks /\ "timed_out" \in Status \ {"none"}
    BY DEF TypeOK, Status, Terminal
  <2> QED BY <1>7, <2>1, VerdictKept, TransitionEffect
          DEF Timeout, TypeOK, NamesStarted, AbortedIsDecided
<1>8. ASSUME NEW t \in Tasks, cancel(t) PROVE NamesStarted' /\ AbortedIsDecided'
  <2>1. "cancelled" \in Status \ {"none"} BY DEF Status, Terminal
  <2> QED BY <1>8, <2>1, VerdictKept, TransitionEffect
          DEF cancel, TypeOK, NamesStarted, AbortedIsDecided
<1>9. ASSUME NEW t \in Tasks, recoverStaleTask(t)
      PROVE  NamesStarted' /\ AbortedIsDecided'
  <2>1. "timed_out" \in Status \ {"none"} BY DEF Status, Terminal
  <2> QED BY <1>9, <2>1, VerdictKept, TransitionEffect
          DEF recoverStaleTask, TypeOK, NamesStarted, AbortedIsDecided
<1>10. ASSUME NEW t \in Tasks, NEW n \in Tasks, NEW e \in Execs, RetryFire(t, n, e)
       PROVE  NamesStarted' /\ AbortedIsDecided'
  BY <1>10 DEF RetryFire, SaveNew, Schedule, TypeOK, NamesStarted, AbortedIsDecided
<1>11. CASE dispose BY <1>11 DEF dispose, TypeOK, NamesStarted, AbortedIsDecided
<1>12. CASE Crash BY <1>12 DEF Crash, TypeOK, NamesStarted, AbortedIsDecided
<1>13. CASE Restart BY <1>13 DEF Restart, NamesStarted, AbortedIsDecided
<1>14. CASE Recovered BY <1>14 DEF Recovered, NamesStarted, AbortedIsDecided
<1>15. CASE UNCHANGED vars BY <1>15 DEF vars, NamesStarted, AbortedIsDecided
<1> QED
  BY <1>1, <1>2, <1>3, <1>4, <1>5, <1>6, <1>7, <1>8, <1>9, <1>10, <1>11, <1>12,
     <1>13, <1>14, <1>15 DEF Next, createTask

\* Nothing is aborted at the start.
LEMMA VerdictInit == Init => VerdictInv
<1> SUFFICES ASSUME Init PROVE NamesStarted /\ AbortedIsDecided
  BY TypeInit DEF VerdictInv
<1> QED BY DEF Init, NamesStarted, AbortedIsDecided

\* An execution is only aborted for a task whose verdict is timed_out or
\* cancelled, and the verdict stands (scheduleExecution, cancel).
THEOREM AbortedDecided == Spec => []AbortedIsDecided
<1>1. Spec => []VerdictInv BY VerdictInit, VerdictStep, PTL DEF Spec
<1>2. VerdictInv => AbortedIsDecided BY DEF VerdictInv
<1> QED BY <1>1, <1>2, PTL

\* A transition to a terminal status leaves its task terminal and makes no
\* record run.
LEMMA EndedStays ==
  ASSUME TypeOK, NEW t \in Tasks, NEW to \in Terminal, transition(t, to),
         status[t] # "none"
  PROVE  /\ status'[t] \in Terminal
         /\ \A x \in Tasks \ {t} : status'[x] = status[x]
         /\ \A x \in Tasks : status'[x] = "running" => x # t /\ status[x] = "running"
<1>1. to \in Status /\ status[t] \in Status BY DEF TypeOK, Status
<1>2. canTransition(status[t], to) \/ status[t] \in Terminal
  BY <1>1 DEF canTransition, Status
<1>3. /\ \A x \in Tasks \ {t} : status'[x] = status[x]
      /\ \/ canTransition(status[t], to) /\ status'[t] = to
         \/ ~canTransition(status[t], to) /\ status'[t] = status[t]
  BY <1>1, TransitionEffect
<1>4. status'[t] \in Terminal BY <1>2, <1>3
<1> QED BY <1>3, <1>4 DEF Terminal

RunningInv == VerdictInv /\ RunningIsExecuting

\* Every step keeps RunningInv.
LEMMA RunningStep == RunningInv /\ [Next]_vars => RunningInv'
<1> SUFFICES ASSUME RunningInv, [Next]_vars PROVE RunningIsExecuting'
  BY VerdictStep DEF RunningInv
<1> USE DEF RunningInv, VerdictInv
<1>0. TypeOK' BY TypeStep
<1>1. ASSUME NEW t \in Tasks, NEW e \in Execs, NEW k \in Keys,
             NEW f \in ForceFlags, NEW p \in Policies, NEW b \in Timed,
             createTaskNew(t, e, k, f, p, b)
      PROVE  RunningIsExecuting'
  BY <1>1 DEF createTaskNew, EventLoopIdle, SaveNew, Schedule, TypeOK, RunningIsExecuting, Live
<1>2. ASSUME NEW t \in Tasks, NEW e \in Execs, NEW k \in Keys,
             createTaskExisting(t, e, k)
      PROVE  RunningIsExecuting'
  BY <1>2 DEF createTaskExisting, EventLoopIdle, Schedule, TypeOK, RunningIsExecuting, Live
<1>3. ASSUME NEW e \in Execs, Start(e) PROVE RunningIsExecuting'
  BY <1>3 DEF Start, TypeOK, RunningIsExecuting, Live
<1>4. ASSUME NEW e \in Execs, Acquired(e) PROVE RunningIsExecuting'
  <2>1. e \in aborted => status[of[e]] # "running" BY DEF AbortedIsDecided
  <2> QED BY <1>4, <2>1 DEF Acquired, TypeOK, RunningIsExecuting, Live
<1>5. ASSUME NEW e \in Execs, Resolve(e) PROVE RunningIsExecuting'
  <2>1. of[e] \in Tasks /\ "completed" \in Terminal /\ status[of[e]] # "none"
    BY <1>5 DEF TypeOK, Terminal, NamesStarted, Resolve
  <2>2. \A x \in Tasks : status'[x] = "running" => x # of[e] /\ status[x] = "running"
    BY <1>5, <2>1, EndedStays DEF Resolve
  <2> QED BY <1>5, <2>2 DEF Resolve, EventLoopIdle, TypeOK, RunningIsExecuting, Live
<1>6. ASSUME NEW e \in Execs, Throw(e) PROVE RunningIsExecuting'
  <2>1. of[e] \in Tasks /\ FailureStatus(e) \in Terminal /\ status[of[e]] # "none"
    BY <1>6 DEF TypeOK, Terminal, FailureStatus, NamesStarted, Throw
  <2>2. \A x \in Tasks : status'[x] = "running" => x # of[e] /\ status[x] = "running"
    BY <1>6, <2>1, EndedStays DEF Throw
  <2> QED BY <1>6, <2>2 DEF Throw, EventLoopIdle, TypeOK, RunningIsExecuting, Live
<1>7. ASSUME NEW e \in Execs, Timeout(e) PROVE RunningIsExecuting'
  <2>1. of[e] \in Tasks /\ "timed_out" \in Terminal /\ status[of[e]] # "none"
    BY <1>7 DEF TypeOK, Terminal, NamesStarted, Timeout
  <2>2. \A x \in Tasks : status'[x] = "running" => x # of[e] /\ status[x] = "running"
    BY <1>7, <2>1, EndedStays DEF Timeout
  <2> QED BY <1>7, <2>2 DEF Timeout, EventLoopIdle, TypeOK, RunningIsExecuting, Live
<1>8. ASSUME NEW t \in Tasks, cancel(t) PROVE RunningIsExecuting'
  <2>1. \A x \in Tasks : status'[x] = "running" => x # t /\ status[x] = "running"
    BY <1>8, EndedStays DEF cancel, Terminal
  <2> QED BY <1>8, <2>1 DEF cancel, EventLoopIdle, TypeOK, RunningIsExecuting, Live
<1>9. ASSUME NEW t \in Tasks, recoverStaleTask(t) PROVE RunningIsExecuting'
  BY <1>9 DEF recoverStaleTask, RunningIsExecuting
<1>10. ASSUME NEW t \in Tasks, NEW n \in Tasks, NEW e \in Execs, RetryFire(t, n, e)
       PROVE  RunningIsExecuting'
  BY <1>10 DEF RetryFire, EventLoopIdle, SaveNew, Schedule, TypeOK, RunningIsExecuting, Live
<1>11. CASE dispose
  BY <1>11 DEF dispose, EventLoopIdle, RunningIsExecuting, Live
<1>12. CASE Crash BY <1>12 DEF Crash, RunningIsExecuting
<1>13. CASE Restart BY <1>13 DEF Restart, RunningIsExecuting
<1>14. CASE Recovered BY <1>14 DEF Recovered, RunningIsExecuting
<1>15. CASE UNCHANGED vars BY <1>15 DEF vars, RunningIsExecuting, Live
<1> QED
  BY <1>1, <1>2, <1>3, <1>4, <1>5, <1>6, <1>7, <1>8, <1>9, <1>10, <1>11, <1>12,
     <1>13, <1>14, <1>15 DEF Next, createTask

\* No record says "running" without a call of scheduleExecution that will end
\* it, across aborts, timeouts, crashes and restarts.
THEOREM NoZombieRecord == Spec => []RunningIsExecuting
<1>1. Init => RunningInv
  BY VerdictInit DEF Init, RunningInv, RunningIsExecuting
<1>2. RunningInv => RunningIsExecuting BY DEF RunningInv
<1> QED BY <1>1, <1>2, RunningStep, PTL DEF Spec

-----------------------------------------------------------------------------
(* Tasks that no deduplicated call has scheduled a second time.            *)

\* The call that executes a task scheduled once finds the record pending, its
\* controller is the one cancel() looks up until the task ends, and a stopped
\* process executes nothing.
OwnController ==
  /\ \A e \in Execs : ScheduledOnce(of[e]) =>
       /\ phase[e] = "scheduled" => status[of[e]] = "pending"
       /\ phase[e] \in {"acquiring", "executing"} /\ status[of[e]] \notin Terminal
            => controller[of[e]] = e
  /\ proc \in {"down", "recovering"} => \A e \in Execs : ~Live(e)

StoppingInv == RunningInv /\ OwnController /\ TerminalIsStopping

\* A transition to a terminal status changes neither another task's status nor
\* its controller.
LEMMA OthersKept ==
  ASSUME TypeOK, NEW t \in Tasks, NEW to \in Terminal, transition(t, to)
  PROVE  \A x \in Tasks \ {t} : status'[x] = status[x] /\ controller'[x] = controller[x]
BY DEF TypeOK, transition

\* A step that starts no execution and moves none back to "unused" leaves
\* the tasks scheduled once as they are.
LEMMA ScheduledOnceKept ==
  ASSUME of' = of,
         \A e \in Execs : phase'[e] = "unused" <=> phase[e] = "unused"
  PROVE  \A t : ScheduledOnce(t)' <=> ScheduledOnce(t)
BY DEF ScheduledOnce

\* Scheduling makes no task scheduled once that was not.
LEMMA ScheduledOnceShrinks ==
  ASSUME TypeOK, NEW e \in Execs, NEW t \in Tasks, Schedule(e, t)
  PROVE  \A x : ScheduledOnce(x)' => ScheduledOnce(x)
BY DEF Schedule, ScheduledOnce, TypeOK

\* Every step keeps StoppingInv.
LEMMA StoppingStep == StoppingInv /\ [Next]_vars => StoppingInv'
<1> SUFFICES ASSUME StoppingInv, [Next]_vars
             PROVE  OwnController' /\ TerminalIsStopping'
  BY RunningStep DEF StoppingInv
<1> USE DEF StoppingInv, RunningInv, VerdictInv
<1>0. TypeOK' BY TypeStep
<1>1. ASSUME NEW t \in Tasks, NEW e \in Execs, NEW k \in Keys,
             NEW f \in ForceFlags, NEW p \in Policies, NEW b \in Timed,
             createTaskNew(t, e, k, f, p, b)
      PROVE  OwnController' /\ TerminalIsStopping'
  <2>1. \A x : ScheduledOnce(x)' => ScheduledOnce(x)
    BY <1>1, ScheduledOnceShrinks DEF createTaskNew
  <2> QED BY <1>1, <2>1 DEF createTaskNew, EventLoopIdle, SaveNew, Schedule, TypeOK,
              NamesStarted, OwnController, TerminalIsStopping, Live, Terminal
<1>2. ASSUME NEW t \in Tasks, NEW e \in Execs, NEW k \in Keys,
             createTaskExisting(t, e, k)
      PROVE  OwnController' /\ TerminalIsStopping'
  <2>1. \A x : ScheduledOnce(x)' => ScheduledOnce(x)
    BY <1>2, ScheduledOnceShrinks DEF createTaskExisting
  <2>2. status[t] \in Active
    BY <1>2 DEF createTaskExisting, findActiveByIdempotencyKey
  <2>3. CASE \E x \in Execs : phase[x] # "unused" /\ of[x] = t
    <3>1. ~ScheduledOnce(t)'
      BY <1>2, <2>3 DEF createTaskExisting, Schedule, ScheduledOnce, TypeOK
    <3> QED BY <1>2, <2>1, <3>1 DEF createTaskExisting, EventLoopIdle, Schedule, TypeOK,
                 OwnController, TerminalIsStopping, Live
  <2>4. CASE ~ \E x \in Execs : phase[x] # "unused" /\ of[x] = t
    <3>1. status[t] = "pending"
      BY <1>2, <2>2, <2>4 DEF createTaskExisting, EventLoopIdle, RunningIsExecuting, Live, Active
    <3> QED BY <1>2, <2>1, <3>1 DEF createTaskExisting, EventLoopIdle, Schedule, TypeOK,
                 OwnController, TerminalIsStopping, Live, Terminal
  <2> QED BY <2>3, <2>4
<1>3. ASSUME NEW e \in Execs, Start(e) PROVE OwnController' /\ TerminalIsStopping'
  <2>1. \A x : ScheduledOnce(x)' <=> ScheduledOnce(x)
    BY <1>3, ScheduledOnceKept DEF Start, TypeOK
  <2> QED BY <1>3, <2>1 DEF Start, TypeOK, OwnController, TerminalIsStopping, Live,
              Terminal, canTransition, Active, ScheduledOnce
<1>4. ASSUME NEW e \in Execs, Acquired(e) PROVE OwnController' /\ TerminalIsStopping'
  <2>1. \A x : ScheduledOnce(x)' <=> ScheduledOnce(x)
    BY <1>4, ScheduledOnceKept DEF Acquired, TypeOK
  <2> QED BY <1>4, <2>1 DEF Acquired, TypeOK, OwnController, TerminalIsStopping, Live
<1>5. ASSUME NEW e \in Execs, Resolve(e) PROVE OwnController' /\ TerminalIsStopping'
  <2>1. of[e] \in Tasks /\ "completed" \in Terminal BY DEF TypeOK, Terminal
  <2>2. \A x : ScheduledOnce(x)' <=> ScheduledOnce(x)
    BY <1>5, ScheduledOnceKept DEF Resolve, TypeOK
  <2>3. status'[of[e]] \in Terminal BY <1>5, <2>1, EndedStays DEF Resolve, NamesStarted
  <2> QED BY <1>5, <2>1, <2>2, <2>3, OthersKept
          DEF Resolve, EventLoopIdle, TypeOK, OwnController, TerminalIsStopping, Live,
              ScheduledOnce
<1>6. ASSUME NEW e \in Execs, Throw(e) PROVE OwnController' /\ TerminalIsStopping'
  <2>1. of[e] \in Tasks /\ FailureStatus(e) \in Terminal
    BY DEF TypeOK, Terminal, FailureStatus
  <2>2. \A x : ScheduledOnce(x)' <=> ScheduledOnce(x)
    BY <1>6, ScheduledOnceKept DEF Throw, TypeOK
  <2> QED BY <1>6, <2>1, <2>2, OthersKept
          DEF Throw, EventLoopIdle, TypeOK, OwnController, TerminalIsStopping, Live,
              ScheduledOnce
<1>7. ASSUME NEW e \in Execs, Timeout(e) PROVE OwnController' /\ TerminalIsStopping'
  <2>1. /\ of[e] \in Tasks /\ "timed_out" \in Terminal
        /\ phase[e] # "unused" /\ status[of[e]] # "none"
    BY <1>7 DEF TypeOK, Terminal, Timeout, NamesStarted
  <2>2. \A x : ScheduledOnce(x)' <=> ScheduledOnce(x)
    BY <1>7, ScheduledOnceKept DEF Timeout
  <2>3. status'[of[e]] \in Terminal BY <1>7, <2>1, EndedStays DEF Timeout
  <2> QED BY <1>7, <2>1, <2>2, <2>3, OthersKept
          DEF Timeout, EventLoopIdle, TypeOK, OwnController, TerminalIsStopping, Live,
              ScheduledOnce
<1>8. ASSUME NEW t \in Tasks, cancel(t) PROVE OwnController' /\ TerminalIsStopping'
  <2>1. "cancelled" \in Terminal BY DEF Terminal
  <2>2. \A x : ScheduledOnce(x)' <=> ScheduledOnce(x)
    BY <1>8, ScheduledOnceKept DEF cancel
  <2>3. status'[t] \in Terminal BY <1>8, <2>1, EndedStays DEF cancel
  <2>4. \A e \in Execs : Live(e) /\ of[e] = t /\ ScheduledOnce(t) => e \in aborted'
    BY <1>8, NoExecAssumption
       DEF cancel, EventLoopIdle, TypeOK, OwnController, TerminalIsStopping, Live
  <2> QED BY <1>8, <2>1, <2>2, <2>3, <2>4, OthersKept
          DEF cancel, EventLoopIdle, TypeOK, OwnController, TerminalIsStopping, Live
<1>9. ASSUME NEW t \in Tasks, recoverStaleTask(t)
      PROVE  OwnController' /\ TerminalIsStopping'
  BY <1>9 DEF recoverStaleTask, OwnController, TerminalIsStopping, Live
<1>10. ASSUME NEW t \in Tasks, NEW n \in Tasks, NEW e \in Execs, RetryFire(t, n, e)
       PROVE  OwnController' /\ TerminalIsStopping'
  <2>1. \A x : ScheduledOnce(x)' => ScheduledOnce(x)
    BY <1>10, ScheduledOnceShrinks DEF RetryFire
  <2> QED BY <1>10, <2>1 DEF RetryFire, EventLoopIdle, SaveNew, Schedule, TypeOK,
              NamesStarted, OwnController, TerminalIsStopping, Live, Terminal
<1>11. CASE dispose
  <2>1. \A x : ScheduledOnce(x)' <=> ScheduledOnce(x)
    BY <1>11, ScheduledOnceKept DEF dispose
  <2> QED BY <1>11, <2>1 DEF dispose, OwnController, TerminalIsStopping, Live
<1>12. CASE Crash BY <1>12 DEF Crash, TypeOK, OwnController, TerminalIsStopping, Live
<1>13. CASE Restart
  <2>1. \A x : ScheduledOnce(x)' <=> ScheduledOnce(x)
    BY <1>13, ScheduledOnceKept DEF Restart
  <2> QED BY <1>13, <2>1 DEF Restart, OwnController, TerminalIsStopping, Live
<1>14. CASE Recovered
  <2>1. \A x : ScheduledOnce(x)' <=> ScheduledOnce(x)
    BY <1>14, ScheduledOnceKept DEF Recovered
  <2> QED BY <1>14, <2>1 DEF Recovered, OwnController, TerminalIsStopping, Live
<1>15. CASE UNCHANGED vars
  <2>1. \A x : ScheduledOnce(x)' <=> ScheduledOnce(x)
    BY <1>15, ScheduledOnceKept DEF vars
  <2> QED BY <1>15, <2>1 DEF vars, OwnController, TerminalIsStopping, Live
<1> QED
  BY <1>1, <1>2, <1>3, <1>4, <1>5, <1>6, <1>7, <1>8, <1>9, <1>10, <1>11, <1>12,
     <1>13, <1>14, <1>15 DEF Next, createTask

\* The execution of a task that was scheduled once has been told to stop when
\* the record is terminal: cancel() and the timeout reach it.
THEOREM CancelReachesExecution == Spec => []TerminalIsStopping
<1>1. Init => StoppingInv
  BY VerdictInit DEF Init, StoppingInv, RunningInv, RunningIsExecuting, OwnController, TerminalIsStopping, Live
<1>2. StoppingInv => TerminalIsStopping BY DEF StoppingInv
<1> QED BY <1>1, <1>2, StoppingStep, PTL DEF Spec

-----------------------------------------------------------------------------
(* The registry implements the life cycle.                                 *)

\* The two rankings of terminal statuses, task-store.ts and TaskLifecycle, are
\* one.
LEMMA SameRanking ==
  ASSUME NEW s \in Terminal, NEW r \in Terminal,
         STATUS_PRIORITY[s] > STATUS_PRIORITY[r]
  PROVE  Lifecycle!Outranks(s, r)
<1> DEFINE rank == STATUS_PRIORITY
<1>1. /\ rank[s] \in 1..4 /\ s = Lifecycle!Ranking[rank[s]]
      /\ rank[r] \in 1..4 /\ r = Lifecycle!Ranking[rank[r]]
  BY DEF STATUS_PRIORITY, Terminal, Lifecycle!Ranking
<1>2. rank[s] > rank[r] OBVIOUS
<1> HIDE DEF rank
<1> QED BY <1>1, <1>2 DEF Lifecycle!Outranks

\* A transition of an existing record to a terminal status is an end, an
\* override or nothing.
LEMMA TransitionIsLifecycleStep ==
  ASSUME TypeOK, NEW t \in Tasks, NEW to \in Terminal, transition(t, to)
  PROVE  Lifecycle!Next \/ UNCHANGED status
<1>1. to \in Lifecycle!Ended
  <2>1. to \in {"completed", "failed", "timed_out", "cancelled"} BY DEF Terminal
  <2> QED BY <2>1 DEF Lifecycle!Ended, Lifecycle!Ranking
<1>2. CASE status[t] \in Active /\ canTransition(status[t], to)
  <2>1. Lifecycle!End(t, to)
    BY <1>2 DEF transition, Lifecycle!End, Lifecycle!Become, Active
  <2> QED BY <1>1, <2>1 DEF Lifecycle!Next
<1>3. CASE status[t] \in Terminal /\ canTransition(status[t], to)
  <2>1. STATUS_PRIORITY[to] > STATUS_PRIORITY[status[t]]
    BY <1>3 DEF canTransition, Terminal, Active
  <2>2. Lifecycle!Outranks(to, status[t]) BY <1>3, <2>1, SameRanking
  <2>3. Lifecycle!Override(t, to)
    BY <1>3, <2>2 DEF transition, Lifecycle!Override, Lifecycle!Become
  <2> QED BY <1>1, <2>3 DEF Lifecycle!Next
<1>4. CASE ~canTransition(status[t], to) BY <1>4 DEF transition
<1> QED BY <1>2, <1>3, <1>4 DEF canTransition

\* Every step of the registry is a step of the life cycle or a stutter.
LEMMA LifecycleStep == TypeOK /\ [Next]_vars => [Lifecycle!Next]_status
<1> SUFFICES ASSUME TypeOK, [Next]_vars
             PROVE  Lifecycle!Next \/ UNCHANGED status
  OBVIOUS
<1>1. ASSUME NEW t \in Tasks, NEW key, NEW n, NEW o, NEW p, NEW b, SaveNew(t, key, n, o, p, b)
      PROVE  Lifecycle!Next
  BY <1>1 DEF SaveNew, Lifecycle!Next, Lifecycle!New, Lifecycle!Become
<1>2. ASSUME NEW e \in Execs, Start(e) PROVE Lifecycle!Next \/ UNCHANGED status
  <2> DEFINE t == of[e]
  <2>1. t \in Tasks BY DEF TypeOK
  <2>2. CASE canTransition(status[t], "running") /\ status[t] = "pending"
    BY <1>2, <2>1, <2>2 DEF Start, Lifecycle!Next, Lifecycle!Run, Lifecycle!Become
  <2>3. CASE canTransition(status[t], "running") /\ status[t] = "running"
    BY <1>2, <2>1, <2>3 DEF Start, TypeOK
  <2>4. CASE ~canTransition(status[t], "running") BY <1>2, <2>4 DEF Start
  <2> QED BY <2>2, <2>3, <2>4 DEF canTransition, Active, Terminal, STATUS_PRIORITY
<1>3. ASSUME NEW e \in Execs, Resolve(e) \/ Throw(e) \/ Timeout(e)
      PROVE  Lifecycle!Next \/ UNCHANGED status
  <2>1. /\ of[e] \in Tasks /\ "completed" \in Terminal /\ "timed_out" \in Terminal
        /\ FailureStatus(e) \in Terminal
    BY DEF TypeOK, Terminal, FailureStatus
  <2> QED BY <1>3, <2>1, TransitionIsLifecycleStep DEF Resolve, Throw, Timeout
<1>4. ASSUME NEW t \in Tasks, cancel(t) \/ recoverStaleTask(t)
      PROVE  Lifecycle!Next \/ UNCHANGED status
  <2>1. "cancelled" \in Terminal /\ "timed_out" \in Terminal BY DEF Terminal
  <2> QED BY <1>4, <2>1, TransitionIsLifecycleStep DEF cancel, recoverStaleTask
<1> QED
  BY <1>1, <1>2, <1>3, <1>4
     DEF Next, vars, createTask, createTaskNew, createTaskExisting, Acquired, RetryFire,
         dispose, Crash, Restart, Recovered

\* The registry implements the life cycle: across any interleaving of answers,
\* timeouts, cancels and restarts a task moves forward, and a terminal status
\* yields only to a higher one.
THEOREM LifecycleRefined == Spec => ImplementsLifecycle
<1>1. Init => Lifecycle!Init BY DEF Init, Lifecycle!Init
<1>2. TypeOK /\ [Next]_vars => [Lifecycle!Next]_status BY LifecycleStep
<1> QED BY <1>1, <1>2, TypeCorrect, PTL DEF Spec, ImplementsLifecycle, Lifecycle!Spec

-----------------------------------------------------------------------------
(* The retries: a failed attempt with attempts left is followed by exactly *)
(* one more.                                                               *)

\* A record in use is an attempt of a chain whose first record exists; a retry
\* is never the answer to a deduplicated call, so it is scheduled once.
ChainShape ==
  \A t \in Tasks : status[t] # "none" =>
    /\ status[info[t].origin] # "none"
    /\ info[t].attempt >= 1 /\ info[t].attempt <= info[t].policy
    /\ info[t].attempt = 1 <=> info[t].origin = t
    /\ info[t].origin # t => info[t].key = RetryKey /\ ScheduledOnce(t)

\* A retry timer belongs to a terminal record with attempts left, and a record
\* scheduled once has at most one.
RetriesEarned ==
  \A t \in Tasks :
    /\ retries[t] > 0 => status[t] \in Terminal /\ info[t].attempt < info[t].policy
    /\ status[t] # "none" /\ ScheduledOnce(t) => retries[t] <= 1

\* The timeout timer of a task scheduled once is the one the registry can
\* clear, and it is cleared when the task ends.
TimerIsOwn ==
  \A e \in armed : ScheduledOnce(of[e]) =>
    timerOf[of[e]] = e /\ status[of[e]] \in Active

\* A retry follows an attempt that has ended and used up its timer.
HasPredecessor ==
  \A n \in Tasks : status[n] # "none" /\ info[n].origin # n =>
    \E t \in Tasks : /\ Succeeds(n, t)
                     /\ status[t] \in Terminal
                     /\ ScheduledOnce(info[n].origin) => retries[t] = 0

\* A chain has each attempt once.
AttemptsDiffer ==
  \A t, n \in Tasks :
    /\ status[t] # "none" /\ status[n] # "none"
    /\ info[t].origin = info[n].origin /\ info[t].attempt = info[n].attempt
    /\ ScheduledOnce(info[t].origin)
    => t = n

ChainInv ==
  ChainShape /\ RetriesEarned /\ TimerIsOwn /\ HasPredecessor /\ AttemptsDiffer

RetryInv == StoppingInv /\ ChainInv /\ RetryIsPending

-----------------------------------------------------------------------------
(* What a step does to the chains.                                         *)

\* A transition to a terminal status, by its effect on one record: it is
\* refused, or it ends the task and asks for a retry where one is left.
LEMMA EndEffect ==
  ASSUME TypeOK, NEW t \in Tasks, NEW to \in Terminal, status[t] # "none",
         transition(t, to)
  PROVE  \/ /\ ~canTransition(status[t], to)
            /\ UNCHANGED <<status, retries, timerOf>>
         \/ /\ canTransition(status[t], to)
            /\ status'[t] = to
            /\ \A x \in Tasks \ {t} : /\ status'[x] = status[x]
                                      /\ retries'[x] = retries[x]
                                      /\ timerOf'[x] = timerOf[x]
            /\ retries'[t] = IF WillRetry(t, to) THEN retries[t] + 1 ELSE retries[t]
BY DEF transition, TypeOK, Terminal, Status

\* Ending a task keeps every chain, provided that a task scheduled once fails
\* or times out only from an active status.
LEMMA EndKeepsChains ==
  ASSUME TypeOK, TypeOK', ChainInv, NEW t \in Tasks, NEW to \in Terminal,
         status[t] # "none", transition(t, to),
         info' = info, of' = of,
         \A e \in Execs : phase'[e] = "unused" <=> phase[e] = "unused",
         armed' \subseteq armed \ Cleared(t, to),
         /\ ScheduledOnce(t) /\ to \in {"failed", "timed_out"}
         /\ canTransition(status[t], to)
         => status[t] \in Active
  PROVE  ChainInv'
<1>1. \A x : ScheduledOnce(x)' <=> ScheduledOnce(x)
  BY ScheduledOnceKept
<1>2. CASE /\ ~canTransition(status[t], to)
           /\ UNCHANGED <<status, retries, timerOf>>
  BY <1>1, <1>2 DEF ChainInv, ChainShape, RetriesEarned, TimerIsOwn, HasPredecessor,
                    AttemptsDiffer, Succeeds, TypeOK
<1>3. CASE /\ canTransition(status[t], to)
           /\ status'[t] = to
           /\ \A x \in Tasks \ {t} : /\ status'[x] = status[x]
                                     /\ retries'[x] = retries[x]
                                     /\ timerOf'[x] = timerOf[x]
           /\ retries'[t] = IF WillRetry(t, to) THEN retries[t] + 1 ELSE retries[t]
  <2>1. /\ \A x \in Tasks : status'[x] # "none" <=> status[x] # "none"
        /\ \A x \in Tasks : status[x] \in Terminal => status'[x] \in Terminal
        /\ \A x \in Tasks : info[x].origin \in Tasks /\ info[x].attempt \in Nat
        /\ \A x \in Tasks : retries[x] \in Nat
    BY <1>3 DEF Terminal, TypeOK, Info
  <2>2. ChainShape'
    BY <1>1, <1>3, <2>1 DEF ChainInv, ChainShape
  <2>3. AttemptsDiffer'
    BY <1>1, <1>3, <2>1 DEF ChainInv, AttemptsDiffer
  <2>4. status[t] \in Active => retries[t] = 0
    BY <2>1 DEF ChainInv, RetriesEarned, Active, Terminal
  <2>5. RetriesEarned'
    <3>1. WillRetry(t, to) /\ ScheduledOnce(t) => retries[t] = 0
      BY <1>3, <2>4 DEF WillRetry
    <3>2. WillRetry(t, to) => info[t].attempt < info[t].policy
      BY DEF WillRetry
    <3> QED BY <1>1, <1>3, <2>1, <3>1, <3>2 DEF ChainInv, RetriesEarned
  <2>6. TimerIsOwn'
    <3> SUFFICES ASSUME NEW e \in armed', ScheduledOnce(of[e])
                 PROVE  timerOf'[of[e]] = e /\ status'[of[e]] \in Active
      BY <1>1 DEF TimerIsOwn
    <3>1. e \in armed /\ timerOf[of[e]] = e /\ status[of[e]] \in Active
      BY DEF ChainInv, TimerIsOwn
    <3>2. of[e] # t BY <1>3, <3>1 DEF Cleared
    <3>3. of[e] \in Tasks BY <3>1 DEF TypeOK
    <3> QED BY <1>3, <3>1, <3>2, <3>3
  <2>7. HasPredecessor'
    <3> SUFFICES ASSUME NEW n \in Tasks, status[n] # "none", info[n].origin # n
                 PROVE  \E x \in Tasks :
                           /\ Succeeds(n, x)'
                           /\ status'[x] \in Terminal
                           /\ ScheduledOnce(info[n].origin) => retries'[x] = 0
      BY <1>1, <2>1 DEF HasPredecessor
    <3>1. PICK x \in Tasks : /\ Succeeds(n, x)
                             /\ status[x] \in Terminal
                             /\ ScheduledOnce(info[n].origin) => retries[x] = 0
      BY DEF ChainInv, HasPredecessor
    <3>2. Succeeds(n, x)' BY <2>1, <3>1 DEF Succeeds
    <3>3. ScheduledOnce(info[x].origin) => ScheduledOnce(x)
      BY <3>1 DEF ChainInv, ChainShape, Terminal
    <3>4. ScheduledOnce(info[n].origin) => retries'[x] = 0
      BY <1>3, <3>1, <3>3 DEF Succeeds, WillRetry, Active, Terminal
    <3> QED BY <2>1, <3>1, <3>2, <3>4
  <2> QED BY <2>2, <2>3, <2>5, <2>6, <2>7 DEF ChainInv
<1> QED BY <1>2, <1>3, EndEffect

\* Scheduling an active record once more keeps every chain: only a task that
\* loses ScheduledOnce is touched, or one no call has been made for.
LEMMA ScheduleKeepsChains ==
  ASSUME TypeOK, NamesStarted, ChainInv, NEW e \in Execs, NEW t \in Tasks,
         Schedule(e, t), info[t].key # RetryKey,
         UNCHANGED <<status, info, armed, timerOf, retries>>
  PROVE  ChainInv'
<1>1. \A x : ScheduledOnce(x)' => ScheduledOnce(x)
  BY ScheduledOnceShrinks
<1>2. \A x \in Tasks \ {t} : ScheduledOnce(x) => ScheduledOnce(x)'
  BY DEF Schedule, ScheduledOnce, TypeOK
<1>3. \A x \in Execs : x \in armed => of'[x] = of[x]
  BY DEF Schedule, NamesStarted, TypeOK
<1>4. ChainShape'
  BY <1>2 DEF ChainInv, ChainShape
<1>5. armed \subseteq Execs BY DEF TypeOK
<1> QED BY <1>1, <1>3, <1>4, <1>5
        DEF ChainInv, RetriesEarned, TimerIsOwn, HasPredecessor, AttemptsDiffer, Succeeds

\* A new first record starts a chain of its own.
LEMMA NewKeepsChains ==
  ASSUME TypeOK, NamesStarted, ChainInv, NEW t \in Tasks, NEW e \in Execs, NEW k \in Keys,
         NEW p \in Policies, NEW b \in Timed, SaveNew(t, k, 1, t, p, b), Schedule(e, t),
         UNCHANGED <<armed, timerOf, retries>>
  PROVE  ChainInv'
<1>1. \A x : ScheduledOnce(x)' => ScheduledOnce(x)
  BY ScheduledOnceShrinks
<1>2. \A x \in Tasks \ {t} : ScheduledOnce(x) => ScheduledOnce(x)'
  BY DEF Schedule, ScheduledOnce, TypeOK
<1>3. \A x \in Execs : x \in armed => of'[x] = of[x] /\ of[x] # t
  BY DEF Schedule, SaveNew, NamesStarted, TypeOK
<1>4. /\ armed \subseteq Execs
      /\ \A x \in Execs : of[x] \in Tasks
      /\ \A x \in Tasks : info[x].origin \in Tasks /\ info[x].attempt \in Nat
      /\ \A x \in Tasks : retries[x] \in Nat
      /\ p \in Nat /\ p >= 1
  BY PoliciesAssumption DEF TypeOK, Info
<1>5. /\ status[t] = "none" /\ status'[t] = "pending"
      /\ info'[t].key = k /\ info'[t].attempt = 1 /\ info'[t].origin = t /\ info'[t].policy = p
      /\ \A x \in Tasks \ {t} : status'[x] = status[x] /\ info'[x] = info[x]
  BY DEF SaveNew, TypeOK
<1>6. \A x \in Tasks \ {t} : status[x] # "none" => info[x].origin # t
  BY <1>5 DEF ChainInv, ChainShape
<1>7. retries[t] = 0
  BY <1>4, <1>5 DEF ChainInv, RetriesEarned, Terminal
<1>8. ChainShape'
  BY <1>2, <1>4, <1>5 DEF ChainInv, ChainShape
<1>9. RetriesEarned'
  BY <1>1, <1>4, <1>5, <1>7 DEF ChainInv, RetriesEarned
<1>10. TimerIsOwn'
  BY <1>1, <1>3, <1>4, <1>5 DEF ChainInv, TimerIsOwn
<1>11. HasPredecessor'
  <2> SUFFICES ASSUME NEW n \in Tasks, status'[n] # "none", info'[n].origin # n
               PROVE  \E x \in Tasks :
                         /\ Succeeds(n, x)'
                         /\ status'[x] \in Terminal
                         /\ ScheduledOnce(info[n].origin)' => retries[x] = 0
    BY DEF HasPredecessor
  <2>1. n # t BY <1>5
  <2>2. PICK x \in Tasks : /\ Succeeds(n, x)
                           /\ status[x] \in Terminal
                           /\ ScheduledOnce(info[n].origin) => retries[x] = 0
    BY <1>5, <2>1 DEF ChainInv, HasPredecessor
  <2>3. x # t BY <1>5, <2>2 DEF Terminal
  <2>4. Succeeds(n, x)' BY <1>5, <2>1, <2>2, <2>3 DEF Succeeds
  <2> QED BY <1>1, <1>5, <2>1, <2>2, <2>3, <2>4
<1>12. AttemptsDiffer'
  BY <1>1, <1>4, <1>5, <1>6 DEF ChainInv, AttemptsDiffer
<1> QED BY <1>8, <1>9, <1>10, <1>11, <1>12 DEF ChainInv

\* A retry timer that fires adds the next attempt to its chain.
LEMMA RetryKeepsChains ==
  ASSUME TypeOK, NamesStarted, ChainInv, NEW t \in Tasks, NEW n \in Tasks, NEW e \in Execs,
         RetryFire(t, n, e)
  PROVE  ChainInv'
<1> USE DEF RetryFire
<1>1. \A x : ScheduledOnce(x)' => ScheduledOnce(x)
  BY ScheduledOnceShrinks
<1>2. \A x \in Tasks \ {n} : ScheduledOnce(x) => ScheduledOnce(x)'
  BY DEF Schedule, ScheduledOnce, TypeOK
<1>3. \A x \in Execs : x \in armed => of'[x] = of[x] /\ of[x] # n
  BY DEF Schedule, SaveNew, NamesStarted, TypeOK
<1>4. /\ armed \subseteq Execs
      /\ \A x \in Execs : of[x] \in Tasks
      /\ \A x \in Tasks : info[x].origin \in Tasks /\ info[x].attempt \in Nat /\ info[x].policy \in Nat
      /\ \A x \in Tasks : retries[x] \in Nat
  BY DEF TypeOK, Info
<1>5. /\ status[n] = "none" /\ status'[n] = "pending"
      /\ info'[n].key = RetryKey /\ info'[n].attempt = info[t].attempt + 1
      /\ info'[n].origin = info[t].origin /\ info'[n].policy = info[t].policy
      /\ \A x \in Tasks \ {n} : status'[x] = status[x] /\ info'[x] = info[x]
      /\ armed' = armed /\ timerOf' = timerOf
  BY DEF SaveNew, TypeOK
<1>6. /\ status[t] \in Terminal /\ info[t].attempt < info[t].policy
      /\ retries[t] > 0 /\ retries'[t] = retries[t] - 1
      /\ \A x \in Tasks \ {t} : retries'[x] = retries[x]
  BY DEF ChainInv, RetriesEarned, TypeOK
<1>7. t # n /\ status[t] # "none" BY <1>5, <1>6 DEF Terminal
<1>8. info[t].origin # n /\ status[info[t].origin] # "none" /\ info[t].attempt >= 1
  BY <1>5, <1>7 DEF ChainInv, ChainShape
<1>9. ScheduledOnce(info[t].origin) => ScheduledOnce(t)
  BY <1>7 DEF ChainInv, ChainShape
<1>10. ScheduledOnce(t) => retries[t] = 1
  BY <1>4, <1>6, <1>7 DEF ChainInv, RetriesEarned
<1>11. ScheduledOnce(n)'
  BY <1>5 DEF Schedule, ScheduledOnce, NamesStarted, TypeOK
<1>12. retries[n] = 0
  BY <1>4, <1>5 DEF ChainInv, RetriesEarned, Terminal
\* No attempt with the new number is in the chain yet.
<1>13. ASSUME NEW x \in Tasks, status[x] # "none", info[x].origin = info[t].origin,
              ScheduledOnce(info[t].origin), info[x].attempt = info[t].attempt + 1
       PROVE  FALSE
  <2>1. info[x].origin # x
    BY <1>4, <1>8, <1>13 DEF ChainInv, ChainShape
  <2>2. PICK y \in Tasks : /\ Succeeds(x, y)
                           /\ status[y] \in Terminal
                           /\ ScheduledOnce(info[x].origin) => retries[y] = 0
    BY <1>13, <2>1 DEF ChainInv, HasPredecessor
  <2>3. info[y].origin = info[t].origin /\ info[y].attempt = info[t].attempt
    BY <1>4, <1>13, <2>2 DEF Succeeds
  <2>4. status[y] # "none" BY <2>2 DEF Terminal
  <2>5. y = t
    BY <1>7, <1>13, <2>3, <2>4 DEF ChainInv, AttemptsDiffer
  <2> QED BY <1>6, <1>13, <2>2, <2>5
<1>14. ChainShape'
  BY <1>2, <1>4, <1>5, <1>6, <1>8, <1>11 DEF ChainInv, ChainShape
<1>15. RetriesEarned'
  BY <1>1, <1>4, <1>5, <1>6, <1>7, <1>12 DEF ChainInv, RetriesEarned
<1>16. TimerIsOwn'
  BY <1>1, <1>3, <1>4, <1>5 DEF ChainInv, TimerIsOwn
<1>17. HasPredecessor'
  <2> SUFFICES ASSUME NEW m \in Tasks, status'[m] # "none", info'[m].origin # m
               PROVE  \E x \in Tasks :
                         /\ Succeeds(m, x)'
                         /\ status'[x] \in Terminal
                         /\ ScheduledOnce(info[m].origin)' => retries'[x] = 0
    BY DEF HasPredecessor
  <2>1. CASE m = n
    <3>1. Succeeds(n, t)' BY <1>5, <1>7 DEF Succeeds
    <3>2. status'[t] \in Terminal BY <1>5, <1>6, <1>7
    <3>3. ScheduledOnce(info[n].origin)' => retries'[t] = 0
      BY <1>1, <1>5, <1>6, <1>9, <1>10
    <3> QED BY <2>1, <3>1, <3>2, <3>3
  <2>2. CASE m # n
    <3>1. PICK x \in Tasks : /\ Succeeds(m, x)
                             /\ status[x] \in Terminal
                             /\ ScheduledOnce(info[m].origin) => retries[x] = 0
      BY <1>5, <2>2 DEF ChainInv, HasPredecessor
    <3>2. x # n BY <1>5, <3>1 DEF Terminal
    <3>3. Succeeds(m, x)' BY <1>5, <2>2, <3>1, <3>2 DEF Succeeds
    <3>4. ScheduledOnce(info[m].origin) => retries'[x] = 0
      BY <1>6, <3>1
    <3> QED BY <1>1, <1>5, <2>2, <3>1, <3>2, <3>3, <3>4
  <2> QED BY <2>1, <2>2
<1>18. AttemptsDiffer'
  BY <1>1, <1>4, <1>5, <1>13 DEF ChainInv, AttemptsDiffer
<1> QED BY <1>14, <1>15, <1>16, <1>17, <1>18 DEF ChainInv

\* A step that neither writes a record nor schedules one, and adds no timer.
LEMMA QuietKeepsChains ==
  ASSUME TypeOK, ChainInv, UNCHANGED <<status, info, of>>,
         \A e \in Execs : phase'[e] = "unused" <=> phase[e] = "unused",
         \/ UNCHANGED <<armed, timerOf, retries>>
         \/ /\ retries' = [t \in Tasks |-> 0]
            /\ armed' = armed \ {timerOf[t] : t \in Tasks}
         \/ /\ retries' = [t \in Tasks |-> 0]
            /\ armed' = {}
  PROVE  ChainInv'
<1>1. \A x : ScheduledOnce(x)' <=> ScheduledOnce(x)
  BY ScheduledOnceKept
<1>2. TimerIsOwn'
  BY <1>1 DEF ChainInv, TimerIsOwn, TypeOK
<1>3. RetriesEarned' /\ HasPredecessor'
  BY <1>1 DEF ChainInv, RetriesEarned, HasPredecessor, Succeeds
<1> QED BY <1>1, <1>2, <1>3 DEF ChainInv, ChainShape, AttemptsDiffer

\* The call of a pending record sets its own timer.
LEMMA StartKeepsChains ==
  ASSUME TypeOK, StoppingInv, ChainInv, NEW e \in Execs, Start(e)
  PROVE  ChainInv'
<1> DEFINE t == of[e]
<1>1. \A x : ScheduledOnce(x)' <=> ScheduledOnce(x)
  BY ScheduledOnceKept DEF Start, TypeOK
<1>2. t \in Tasks /\ status[t] \in Status \ {"none"} /\ armed \subseteq Execs
  BY DEF TypeOK, Start, StoppingInv, RunningInv, VerdictInv, NamesStarted
<1>3. /\ \A x \in Tasks \ {t} : status'[x] = status[x] /\ timerOf'[x] = timerOf[x]
      /\ \/ timerOf'[t] = e /\ armed' = armed \cup {e}
         \/ timerOf'[t] = timerOf[t] /\ armed' = armed
      /\ of' = of
      /\ UNCHANGED <<info, retries>>
      /\ status[t] \in Active => status'[t] \in Active
      /\ status[t] \in Terminal => status'[t] = status[t]
  BY <1>2 DEF Start, TypeOK, canTransition, Active, Terminal, STATUS_PRIORITY
<1>4. /\ \A x \in Tasks : status'[x] # "none" <=> status[x] # "none"
      /\ \A x \in Tasks : status'[x] \in Terminal <=> status[x] \in Terminal
      /\ \A x \in Tasks : info[x].origin \in Tasks /\ of[e] \in Tasks
  BY <1>2, <1>3 DEF Status, Active, Terminal, TypeOK, Info
<1>5. ScheduledOnce(t) => status[t] \in Active
  BY DEF StoppingInv, OwnController, Start, Active
<1>6. \A x \in Execs : ScheduledOnce(t) /\ phase[x] # "unused" /\ of[x] = t => x = e
  BY DEF ScheduledOnce, Start
<1>7. \A x \in armed : phase[x] # "unused" /\ of[x] \in Tasks
  BY DEF StoppingInv, RunningInv, VerdictInv, NamesStarted, TypeOK
<1>8. TimerIsOwn'
  BY <1>1, <1>2, <1>3, <1>5, <1>6, <1>7 DEF ChainInv, TimerIsOwn
<1>9. HasPredecessor'
  BY <1>1, <1>3, <1>4 DEF ChainInv, HasPredecessor, Succeeds
<1> QED BY <1>1, <1>3, <1>4, <1>8, <1>9
        DEF ChainInv, ChainShape, RetriesEarned, AttemptsDiffer

\* Every step keeps the chains.
LEMMA ChainStep == StoppingInv /\ ChainInv /\ [Next]_vars => ChainInv'
<1> SUFFICES ASSUME StoppingInv, ChainInv, [Next]_vars PROVE ChainInv'
  OBVIOUS
<1>a. TypeOK /\ NamesStarted
  BY DEF StoppingInv, RunningInv, VerdictInv
<1>b. TypeOK' BY <1>a, TypeStep
<1>1. ASSUME NEW t \in Tasks, NEW e \in Execs, NEW k \in Keys,
             NEW f \in ForceFlags, NEW p \in Policies, NEW b \in Timed,
             createTaskNew(t, e, k, f, p, b)
      PROVE  ChainInv'
  BY <1>a, <1>1, NewKeepsChains DEF createTaskNew
<1>2. ASSUME NEW t \in Tasks, NEW e \in Execs, NEW k \in Keys,
             createTaskExisting(t, e, k)
      PROVE  ChainInv'
  <2>1. info[t].key # RetryKey
    BY <1>2, RetryKeyAssumption DEF createTaskExisting, findActiveByIdempotencyKey
  <2> QED BY <1>a, <1>2, <2>1, ScheduleKeepsChains DEF createTaskExisting
<1>3. ASSUME NEW e \in Execs, Start(e) PROVE ChainInv'
  BY <1>a, <1>3, StartKeepsChains
<1>4. ASSUME NEW e \in Execs, Acquired(e) PROVE ChainInv'
  <2>1. \A x \in Execs : phase'[x] = "unused" <=> phase[x] = "unused"
    BY <1>a, <1>4 DEF Acquired, TypeOK
  <2> QED BY <1>a, <1>4, <2>1, QuietKeepsChains DEF Acquired
<1>5. ASSUME NEW e \in Execs, Resolve(e) PROVE ChainInv'
  <2>1. of[e] \in Tasks /\ "completed" \in Terminal /\ status[of[e]] # "none"
    BY <1>a, <1>5 DEF TypeOK, Terminal, NamesStarted, Resolve
  <2>2. \A x \in Execs : phase'[x] = "unused" <=> phase[x] = "unused"
    BY <1>a, <1>5 DEF Resolve, TypeOK
  <2> QED BY <1>a, <1>b, <1>5, <2>1, <2>2, EndKeepsChains DEF Resolve
<1>6. ASSUME NEW e \in Execs, Throw(e) PROVE ChainInv'
  <2>1. /\ of[e] \in Tasks /\ FailureStatus(e) \in Terminal
        /\ status[of[e]] \in Status \ {"none"}
    BY <1>a, <1>6 DEF TypeOK, Terminal, FailureStatus, NamesStarted, Throw
  <2>2. \A x \in Execs : phase'[x] = "unused" <=> phase[x] = "unused"
    BY <1>a, <1>6 DEF Throw, TypeOK
  <2>3. CASE UNCHANGED <<status, armed, controller, timerOf, retries>>
    BY <1>a, <1>6, <2>2, <2>3, QuietKeepsChains DEF Throw
  <2>4. CASE transition(of[e], FailureStatus(e))
             /\ armed' = armed \ Cleared(of[e], FailureStatus(e))
    <3>1. ScheduledOnce(of[e]) /\ FailureStatus(e) \in {"failed", "timed_out"}
            => status[of[e]] \in Active
      BY <1>6, <2>1 DEF StoppingInv, TerminalIsStopping, Throw, Live, FailureStatus, Status
    <3> QED BY <1>a, <1>b, <1>6, <2>1, <2>2, <2>4, <3>1, EndKeepsChains DEF Throw
  <2> QED BY <1>6, <2>3, <2>4 DEF Throw
<1>7. ASSUME NEW e \in Execs, Timeout(e) PROVE ChainInv'
  <2>1. of[e] \in Tasks /\ "timed_out" \in Terminal /\ status[of[e]] # "none"
    BY <1>a, <1>7 DEF TypeOK, Terminal, NamesStarted, Timeout
  <2>2. ScheduledOnce(of[e]) => status[of[e]] \in Active
    BY <1>7 DEF ChainInv, TimerIsOwn, Timeout
  <2> QED BY <1>a, <1>b, <1>7, <2>1, <2>2, EndKeepsChains DEF Timeout
<1>8. ASSUME NEW t \in Tasks, cancel(t) PROVE ChainInv'
  <2>1. "cancelled" \in Terminal BY DEF Terminal
  <2> QED BY <1>a, <1>b, <1>8, <2>1, EndKeepsChains DEF cancel
<1>9. ASSUME NEW t \in Tasks, recoverStaleTask(t) PROVE ChainInv'
  <2>1. "timed_out" \in Terminal /\ status[t] \in Active /\ status[t] # "none"
    BY <1>9 DEF Terminal, Active, recoverStaleTask
  <2> QED BY <1>a, <1>b, <1>9, <2>1, EndKeepsChains DEF recoverStaleTask
<1>10. ASSUME NEW t \in Tasks, NEW n \in Tasks, NEW e \in Execs, RetryFire(t, n, e)
       PROVE  ChainInv'
  BY <1>a, <1>10, RetryKeepsChains
<1>11. CASE dispose BY <1>a, <1>11, QuietKeepsChains DEF dispose
<1>12. CASE Crash
  <2>1. \A x \in Execs : phase'[x] = "unused" <=> phase[x] = "unused"
    BY <1>a, <1>12 DEF Crash, TypeOK
  <2> QED BY <1>a, <1>12, <2>1, QuietKeepsChains DEF Crash
<1>13. CASE Restart BY <1>a, <1>13, QuietKeepsChains DEF Restart
<1>14. CASE Recovered BY <1>a, <1>14, QuietKeepsChains DEF Recovered
<1>15. CASE UNCHANGED vars BY <1>a, <1>15, QuietKeepsChains DEF vars
<1> QED
  BY <1>1, <1>2, <1>3, <1>4, <1>5, <1>6, <1>7, <1>8, <1>9, <1>10, <1>11, <1>12,
     <1>13, <1>14, <1>15 DEF Next, createTask

-----------------------------------------------------------------------------
(* No retry is forgotten.                                                  *)

\* Ending a task asks for the retry it is owed and forgets no other.
LEMMA EndKeepsPending ==
  ASSUME TypeOK, RetryIsPending, NEW t \in Tasks, NEW to \in Terminal,
         status[t] # "none", transition(t, to), UNCHANGED <<info, lost>>
  PROVE  RetryIsPending'
<1>1. \A x \in Tasks : retries[x] \in Nat BY DEF TypeOK
<1>2. CASE UNCHANGED <<status, retries, timerOf>>
  BY <1>2 DEF RetryIsPending, Succeeds
<1>3. CASE /\ canTransition(status[t], to)
           /\ status'[t] = to
           /\ \A x \in Tasks \ {t} : /\ status'[x] = status[x]
                                     /\ retries'[x] = retries[x]
                                     /\ timerOf'[x] = timerOf[x]
           /\ retries'[t] = IF WillRetry(t, to) THEN retries[t] + 1 ELSE retries[t]
  <2>1. \A x, n \in Tasks : Succeeds(n, x) => Succeeds(n, x)'
    BY <1>3 DEF Succeeds, Terminal
  <2> QED BY <1>1, <1>3, <2>1 DEF RetryIsPending, WillRetry
<1> QED BY <1>2, <1>3, EndEffect

\* A new record takes nothing from the others.
LEMMA SaveKeepsSuccessors ==
  ASSUME TypeOK, NEW n \in Tasks, NEW key, NEW a, NEW o, NEW p, NEW b, SaveNew(n, key, a, o, p, b)
  PROVE  /\ status[n] = "none" /\ status'[n] = "pending"
         /\ info'[n].attempt = a /\ info'[n].origin = o
         /\ \A x \in Tasks \ {n} : status'[x] = status[x] /\ info'[x] = info[x]
         /\ \A x, m \in Tasks : status[x] # "none" /\ Succeeds(m, x) => Succeeds(m, x)'
<1>1. /\ status[n] = "none" /\ status'[n] = "pending"
      /\ info'[n].attempt = a /\ info'[n].origin = o
      /\ \A x \in Tasks \ {n} : status'[x] = status[x] /\ info'[x] = info[x]
  BY DEF SaveNew, TypeOK
<1>2. \A x, m \in Tasks : status[x] # "none" /\ Succeeds(m, x) => Succeeds(m, x)'
  BY <1>1 DEF Succeeds
<1> QED BY <1>1, <1>2

\* Every step keeps RetryIsPending: a stop of the process notes what it loses.
LEMMA PendingStep ==
  TypeOK /\ NamesStarted /\ RetryIsPending /\ [Next]_vars => RetryIsPending'
<1> SUFFICES ASSUME TypeOK, NamesStarted, RetryIsPending, [Next]_vars
             PROVE  RetryIsPending'
  OBVIOUS
<1>2. ASSUME NEW t \in Tasks, NEW e \in Execs, NEW k \in Keys,
             NEW f \in ForceFlags, NEW p \in Policies, NEW b \in Timed,
             createTaskNew(t, e, k, f, p, b)
      PROVE  RetryIsPending'
  <2>1. SaveNew(t, k, 1, t, p, b) /\ UNCHANGED <<retries, lost>>
    BY <1>2 DEF createTaskNew
  <2> QED BY <2>1, SaveKeepsSuccessors DEF RetryIsPending
<1>3. ASSUME NEW e \in Execs, Start(e) PROVE RetryIsPending'
  <2>1. of[e] \in Tasks /\ status[of[e]] # "none"
    BY <1>3 DEF Start, NamesStarted, TypeOK
  <2>2. /\ UNCHANGED <<info, retries, lost>>
        /\ \A x \in Tasks : status'[x] = status[x] \/ status'[x] = "running"
        /\ \A x \in Tasks : status[x] # "none" => status'[x] # "none"
    BY <1>3, <2>1 DEF Start, TypeOK
  <2> QED BY <2>2 DEF RetryIsPending, Succeeds
<1>4. ASSUME NEW e \in Execs, Resolve(e) \/ Throw(e) \/ Timeout(e) PROVE RetryIsPending'
  <2>1. /\ of[e] \in Tasks /\ status[of[e]] # "none"
        /\ FailureStatus(e) \in Terminal /\ "completed" \in Terminal /\ "timed_out" \in Terminal
    BY <1>4 DEF Resolve, Throw, Timeout, NamesStarted, TypeOK, FailureStatus, Terminal
  <2>2. CASE UNCHANGED <<status, armed, controller, timerOf, retries>>
    BY <1>4, <2>2 DEF Resolve, Throw, Timeout, RetryIsPending, Succeeds
  <2> QED BY <1>4, <2>1, <2>2, EndKeepsPending DEF Resolve, Throw, Timeout
<1>5. ASSUME NEW t \in Tasks, cancel(t) \/ recoverStaleTask(t) PROVE RetryIsPending'
  <2>1. status[t] # "none" /\ "cancelled" \in Terminal /\ "timed_out" \in Terminal
    BY <1>5 DEF cancel, recoverStaleTask, Terminal
  <2> QED BY <1>5, <2>1, EndKeepsPending DEF cancel, recoverStaleTask
<1>6. ASSUME NEW t \in Tasks, NEW n \in Tasks, NEW e \in Execs, RetryFire(t, n, e)
      PROVE  RetryIsPending'
  <2>1. /\ SaveNew(n, RetryKey, info[t].attempt + 1, info[t].origin, info[t].policy,
                   info[t].timed)
        /\ UNCHANGED lost
        /\ \A x \in Tasks \ {t} : retries'[x] = retries[x]
    BY <1>6 DEF RetryFire, TypeOK
  <2>2. t # n /\ status[t] # "none" => Succeeds(n, t)'
    BY <2>1, SaveKeepsSuccessors DEF Succeeds
  <2> QED BY <2>1, <2>2, SaveKeepsSuccessors DEF RetryIsPending
<1>7. ASSUME dispose \/ Crash PROVE RetryIsPending'
  <2>1. UNCHANGED <<status, info>> /\ lost' = lost \cup Waiting
    BY <1>7 DEF dispose, Crash
  <2> QED BY <2>1 DEF RetryIsPending, Succeeds, Waiting
<1>8. ASSUME UNCHANGED <<status, info, retries, lost>> PROVE RetryIsPending'
  BY <1>8 DEF RetryIsPending, Succeeds
<1> QED
  BY <1>2, <1>3, <1>4, <1>5, <1>6, <1>7, <1>8
     DEF Next, vars, createTask, createTaskExisting, Acquired, Restart, Recovered

-----------------------------------------------------------------------------
(* The theorem.                                                            *)

\* There is no attempt at the start.
LEMMA RetryInit == Init => RetryInv
<1> SUFFICES ASSUME Init PROVE RetryInv OBVIOUS
<1>1. StoppingInv
  BY VerdictInit
     DEF Init, StoppingInv, RunningInv, RunningIsExecuting, OwnController, TerminalIsStopping, Live
<1>2. ChainInv
  BY DEF Init, ChainInv, ChainShape, RetriesEarned, TimerIsOwn, HasPredecessor, AttemptsDiffer
<1>3. RetryIsPending
  BY DEF Init, RetryIsPending
<1> QED BY <1>1, <1>2, <1>3 DEF RetryInv

\* The invariant of the chains says what RetryChainIsLinear says.
LEMMA ChainsAreLinear == TypeOK /\ ChainInv => RetryChainIsLinear
<1> SUFFICES ASSUME TypeOK, ChainInv, NEW t \in Tasks, status[t] # "none",
                    ScheduledOnce(info[t].origin)
             PROVE  /\ info[t].attempt <= info[t].policy
                    /\ retries[t] <= 1
                    /\ retries[t] = 1 => ~ \E n \in Tasks : Succeeds(n, t)
                    /\ \A n, m \in Tasks : Succeeds(n, t) /\ Succeeds(m, t) => n = m
  BY DEF RetryChainIsLinear
<1>1. ScheduledOnce(t)
  BY DEF ChainInv, ChainShape
<1>2. info[t].attempt <= info[t].policy /\ retries[t] <= 1
  BY <1>1 DEF ChainInv, ChainShape, RetriesEarned
<1>3. \A x \in Tasks : info[x].attempt \in Nat
  BY DEF TypeOK, Info
<1>4. \A n, m \in Tasks : Succeeds(n, t) /\ Succeeds(m, t) => n = m
  BY DEF ChainInv, AttemptsDiffer, Succeeds
<1>5. ASSUME NEW n \in Tasks, Succeeds(n, t) PROVE retries[t] = 0
  <2>1. info[n].origin # n
    BY <1>3, <1>5 DEF ChainInv, ChainShape, Succeeds
  <2>2. PICK x \in Tasks : /\ Succeeds(n, x)
                           /\ status[x] \in Terminal
                           /\ ScheduledOnce(info[n].origin) => retries[x] = 0
    BY <1>5, <2>1 DEF ChainInv, HasPredecessor, Succeeds
  <2>3. status[x] # "none" BY <2>2 DEF Terminal
  <2>4. info[x].origin = info[t].origin /\ info[x].attempt = info[t].attempt
    BY <1>3, <1>5, <2>2 DEF Succeeds
  <2>5. x = t BY <2>3, <2>4 DEF ChainInv, AttemptsDiffer
  <2> QED BY <1>5, <2>2, <2>5 DEF Succeeds
<1> QED BY <1>2, <1>4, <1>5

\* A failed or timed-out attempt with attempts left has its next one waiting or
\* created, in every process since, but for those that waited when a process
\* stopped; and where no deduplicated call has joined the chain there are never
\* two, nor one past the policy (maybeScheduleRetry).
THEOREM RetriedOnceAtMost == Spec => []OneRetryFollows
<1>1. RetryInv /\ [Next]_vars => RetryInv'
  BY StoppingStep, ChainStep, PendingStep
     DEF RetryInv, StoppingInv, RunningInv, VerdictInv
<1>2. RetryInv => OneRetryFollows
  BY ChainsAreLinear DEF RetryInv, OneRetryFollows, StoppingInv, RunningInv, VerdictInv
<1> QED BY RetryInit, <1>1, <1>2, PTL DEF Spec
=============================================================================
