------------------------------ MODULE SessionRun ------------------------------
(***************************************************************************)
(* One session of RuntimeSessionManager (server/session-manager.ts): its   *)
(* runs, the approvals they wait for, and the watchdog that continues a    *)
(* stalled run.                                                            *)
(*                                                                         *)
(* A run is the promise of agent.run().  It settles when the agent lets    *)
(* go, which may be long after the user has aborted, archived or deleted   *)
(* the session; lifecycleGeneration tells its late callbacks and its       *)
(* settlement from those of a run that still owns the session.  Every      *)
(* such change counts the generation up and only a new run reads it, so    *)
(* the model keeps `owned`: whether the run under way has its generation.  *)
(*                                                                         *)
(* A handler is one step.  A callback queued with setImmediate runs after  *)
(* the handlers that are due at the moment and before any answer of a      *)
(* model or a tool; Settle respects that.                                  *)
(***************************************************************************)
EXTENDS Naturals

CONSTANTS
  Runs, NoRun,
  Requests,                      \* approval requests, by tool call id
  Timeouts,                      \* whether approvalTimeoutMs is set
  maxConsecutive, maxSessionTotal, progressThreshold

ASSUME RunAssumption == NoRun \notin Runs /\ Timeouts \in BOOLEAN
ASSUME PolicyAssumption ==
  maxConsecutive \in Nat /\ maxSessionTotal \in Nat /\ progressThreshold \in Nat

VARIABLES
  status,       \* session.record.status
  archived,     \* session.record.archived
  deleted,      \* session.tombstoned
  current,      \* the run whose promise has not settled, or NoRun: session.running
  owned,        \* ownsSessionLifecycle, for that run
  request,      \* the requests: "unasked", "pending", "approved", "denied"
  answers,      \* how often the promise of a request was resolved
  denied,       \* whether lastApprovalDeniedAt is set
  stalled,      \* whether lastAbortReason is one of the watchdog's
  heldUp,       \* abortWhileApprovalPending
  immediate,    \* the setImmediate of the watchdog: "no", "plain", "suppressed"
  countdown,    \* whether watchdogContinueTimer is set
  cancelled,    \* watchdogRecoveryCancelled
  consecutive, sessionTotal, progress,   \* WatchdogRecoveryPolicy
  outcome,      \* history: the verdict of each run
  acted,        \* history: the user has acted since the last run stalled
  continued,    \* history: runs the watchdog began since the user or a turn
  denseTotal    \* history: those of all runs that followed too little progress

control == <<status, archived, deleted, current, owned>>
approvals == <<request, answers, denied>>
watchdog == <<stalled, heldUp, immediate, countdown, cancelled>>
policy == <<consecutive, sessionTotal, progress>>
history == <<outcome, acted, continued, denseTotal>>
vars == <<control, approvals, watchdog, policy, history>>

Pending == {q \in Requests : request[q] = "pending"}

-----------------------------------------------------------------------------
Init ==
  /\ status = "idle"
  /\ archived = FALSE
  /\ deleted = FALSE
  /\ current = NoRun
  /\ owned = FALSE
  /\ request = [q \in Requests |-> "unasked"]
  /\ answers = [q \in Requests |-> 0]
  /\ denied = FALSE
  /\ stalled = FALSE
  /\ heldUp = FALSE
  /\ immediate = "no"
  /\ countdown = FALSE
  /\ cancelled = FALSE
  /\ consecutive = 0 /\ sessionTotal = 0 /\ progress = 0
  /\ outcome = [r \in Runs |-> "none"]
  /\ acted = FALSE
  /\ continued = 0
  /\ denseTotal = 0

\* Everything that is pending is denied.
DenyPending ==
  /\ request' = [q \in Requests |-> IF q \in Pending THEN "denied" ELSE request[q]]
  /\ answers' = [q \in Requests |-> IF q \in Pending THEN answers[q] + 1 ELSE answers[q]]

rejectAllPending ==
  /\ DenyPending
  /\ denied' = (denied \/ Pending # {})

\* The run under way gets its verdict when the record leaves "running".
Verdict(v) == outcome' = [outcome EXCEPT ![current] = v]
DecideRunning(v) ==
  \/ status = "running" /\ status' = v /\ Verdict(v)
  \/ status # "running" /\ UNCHANGED <<status, outcome>>

\* run() past its guard, but for the policy.
Begin(r) ==
  /\ ~deleted
  /\ current = NoRun
  /\ outcome[r] = "none"
  /\ current' = r
  /\ owned' = TRUE
  /\ status' = "running"
  /\ cancelled' = FALSE
  /\ stalled' = FALSE
  /\ heldUp' = FALSE
  /\ countdown' = FALSE

\* A prompt of the user.
Run(r) ==
  /\ Begin(r)
  /\ consecutive' = 0
  /\ acted' = TRUE
  /\ continued' = 0
  /\ UNCHANGED <<archived, deleted, approvals, immediate, sessionTotal, progress,
                 outcome, denseTotal>>

\* onTurnComplete.
recordTurnComplete ==
  /\ current # NoRun /\ owned
  /\ consecutive' = 0
  /\ continued' = 0
  /\ progress' = IF progress < progressThreshold THEN progress + 1 ELSE progress
  /\ UNCHANGED <<control, approvals, watchdog, sessionTotal, outcome, acted, denseTotal>>

\* onToolResult of a final result.  toolResultClosed is set by archive and delete
\* only, which end the ownership of a run too.
recordToolResult ==
  /\ current # NoRun /\ owned
  /\ progress < progressThreshold
  /\ progress' = progress + 1
  /\ UNCHANGED <<control, approvals, watchdog, consecutive, sessionTotal, history>>

-----------------------------------------------------------------------------
(* Approvals.                                                              *)

\* A tool of the run asks; one of a run that was aborted is denied at once.
requestApproval(q) ==
  /\ current # NoRun
  /\ request[q] = "unasked"
  /\ \/ /\ owned
        /\ request' = [request EXCEPT ![q] = "pending"]
        /\ UNCHANGED answers
     \/ /\ ~owned
        /\ request' = [request EXCEPT ![q] = "denied"]
        /\ answers' = [answers EXCEPT ![q] = @ + 1]
  /\ UNCHANGED <<control, denied, watchdog, policy, history>>

answerIntervention(q, decision) ==
  /\ ~deleted
  /\ q \in Pending
  /\ request' = [request EXCEPT ![q] = decision]
  /\ answers' = [answers EXCEPT ![q] = @ + 1]
  /\ denied' = (denied \/ decision = "denied")
  /\ UNCHANGED <<control, watchdog, policy, history>>

\* The timer of a pending request; it is cleared with the request.
approvalTimeout(q) ==
  /\ Timeouts
  /\ q \in Pending
  /\ request' = [request EXCEPT ![q] = "denied"]
  /\ answers' = [answers EXCEPT ![q] = @ + 1]
  /\ denied' = TRUE
  /\ UNCHANGED <<control, watchdog, policy, history>>

-----------------------------------------------------------------------------
(* The end of a run.                                                       *)

\* The agent stops itself, because its watchdog fired or for another reason.
onAbort(byWatchdog) ==
  /\ current # NoRun /\ owned
  /\ immediate = "no"
  /\ stalled' = byWatchdog
  /\ heldUp' = (Pending # {})
  /\ DecideRunning("aborted")
  /\ UNCHANGED <<archived, deleted, current, owned, approvals, immediate, countdown,
                 cancelled, policy, acted, continued, denseTotal>>

\* Mutant: the settlement overwrites the verdict.
Settled_Overwrite(v) == status' = v /\ Verdict(v)
Settled(v) == DecideRunning(v)

\* maybeWatchdogAutoContinue, up to its setImmediate.  A denial counts for a
\* while only.
WatchdogQueued ==
  \/ /\ stalled
     /\ \/ immediate' = "suppressed" /\ (heldUp \/ denied')
        \/ immediate' = "plain" /\ ~heldUp /\ Pending = {}
  \/ ~stalled /\ UNCHANGED immediate

\* The promise of the run settles, resolved with v = "completed" or rejected
\* with v = "failed".  Only the owner changes the record.  A run that settles
\* before the queued callback has failed at once.
Settle(v) ==
  /\ current # NoRun
  /\ immediate = "no" \/ v = "failed"
  /\ current' = NoRun
  /\ \/ /\ owned
        /\ Settled(v)
        /\ rejectAllPending
        /\ WatchdogQueued
        /\ acted' = (acted /\ ~stalled)
     \/ /\ ~owned
        /\ UNCHANGED <<status, outcome, approvals, immediate, acted>>
  /\ owned' = FALSE
  /\ UNCHANGED <<archived, deleted, stalled, heldUp, countdown, cancelled, policy,
                 continued, denseTotal>>

-----------------------------------------------------------------------------
(* The user.                                                               *)

\* Mutant: an abort leaves the watchdog alone.
abort_RunOnly ==
  /\ ~deleted
  /\ DecideRunning("aborted")
  /\ owned' = FALSE
  /\ rejectAllPending
  /\ acted' = TRUE
  /\ UNCHANGED <<archived, deleted, current, watchdog, policy, continued, denseTotal>>

abort ==
  /\ ~deleted
  /\ DecideRunning("aborted")
  /\ owned' = FALSE
  /\ cancelled' = TRUE
  /\ countdown' = FALSE
  /\ rejectAllPending
  /\ acted' = TRUE
  /\ UNCHANGED <<archived, deleted, current, stalled, heldUp, immediate, policy,
                 continued, denseTotal>>

\* Mutant: the approvals of the run are left to its settlement.
archiveSession_NoReject ==
  /\ ~deleted /\ ~archived
  /\ archived' = TRUE
  /\ owned' = FALSE
  /\ status' = IF current = NoRun THEN status ELSE "aborted"
  /\ \/ status = "running" /\ Verdict("aborted")
     \/ status # "running" /\ UNCHANGED outcome
  /\ acted' = TRUE
  /\ UNCHANGED <<deleted, current, approvals, watchdog, policy, continued, denseTotal>>

archiveSession ==
  /\ ~deleted /\ ~archived
  /\ archived' = TRUE
  /\ owned' = FALSE
  /\ status' = IF current = NoRun THEN status ELSE "aborted"
  /\ \/ status = "running" /\ Verdict("aborted")
     \/ status # "running" /\ UNCHANGED outcome
  /\ \/ current # NoRun /\ rejectAllPending
     \/ current = NoRun /\ UNCHANGED approvals
  /\ acted' = TRUE
  /\ UNCHANGED <<deleted, current, watchdog, policy, continued, denseTotal>>

\* An archived session may have a run: one that has not settled, or one that
\* was begun since.
Withdraw ==
  \/ status = "running" /\ Verdict("withdrawn")
  \/ status # "running" /\ UNCHANGED outcome

unarchiveSession ==
  /\ ~deleted /\ archived
  /\ archived' = FALSE
  /\ status' = "idle"
  /\ Withdraw
  /\ acted' = TRUE
  /\ UNCHANGED <<deleted, current, owned, approvals, watchdog, policy, continued,
                 denseTotal>>

deleteSession ==
  /\ ~deleted /\ archived
  /\ deleted' = TRUE
  /\ owned' = FALSE
  /\ DenyPending
  /\ Withdraw
  /\ countdown' = FALSE
  /\ cancelled' = TRUE
  /\ acted' = TRUE
  /\ UNCHANGED <<status, archived, current, denied, stalled, heldUp, immediate, policy,
                 continued, denseTotal>>

-----------------------------------------------------------------------------
(* The watchdog.                                                           *)

MayContinue ==
  /\ ~deleted
  /\ current = NoRun
  /\ status = "aborted"
  /\ ~archived
  /\ ~cancelled

Dense == progress < progressThreshold
\* Mutant: one continuation too many.
Exhausted_Above == sessionTotal > maxSessionTotal \/ consecutive > maxConsecutive
Exhausted == sessionTotal >= maxSessionTotal \/ consecutive >= maxConsecutive

\* Mutant: a stall after little progress does not count for the session.
onStall_Free ==
  /\ consecutive' = consecutive + 1
  /\ progress' = 0
  /\ UNCHANGED sessionTotal

\* onStall, of a stall that is continued.
onStall ==
  /\ consecutive' = consecutive + 1
  /\ sessionTotal' = IF Dense THEN sessionTotal + 1 ELSE sessionTotal
  /\ progress' = 0

\* The setImmediate callback: it decides, and starts the countdown.
decideContinue ==
  /\ immediate # "no"
  /\ immediate' = "no"
  /\ \/ /\ MayContinue /\ immediate = "plain" /\ ~Exhausted
        /\ onStall
        /\ countdown' = TRUE
        /\ denseTotal' = IF Dense THEN denseTotal + 1 ELSE denseTotal
     \/ /\ ~MayContinue \/ immediate = "suppressed" \/ Exhausted
        /\ UNCHANGED <<countdown, policy, denseTotal>>
  /\ UNCHANGED <<control, approvals, stalled, heldUp, cancelled, outcome, acted, continued>>

\* The countdown ends: the guard is checked once more.
autoContinue ==
  /\ countdown
  /\ \/ /\ MayContinue
        /\ \E r \in Runs : Begin(r)
        /\ continued' = continued + 1
        /\ UNCHANGED <<archived, deleted, approvals, immediate, policy, outcome, acted,
                       denseTotal>>
     \/ /\ ~MayContinue
        /\ countdown' = FALSE
        /\ UNCHANGED <<control, approvals, stalled, heldUp, immediate, cancelled, policy,
                       history>>

Next ==
  \/ \E r \in Runs : Run(r)
  \/ recordTurnComplete \/ recordToolResult
  \/ \E q \in Requests :
       \/ requestApproval(q) \/ approvalTimeout(q)
       \/ \E d \in {"approved", "denied"} : answerIntervention(q, d)
  \/ \E b \in BOOLEAN : onAbort(b)
  \/ \E v \in {"completed", "failed"} : Settle(v)
  \/ abort \/ archiveSession \/ unarchiveSession \/ deleteSession
  \/ decideContinue \/ autoContinue

Spec == Init /\ [][Next]_vars
-----------------------------------------------------------------------------
(* Properties.                                                             *)

Answers == {"approved", "denied"}

\* The values each variable may have.
TypeOK ==
  /\ status \in {"idle", "running", "completed", "failed", "aborted"}
  /\ archived \in BOOLEAN /\ deleted \in BOOLEAN
  /\ current \in Runs \cup {NoRun}
  /\ owned \in BOOLEAN
  /\ request \in [Requests -> {"unasked", "pending"} \cup Answers]
  /\ answers \in [Requests -> Nat]
  /\ denied \in BOOLEAN
  /\ stalled \in BOOLEAN /\ heldUp \in BOOLEAN
  /\ immediate \in {"no", "plain", "suppressed"}
  /\ countdown \in BOOLEAN /\ cancelled \in BOOLEAN
  /\ consecutive \in 0 .. maxConsecutive
  /\ sessionTotal \in 0 .. maxSessionTotal
  /\ progress \in 0 .. progressThreshold
  /\ outcome \in [Runs -> {"none", "completed", "failed", "aborted", "withdrawn"}]
  /\ acted \in BOOLEAN
  /\ continued \in Nat
  /\ denseTotal \in Nat

\* A pending approval belongs to a run that is under way and owns the session:
\* abort, archive, delete and settlement each leave none behind, although an
\* aborted run lives on and its tools go on asking.  Every request that is not
\* pending any more was answered exactly once.
ApprovalsBelongToRun ==
  /\ Pending # {} => current # NoRun /\ owned /\ ~deleted
  /\ \A q \in Requests : answers[q] = IF request[q] \in Answers THEN 1 ELSE 0

\* The watchdog does not begin a run once the user has aborted, archived,
\* restored or prompted the session since the stall, whenever in the settling,
\* the queued callback or the countdown that was.
AutoContinueYields == [][continued' > continued => ~acted /\ ~archived]_vars

\* The watchdog begins at most maxConsecutive runs in a row of which none
\* completes a turn, and at most maxSessionTotal after too little progress.
ContinuationsAreBounded ==
  /\ continued <= maxConsecutive
  /\ denseTotal <= maxSessionTotal

Serial == INSTANCE SerialRuns WITH busy <- current, verdict <- outcome

\* A session takes its runs one at a time and gives each one verdict, however
\* long an aborted run takes to settle and whatever it still reports.
ImplementsSerialRuns == Serial!Spec
=============================================================================
