--------------------------- MODULE SessionRunProofs ---------------------------
(***************************************************************************)
(* What SessionRun promises, for any runs, requests and limits.            *)
(*                                                                         *)
(* One inductive invariant carries everything.  Its parts say which run    *)
(* the record speaks of (RecordFollowsRun), that callback and countdown of *)
(* the watchdog never coexist with each other or with a run they were not  *)
(* made for (WatchdogAlone), that they give way to the user whenever the   *)
(* guard would let them pass (WatchdogYields), and how the history counts  *)
(* relate to the counts of the policy (CountsAgree).                       *)
(***************************************************************************)
EXTENDS SessionRun, TLAPS

RecordFollowsRun ==
  /\ owned => current # NoRun /\ ~deleted
  /\ current # NoRun /\ outcome[current] = "none" => owned /\ status = "running"
  /\ ~deleted /\ status = "running" => current # NoRun /\ owned /\ outcome[current] = "none"

WatchdogAlone ==
  /\ current # NoRun => ~countdown
  /\ immediate # "no" => ~countdown

WatchdogYields ==
  (countdown \/ immediate # "no") /\ status = "aborted" /\ ~archived /\ ~cancelled /\ ~deleted
    => ~acted

CountsAgree ==
  /\ continued + (IF countdown THEN 1 ELSE 0) <= consecutive
  /\ denseTotal = sessionTotal

IInv ==
  /\ TypeOK
  /\ ApprovalsBelongToRun
  /\ RecordFollowsRun
  /\ WatchdogAlone
  /\ WatchdogYields
  /\ CountsAgree

-----------------------------------------------------------------------------
\* The initial state of a session satisfies the invariant.
LEMMA InitInv == Init => IInv
<1> SUFFICES ASSUME Init PROVE IInv
  OBVIOUS
<1>1. TypeOK
  <2>1. consecutive \in 0 .. maxConsecutive /\ sessionTotal \in 0 .. maxSessionTotal
         /\ progress \in 0 .. progressThreshold
    BY PolicyAssumption DEF Init
  <2>2. request \in [Requests -> {"unasked", "pending"} \cup Answers] /\ answers \in [Requests -> Nat]
         /\ outcome \in [Runs -> {"none", "completed", "failed", "aborted", "withdrawn"}]
    BY DEF Init
  <2> QED BY <2>1, <2>2 DEF Init, TypeOK
<1>2. ApprovalsBelongToRun
  BY DEF Init, ApprovalsBelongToRun, Pending, Answers
<1>3. RecordFollowsRun /\ WatchdogAlone /\ WatchdogYields /\ CountsAgree
  BY DEF Init, RecordFollowsRun, WatchdogAlone, WatchdogYields, CountsAgree
<1> QED BY <1>1, <1>2, <1>3 DEF IInv

\* Denying everything that is pending answers each pending request once.
LEMMA DenyPendingAnswers ==
  ASSUME TypeOK, ApprovalsBelongToRun, DenyPending
  PROVE  /\ request' \in [Requests -> {"unasked", "pending"} \cup Answers]
         /\ answers' \in [Requests -> Nat]
         /\ Pending' = {}
         /\ \A q \in Requests : answers'[q] = IF request'[q] \in Answers THEN 1 ELSE 0
  BY DEF TypeOK, ApprovalsBelongToRun, DenyPending, Pending, Answers

\* An answer to one pending request is its only one.
LEMMA AnswerOne ==
  ASSUME TypeOK, ApprovalsBelongToRun, NEW q \in Pending, NEW d \in Answers,
         request' = [request EXCEPT ![q] = d],
         answers' = [answers EXCEPT ![q] = @ + 1],
         UNCHANGED <<current, owned, deleted>>
  PROVE  /\ request' \in [Requests -> {"unasked", "pending"} \cup Answers]
         /\ answers' \in [Requests -> Nat]
         /\ ApprovalsBelongToRun'
  BY DEF TypeOK, ApprovalsBelongToRun, Pending, Answers

\* The invariant is kept by every step of a session.
LEMMA NextInv == IInv /\ [Next]_vars => IInv'
<1> SUFFICES ASSUME IInv, [Next]_vars PROVE IInv'
  OBVIOUS
<1> USE RunAssumption, PolicyAssumption
<1> USE DEF IInv
<1>1. ASSUME NEW r \in Runs, Run(r) PROVE IInv'
  <2>1. TypeOK'
    <3>1. consecutive' \in 0 .. maxConsecutive /\ continued' \in Nat
      BY <1>1 DEF Run
    <3>2. /\ status' = "running" /\ current' = r /\ owned' = TRUE /\ cancelled' = FALSE
          /\ stalled' = FALSE /\ heldUp' = FALSE /\ countdown' = FALSE /\ acted' = TRUE
          /\ UNCHANGED <<archived, deleted, request, answers, denied, immediate, sessionTotal,
                         progress, outcome, denseTotal>>
      BY <1>1 DEF Run, Begin, approvals
    <3> QED BY <3>1, <3>2 DEF TypeOK
  <2>2. ApprovalsBelongToRun'
    BY <1>1 DEF Run, Begin, ApprovalsBelongToRun, Pending, approvals
  <2>3. RecordFollowsRun' /\ WatchdogAlone' /\ WatchdogYields' /\ CountsAgree'
    BY <1>1 DEF Run, Begin, RecordFollowsRun, WatchdogAlone, WatchdogYields, CountsAgree
  <2> QED BY <2>1, <2>2, <2>3
<1>2. CASE recordTurnComplete
  BY <1>2 DEF recordTurnComplete, TypeOK, ApprovalsBelongToRun, Pending, Answers,
     RecordFollowsRun, WatchdogAlone, WatchdogYields, CountsAgree, control, approvals, watchdog
<1>3. CASE recordToolResult
  BY <1>3 DEF recordToolResult, TypeOK, ApprovalsBelongToRun, Pending, Answers,
     RecordFollowsRun, WatchdogAlone, WatchdogYields, CountsAgree, control, approvals, watchdog,
     history
<1>4. ASSUME NEW q \in Requests, requestApproval(q) PROVE IInv'
  <2>1. TypeOK' /\ ApprovalsBelongToRun'
    BY <1>4 DEF requestApproval, TypeOK, ApprovalsBelongToRun, Pending, Answers,
       RecordFollowsRun, control, watchdog, policy, history
  <2>2. RecordFollowsRun' /\ WatchdogAlone' /\ WatchdogYields' /\ CountsAgree'
    BY <1>4 DEF requestApproval, RecordFollowsRun, WatchdogAlone, WatchdogYields, CountsAgree,
       control, watchdog, policy, history
  <2> QED BY <2>1, <2>2
<1>5. ASSUME NEW q \in Requests, NEW d \in {"approved", "denied"}, answerIntervention(q, d)
      PROVE IInv'
  <2>1. /\ q \in Pending /\ d \in Answers
        /\ request' = [request EXCEPT ![q] = d]
        /\ answers' = [answers EXCEPT ![q] = @ + 1]
        /\ UNCHANGED <<current, owned, deleted>>
    BY <1>5 DEF answerIntervention, Answers, control
  <2>2. /\ ApprovalsBelongToRun'
        /\ request' \in [Requests -> {"unasked", "pending"} \cup Answers]
        /\ answers' \in [Requests -> Nat]
    BY <2>1, AnswerOne
  <2>3. TypeOK'
    BY <1>5, <2>2 DEF answerIntervention, TypeOK, control, watchdog, policy, history
  <2>4. RecordFollowsRun' /\ WatchdogAlone' /\ WatchdogYields' /\ CountsAgree'
    BY <1>5 DEF answerIntervention, RecordFollowsRun, WatchdogAlone, WatchdogYields,
       CountsAgree, control, watchdog, policy, history
  <2> QED BY <2>2, <2>3, <2>4
<1>6. ASSUME NEW q \in Requests, approvalTimeout(q) PROVE IInv'
  <2>1. /\ q \in Pending /\ "denied" \in Answers
        /\ request' = [request EXCEPT ![q] = "denied"]
        /\ answers' = [answers EXCEPT ![q] = @ + 1]
        /\ UNCHANGED <<current, owned, deleted>>
    BY <1>6 DEF approvalTimeout, Answers, control
  <2>2. /\ ApprovalsBelongToRun'
        /\ request' \in [Requests -> {"unasked", "pending"} \cup Answers]
        /\ answers' \in [Requests -> Nat]
    BY <2>1, AnswerOne
  <2>3. TypeOK'
    BY <1>6, <2>2 DEF approvalTimeout, TypeOK, control, watchdog, policy, history
  <2>4. RecordFollowsRun' /\ WatchdogAlone' /\ WatchdogYields' /\ CountsAgree'
    BY <1>6 DEF approvalTimeout, RecordFollowsRun, WatchdogAlone, WatchdogYields, CountsAgree,
       control, watchdog, policy, history
  <2> QED BY <2>2, <2>3, <2>4
<1>7. ASSUME NEW b \in BOOLEAN, onAbort(b) PROVE IInv'
  BY <1>7 DEF onAbort, DecideRunning, Verdict, TypeOK, ApprovalsBelongToRun, Pending, Answers,
     RecordFollowsRun, WatchdogAlone, WatchdogYields, CountsAgree, approvals, policy
<1>8. ASSUME NEW v \in {"completed", "failed"}, Settle(v) PROVE IInv'
  <2>1. CASE owned
    <3>1. Settled(v) /\ rejectAllPending /\ WatchdogQueued /\ acted' = (acted /\ ~stalled)
      BY <1>8, <2>1 DEF Settle
    <3>2. TypeOK'
      <4>1. /\ request' \in [Requests -> {"unasked", "pending"} \cup Answers]
            /\ answers' \in [Requests -> Nat]
        BY <3>1, DenyPendingAnswers DEF rejectAllPending
      <4>2. denied' \in BOOLEAN BY <3>1 DEF rejectAllPending, TypeOK
      <4>3. immediate' \in {"no", "plain", "suppressed"} /\ acted' \in BOOLEAN
        BY <3>1 DEF WatchdogQueued, TypeOK
      <4>4. /\ status' \in {"idle", "running", "completed", "failed", "aborted"}
            /\ outcome' \in [Runs -> {"none", "completed", "failed", "aborted", "withdrawn"}]
        BY <1>8, <3>1 DEF Settled, DecideRunning, Verdict, TypeOK
      <4>5. /\ current' = NoRun /\ owned' = FALSE
            /\ UNCHANGED <<archived, deleted, stalled, heldUp, countdown, cancelled, policy,
                           continued, denseTotal>>
        BY <1>8 DEF Settle
      <4> QED BY <4>1, <4>2, <4>3, <4>4, <4>5 DEF TypeOK, policy
    <3>3. ApprovalsBelongToRun'
      BY <3>1, DenyPendingAnswers DEF rejectAllPending, ApprovalsBelongToRun, Pending
    <3>4. RecordFollowsRun' /\ WatchdogAlone'
      BY <1>8, <3>1 DEF Settle, Settled, DecideRunning, Verdict, RecordFollowsRun,
         WatchdogAlone, TypeOK
    <3>5. WatchdogYields'
      BY <1>8, <3>1 DEF Settle, Settled, DecideRunning, WatchdogQueued, WatchdogYields,
         WatchdogAlone, TypeOK
    <3>6. CountsAgree'
      BY <1>8 DEF Settle, CountsAgree, policy
    <3> QED BY <3>2, <3>3, <3>4, <3>5, <3>6
  <2>2. CASE ~owned
    <3>1. TypeOK'
      <4>1. /\ current' = NoRun /\ owned' = FALSE
            /\ UNCHANGED <<status, outcome, approvals, immediate, acted, archived, deleted,
                           stalled, heldUp, countdown, cancelled, policy, continued, denseTotal>>
        BY <1>8, <2>2 DEF Settle
      <4>2. /\ status' \in {"idle", "running", "completed", "failed", "aborted"}
            /\ outcome' \in [Runs -> {"none", "completed", "failed", "aborted", "withdrawn"}]
            /\ request' \in [Requests -> {"unasked", "pending"} \cup Answers]
            /\ answers' \in [Requests -> Nat] /\ denied' \in BOOLEAN
        BY <4>1 DEF TypeOK, approvals
      <4> QED BY <4>1, <4>2 DEF TypeOK, policy
    <3>2. ApprovalsBelongToRun'
      BY <1>8, <2>2 DEF Settle, ApprovalsBelongToRun, Pending, approvals
    <3>3. RecordFollowsRun' /\ WatchdogAlone' /\ WatchdogYields' /\ CountsAgree'
      BY <1>8, <2>2 DEF Settle, RecordFollowsRun, WatchdogAlone, WatchdogYields, CountsAgree,
         policy
    <3> QED BY <3>1, <3>2, <3>3
  <2> QED BY <2>1, <2>2 DEF TypeOK
<1>9. CASE abort
  <2>1. TypeOK' /\ ApprovalsBelongToRun'
    BY <1>9, DenyPendingAnswers DEF abort, rejectAllPending, DecideRunning, Verdict, TypeOK,
       ApprovalsBelongToRun, Pending, RecordFollowsRun, policy
  <2>2. RecordFollowsRun' /\ WatchdogAlone' /\ WatchdogYields' /\ CountsAgree'
    BY <1>9 DEF abort, DecideRunning, Verdict, RecordFollowsRun, WatchdogAlone, WatchdogYields,
       CountsAgree, TypeOK, policy
  <2> QED BY <2>1, <2>2
<1>10. CASE archiveSession
  <2>1. ApprovalsBelongToRun' /\ request' \in [Requests -> {"unasked", "pending"} \cup Answers]
           /\ answers' \in [Requests -> Nat] /\ denied' \in BOOLEAN
    <3>1. CASE current # NoRun /\ rejectAllPending
      BY <3>1, DenyPendingAnswers DEF rejectAllPending, ApprovalsBelongToRun, Pending, TypeOK
    <3>2. CASE current = NoRun /\ UNCHANGED approvals
      BY <1>10, <3>2 DEF archiveSession, ApprovalsBelongToRun, Pending, TypeOK, approvals
    <3> QED BY <1>10, <3>1, <3>2 DEF archiveSession
  <2>2. TypeOK'
    BY <1>10, <2>1 DEF archiveSession, Verdict, TypeOK, RecordFollowsRun, watchdog, policy
  <2>3. RecordFollowsRun' /\ WatchdogAlone' /\ WatchdogYields' /\ CountsAgree'
    BY <1>10 DEF archiveSession, Verdict, RecordFollowsRun, WatchdogAlone, WatchdogYields,
       CountsAgree, TypeOK, watchdog, policy
  <2> QED BY <2>1, <2>2, <2>3
<1>11. CASE unarchiveSession
  BY <1>11 DEF unarchiveSession, Withdraw, Verdict, TypeOK, ApprovalsBelongToRun, Pending,
     Answers, RecordFollowsRun, WatchdogAlone, WatchdogYields, CountsAgree, approvals, watchdog,
     policy
<1>12. CASE deleteSession
  <2>1. TypeOK' /\ ApprovalsBelongToRun'
    BY <1>12, DenyPendingAnswers DEF deleteSession, Withdraw, Verdict, TypeOK,
       ApprovalsBelongToRun, Pending, RecordFollowsRun, policy
  <2>2. RecordFollowsRun' /\ WatchdogAlone' /\ WatchdogYields' /\ CountsAgree'
    BY <1>12 DEF deleteSession, Withdraw, Verdict, RecordFollowsRun, WatchdogAlone,
       WatchdogYields, CountsAgree, TypeOK, policy
  <2> QED BY <2>1, <2>2
<1>13. CASE decideContinue
  <2>1. TypeOK' /\ CountsAgree'
    <3>1. CASE /\ ~Exhausted /\ onStall /\ countdown' = TRUE
               /\ denseTotal' = IF Dense THEN denseTotal + 1 ELSE denseTotal
      <4>1. TypeOK'
        BY <1>13, <3>1 DEF decideContinue, Exhausted, onStall, TypeOK, control, approvals
      <4>2. CountsAgree'
        BY <1>13, <3>1 DEF decideContinue, onStall, TypeOK, CountsAgree, WatchdogAlone
      <4> QED BY <4>1, <4>2
    <3>2. CASE UNCHANGED <<countdown, policy, denseTotal>>
      BY <1>13, <3>2 DEF decideContinue, TypeOK, CountsAgree, control, approvals, policy
    <3> QED BY <1>13, <3>1, <3>2 DEF decideContinue
  <2>2. ApprovalsBelongToRun' /\ RecordFollowsRun' /\ WatchdogAlone' /\ WatchdogYields'
    BY <1>13 DEF decideContinue, MayContinue, ApprovalsBelongToRun, Pending, Answers,
       RecordFollowsRun, WatchdogAlone, WatchdogYields, TypeOK, control, approvals, policy
  <2> QED BY <2>1, <2>2
<1>14. CASE autoContinue
  <2>1. ASSUME NEW r \in Runs, Begin(r), countdown, continued' = continued + 1,
               UNCHANGED <<archived, deleted, approvals, immediate, policy, outcome, acted,
                           denseTotal>>
        PROVE  IInv'
    <3>1. TypeOK'
      <4>1. /\ status' = "running" /\ current' = r /\ owned' = TRUE /\ cancelled' = FALSE
            /\ stalled' = FALSE /\ heldUp' = FALSE /\ countdown' = FALSE
            /\ UNCHANGED <<archived, deleted, request, answers, denied, immediate, consecutive,
                           sessionTotal, progress, outcome, acted, denseTotal>>
        BY <2>1 DEF Begin, approvals, policy
      <4>2. continued' \in Nat
        BY <2>1 DEF TypeOK
      <4> QED BY <4>1, <4>2 DEF TypeOK
    <3>2. ApprovalsBelongToRun'
      BY <2>1 DEF Begin, ApprovalsBelongToRun, Pending, approvals
    <3>3. RecordFollowsRun' /\ WatchdogAlone' /\ WatchdogYields' /\ CountsAgree'
      BY <2>1 DEF Begin, RecordFollowsRun, WatchdogAlone, WatchdogYields, CountsAgree, TypeOK,
         policy
    <3> QED BY <3>1, <3>2, <3>3
  <2>2. ASSUME countdown' = FALSE,
               UNCHANGED <<control, approvals, stalled, heldUp, immediate, cancelled, policy,
                           history>>
        PROVE  IInv'
    <3>0. /\ countdown' = FALSE
          /\ UNCHANGED <<archived, deleted, owned, denied, stalled, heldUp, cancelled, acted>>
          /\ UNCHANGED <<status, current, request, answers, immediate, outcome>>
          /\ UNCHANGED <<consecutive, sessionTotal, progress, continued, denseTotal>>
      BY <2>2 DEF control, approvals, policy, history
    <3>1. TypeOK'
      <4>1. /\ consecutive' \in 0 .. maxConsecutive /\ sessionTotal' \in 0 .. maxSessionTotal
            /\ progress' \in 0 .. progressThreshold /\ continued' \in Nat /\ denseTotal' \in Nat
        BY <3>0 DEF TypeOK
      <4>2. /\ request' \in [Requests -> {"unasked", "pending"} \cup Answers]
            /\ answers' \in [Requests -> Nat]
            /\ outcome' \in [Runs -> {"none", "completed", "failed", "aborted", "withdrawn"}]
            /\ current' \in Runs \cup {NoRun}
        BY <3>0 DEF TypeOK
      <4>3. /\ status' \in {"idle", "running", "completed", "failed", "aborted"}
            /\ immediate' \in {"no", "plain", "suppressed"}
        BY <3>0 DEF TypeOK
      <4>4. /\ archived' \in BOOLEAN /\ deleted' \in BOOLEAN /\ owned' \in BOOLEAN
            /\ denied' \in BOOLEAN /\ stalled' \in BOOLEAN /\ heldUp' \in BOOLEAN
            /\ countdown' \in BOOLEAN /\ cancelled' \in BOOLEAN /\ acted' \in BOOLEAN
        BY <3>0 DEF TypeOK
      <4> QED BY <4>1, <4>2, <4>3, <4>4 DEF TypeOK
    <3>2. ApprovalsBelongToRun'
      BY <3>0 DEF ApprovalsBelongToRun, Pending
    <3>3. RecordFollowsRun' /\ WatchdogAlone' /\ WatchdogYields' /\ CountsAgree'
      BY <3>0 DEF RecordFollowsRun, WatchdogAlone, WatchdogYields, CountsAgree, TypeOK
    <3> QED BY <3>1, <3>2, <3>3
  <2> QED BY <1>14, <2>1, <2>2 DEF autoContinue
<1>15. CASE UNCHANGED vars
  BY <1>15 DEF vars, control, approvals, watchdog, policy, history, TypeOK,
     ApprovalsBelongToRun, Pending, Answers, RecordFollowsRun, WatchdogAlone, WatchdogYields,
     CountsAgree
<1> QED
  BY <1>1, <1>2, <1>3, <1>4, <1>5, <1>6, <1>7, <1>8, <1>9, <1>10, <1>11, <1>12, <1>13, <1>14,
     <1>15 DEF Next

\* The invariant holds in every reachable state.
THEOREM Invariance == Spec => []IInv
  BY InitInv, NextInv, PTL DEF Spec

\* The variables of a session keep their types.
THEOREM TypeCorrect == Spec => []TypeOK
  BY Invariance, PTL DEF IInv

\* Pending approvals belong to the run that owns the session, and every
\* request is answered once.
THEOREM ApprovalsAnsweredOnce == Spec => []ApprovalsBelongToRun
  BY Invariance, PTL DEF IInv

\* The watchdog stays within its limits.
THEOREM WatchdogBounded == Spec => []ContinuationsAreBounded
<1>1. IInv => ContinuationsAreBounded
  BY PolicyAssumption DEF IInv, TypeOK, CountsAgree, ContinuationsAreBounded
<1> QED BY <1>1, Invariance, PTL

-----------------------------------------------------------------------------
\* A step by which the watchdog begins a run finds a session that the user has
\* left alone since the stall, and has not archived.
LEMMA ContinueYields == IInv /\ [Next]_vars => (continued' > continued => ~acted /\ ~archived)
<1> SUFFICES ASSUME IInv, [Next]_vars, continued' > continued PROVE ~acted /\ ~archived
  OBVIOUS
<1>1. continued \in Nat
  BY DEF IInv, TypeOK
<1>2. ASSUME UNCHANGED continued PROVE FALSE
  BY <1>1, <1>2
<1>3. ASSUME continued' = 0 PROVE FALSE
  BY <1>1, <1>3
<1>4. CASE autoContinue
  <2>1. countdown /\ MayContinue
    BY <1>2, <1>4 DEF autoContinue, history
  <2> QED BY <2>1 DEF MayContinue, IInv, WatchdogYields
<1>5. ASSUME NEW r \in Runs, Run(r) PROVE FALSE
  BY <1>3, <1>5 DEF Run
<1>6. CASE recordTurnComplete
  BY <1>3, <1>6 DEF recordTurnComplete
<1>7. ASSUME NEW v \in {"completed", "failed"}, Settle(v) PROVE FALSE
  BY <1>2, <1>7 DEF Settle
<1>8. ASSUME NEW b \in BOOLEAN, onAbort(b) PROVE FALSE
  BY <1>2, <1>8 DEF onAbort
<1>9. ASSUME NEW q \in Requests,
             \/ requestApproval(q) \/ approvalTimeout(q)
             \/ \E d \in {"approved", "denied"} : answerIntervention(q, d)
      PROVE  FALSE
  BY <1>2, <1>9 DEF requestApproval, approvalTimeout, answerIntervention, history
<1>10. CASE \/ recordToolResult \/ abort \/ archiveSession \/ unarchiveSession
            \/ deleteSession \/ decideContinue \/ UNCHANGED vars
  BY <1>2, <1>10 DEF recordToolResult, abort, archiveSession, unarchiveSession, deleteSession,
     decideContinue, vars, history
<1> QED
  BY <1>4, <1>5, <1>6, <1>7, <1>8, <1>9, <1>10 DEF Next

\* The watchdog yields to the user: no run is continued behind an abort, an
\* archive, a restore or a prompt.
THEOREM WatchdogYieldsToUser == Spec => AutoContinueYields
<1>1. IInv /\ [Next]_vars => [continued' > continued => ~acted /\ ~archived]_vars
  BY ContinueYields
<1> QED BY <1>1, Invariance, PTL DEF Spec, AutoContinueYields

-----------------------------------------------------------------------------
(* The session implements SerialRuns.                                      *)

\* A fresh session has no run and no verdict.
LEMMA SerialInit == Init => Serial!Init
  BY DEF Init, Serial!Init

\* A verdict is a decision of the abstract run.
LEMMA VerdictDecides ==
  ASSUME IInv, ~deleted, status = "running", NEW v \in Serial!Verdicts, Verdict(v)
  PROVE  current \in Runs /\ Serial!Decide(current)
<1>1. current \in Runs /\ outcome[current] = "none"
  BY DEF IInv, TypeOK, RecordFollowsRun
<1>2. outcome' = [outcome EXCEPT ![current] = v]
  BY DEF Verdict
<1> QED BY <1>1, <1>2 DEF Serial!Decide

\* A step that leaves the run under way decides it at most.
LEMMA DecidesOrStutters ==
  ASSUME IInv, ~deleted, UNCHANGED current, NEW v \in Serial!Verdicts,
         (status = "running" /\ Verdict(v)) \/ UNCHANGED outcome
  PROVE  [Serial!Next]_<<current, outcome>>
<1>1. CASE status = "running" /\ Verdict(v)
  BY <1>1, VerdictDecides DEF Serial!Next
<1>2. CASE UNCHANGED outcome
  BY <1>2
<1> QED BY <1>1, <1>2

\* A run begins where none is under way.
LEMMA BeginStarts ==
  ASSUME NEW r \in Runs, Begin(r), UNCHANGED outcome
  PROVE  [Serial!Next]_<<current, outcome>>
  BY DEF Begin, Serial!Next, Serial!Start

\* A run that settles ends with the verdict it has, or gets one by that.
LEMMA SettleEnds ==
  ASSUME IInv, NEW v \in {"completed", "failed"}, Settle(v)
  PROVE  [Serial!Next]_<<current, outcome>>
<1>1. current \in Runs /\ current' = NoRun
  BY DEF Settle, IInv, TypeOK
<1>2. CASE owned /\ status = "running"
  <2>1. ~deleted /\ Verdict(v)
    BY <1>2 DEF Settle, Settled, DecideRunning, IInv, RecordFollowsRun
  <2>2. Serial!Decide(current)
    BY <1>2, <2>1, VerdictDecides DEF Serial!Verdicts
  <2> QED BY <1>1, <2>2 DEF Serial!Next, Serial!End, Serial!Decide
<1>3. CASE ~(owned /\ status = "running")
  <2>1. outcome[current] # "none"
    BY <1>1, <1>3, RunAssumption DEF IInv, RecordFollowsRun
  <2>2. UNCHANGED outcome
    BY <1>3 DEF Settle, Settled, DecideRunning
  <2> QED BY <1>1, <2>1, <2>2 DEF Serial!Next, Serial!End
<1> QED BY <1>2, <1>3

\* Every step of a session is a step of SerialRuns or none.
LEMMA SerialNext == IInv /\ [Next]_vars => [Serial!Next]_<<current, outcome>>
<1> SUFFICES ASSUME IInv, [Next]_vars PROVE [Serial!Next]_<<current, outcome>>
  OBVIOUS
<1>0. "aborted" \in Serial!Verdicts /\ "withdrawn" \in Serial!Verdicts
  BY DEF Serial!Verdicts
<1>1. ASSUME NEW r \in Runs, Run(r) PROVE [Serial!Next]_<<current, outcome>>
  BY <1>1, BeginStarts DEF Run
<1>2. CASE autoContinue
  BY <1>2, BeginStarts DEF autoContinue, control, history
<1>3. ASSUME NEW v \in {"completed", "failed"}, Settle(v)
      PROVE  [Serial!Next]_<<current, outcome>>
  BY <1>3, SettleEnds
<1>4. ASSUME NEW b \in BOOLEAN, onAbort(b) PROVE [Serial!Next]_<<current, outcome>>
  <2>1. ~deleted
    BY <1>4 DEF onAbort, IInv, RecordFollowsRun
  <2> QED BY <1>0, <1>4, <2>1, DecidesOrStutters DEF onAbort, DecideRunning
<1>5. CASE abort
  BY <1>0, <1>5, DecidesOrStutters DEF abort, DecideRunning
<1>6. CASE archiveSession
  BY <1>0, <1>6, DecidesOrStutters DEF archiveSession
<1>7. CASE unarchiveSession \/ deleteSession
  BY <1>0, <1>7, DecidesOrStutters DEF unarchiveSession, deleteSession, Withdraw
<1>8. ASSUME NEW q \in Requests,
             \/ requestApproval(q) \/ approvalTimeout(q)
             \/ \E d \in {"approved", "denied"} : answerIntervention(q, d)
      PROVE  [Serial!Next]_<<current, outcome>>
  BY <1>8 DEF requestApproval, approvalTimeout, answerIntervention, control, history
<1>9. CASE recordTurnComplete \/ recordToolResult \/ decideContinue \/ UNCHANGED vars
  BY <1>9 DEF recordTurnComplete, recordToolResult, decideContinue, vars, control, history
<1> QED
  BY <1>1, <1>2, <1>3, <1>4, <1>5, <1>6, <1>7, <1>8, <1>9 DEF Next

\* A session takes its runs one at a time and gives each one verdict.
THEOREM SerialRefined == Spec => ImplementsSerialRuns
  BY SerialInit, SerialNext, Invariance, PTL DEF Spec, Serial!Spec, ImplementsSerialRuns
=============================================================================
