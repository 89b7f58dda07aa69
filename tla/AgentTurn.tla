----------------------------- MODULE AgentTurn -----------------------------
(***************************************************************************)
(* The loop of an agent session: TurnOrchestrator.execute                  *)
(* (src/agent/turn-orchestrator.ts), the batches of tool calls it starts   *)
(* (executeBatch, src/agent/tool-execution.ts; executeToolUse,             *)
(* src/agent/tool-pipeline.ts) and the message list both write.            *)
(*                                                                         *)
(* An abort frees the loop at once, or after the drain's grace period,     *)
(* while the batch may go on: its results then come during a later run.    *)
(* So each run keeps its batch, and the loop is that of the current run.   *)
(* A tool is a box that ends, fails, times out or hangs.                   *)
(***************************************************************************)
EXTENDS ToolHistory

CONSTANTS
  Tools,
  Safe,            \* isConcurrencySafe
  Mutating,        \* MUTATING_TOOLS
  Asking,          \* the tools whose calls need an approval
  Batches,         \* the sequences of tools the model may ask for in a turn
  MaxRuns,         \* BOUND: prompts of the user
  MaxTurns,        \* maxTurns, as each run finds it: iterations of its loop
  MaxRuleRetries   \* MAX_RULE_RETRIES

ASSUME AgentTurnAssumption ==
  /\ Safe \subseteq Tools /\ Mutating \subseteq Tools /\ Asking \subseteq Tools
  /\ Safe \cap Mutating = {}
  /\ Batches \subseteq Seq(Tools) \ {<<>>}
  /\ MaxRuns \in Nat \ {0} /\ MaxTurns \in [1..MaxRuns -> Nat \ {0}]
  /\ MaxRuleRetries \in Nat

VARIABLES
  run,        \* the run that is or was last in progress, 0 before the first
  phase,      \* where its loop is
  turn,       \* its iteration
  responded,  \* assistantResponded
  rule,       \* each run's ruleTriggerCounts, for the one stream rule
  aborted,    \* the runs whose signal has fired
  stopped,    \* the runs that ended by an abort or an error
  history,    \* state.oaiMessages
  sent,       \* the messages of the last request
  guidance,   \* whether the steer buffer holds guidance
  batch,      \* each run's last batch
  asked,      \* how often a checkpoint was asked of git for each run
  abandoned   \* the runs that ended before their batch

loop == <<run, phase, turn, responded, rule, aborted, stopped>>
vars == <<loop, history, sent, guidance, batch, asked, abandoned>>

Runs == 1..MaxRuns
Phases == {"idle", "init", "top", "stream", "steered", "tools", "drain"}
Steps == {"waiting", "asking", "checkpoint", "running", "answered"}

NoBatch == [tools |-> <<>>, turn |-> 0, begun |-> 0, step |-> <<>>,
            checkpoint |-> FALSE, stage |-> "done"]

Id(r, t, i) == <<r, t, i>>
Ids(r, t, tools) == [i \in DOMAIN tools |-> Id(r, t, i)]

Init ==
  /\ run = 0 /\ phase = "idle" /\ turn = 0
  /\ responded = FALSE /\ rule = [r \in Runs |-> 0] /\ aborted = {} /\ stopped = {}
  /\ history = <<>> /\ sent = <<>> /\ guidance = FALSE
  /\ batch = [r \in Runs |-> NoBatch]
  /\ asked = [r \in Runs |-> 0]
  /\ abandoned = {}

-----------------------------------------------------------------------------
(***************************************************************************)
(* The user.                                                               *)
(***************************************************************************)
\* SessionManager.run and AgentLoop.run: never two at once.
StartRun ==
  /\ phase = "idle" /\ run < MaxRuns
  /\ run' = run + 1 /\ phase' = "init" /\ turn' = 0
  /\ responded' = FALSE /\ guidance' = FALSE
  /\ UNCHANGED <<rule, aborted, stopped, history, sent, batch, asked, abandoned>>

Steer ==
  /\ phase # "idle"
  /\ guidance' = TRUE
  /\ UNCHANGED <<loop, history, sent, batch, asked, abandoned>>

Abort ==
  /\ phase # "idle"
  /\ aborted' = aborted \cup {run}
  /\ UNCHANGED <<run, phase, turn, responded, rule, stopped, history, sent, guidance,
                 batch, asked, abandoned>>

-----------------------------------------------------------------------------
(***************************************************************************)
(* The loop outside its batches.                                           *)
(***************************************************************************)
\* initializeRun is not raced against the signal.
AddPrompt ==
  /\ phase = "init"
  /\ phase' = "top"
  /\ history' = Append(history, Prompt(run))
  /\ UNCHANGED <<run, turn, responded, rule, aborted, stopped, sent, guidance, batch,
                 asked, abandoned>>

\* removeLastMessage: it throws when the top is no user message, out of the
\* catch block too, and the list stays as it is.
WithoutPrompt(h) ==
  IF h # <<>> /\ Last(h).role = "user" THEN Front(h) ELSE h

\* Mutant: nothing is taken back.
RolledBack_Never(h) == h

RolledBack(h) == IF responded THEN h ELSE WithoutPrompt(h)

EndRun == phase' = "idle" /\ UNCHANGED <<run, turn, responded, rule, aborted>>

\* A run that is aborted or fails does not end by itself.
StopRun == EndRun /\ stopped' = stopped \cup {run}

\* At the top of the loop, in a step that is raced against the signal, after
\* the stream, or in the catch block.
Stop ==
  /\ phase \in {"stream", "steered"} \/ (phase = "top" /\ turn < MaxTurns[run])
  /\ run \in aborted
  /\ StopRun
  /\ history' = RolledBack(history)
  /\ UNCHANGED <<sent, guidance, batch, asked, abandoned>>

\* maxTurns exhausted
Exhaust ==
  /\ phase = "top" /\ turn = MaxTurns[run]
  /\ EndRun /\ UNCHANGED stopped
  /\ UNCHANGED <<history, sent, guidance, batch, asked, abandoned>>

\* Mutants: one iteration too many; a repair that is not written back.
Request_OneMore ==
  /\ phase = "top" /\ turn <= MaxTurns[run] /\ run \notin aborted
  /\ phase' = "stream"
  /\ sent' = Preflight(history)
  /\ history' = IF NeedsSynthetic(history) THEN sent' ELSE history
  /\ UNCHANGED <<run, turn, responded, rule, aborted, stopped, guidance, batch,
                 asked, abandoned>>

Request_Transient ==
  /\ phase = "top" /\ turn < MaxTurns[run] /\ run \notin aborted
  /\ phase' = "stream"
  /\ sent' = Preflight(history)
  /\ UNCHANGED <<run, turn, responded, rule, aborted, stopped, history, guidance, batch,
                 asked, abandoned>>

\* buildOaiRequest; onOrphanRepair writes the repair back, but only one that
\* had to invent an answer.
Request ==
  /\ phase = "top" /\ turn < MaxTurns[run] /\ run \notin aborted
  /\ phase' = "stream"
  /\ sent' = Preflight(history)
  /\ history' = IF NeedsSynthetic(history) THEN sent' ELSE history
  /\ UNCHANGED <<run, turn, responded, rule, aborted, stopped, guidance, batch,
                 asked, abandoned>>

\* A rule of the stream fired: remind once, try again, disable it after the
\* last retry.
RuleFires ==
  /\ phase = "stream" /\ rule[run] <= MaxRuleRetries
  /\ phase' = "top" /\ turn' = turn + 1 /\ rule' = [rule EXCEPT ![run] = @ + 1]
  /\ history' = IF rule[run] = 0 /\ MaxRuleRetries > 0
                THEN Append(history, Reminder(run)) ELSE history
  /\ UNCHANGED <<run, responded, aborted, stopped, sent, guidance, batch,
                 asked, abandoned>>

\* appendSystemReminder: behind a user's message it becomes part of that message.
Reminded(h, r, guided) ==
  IF h # <<>> /\ Last(h).role = "user"
  THEN Append(Front(h), [Last(h) EXCEPT !.guided = @ \/ guided])
  ELSE Append(h, [Reminder(r) EXCEPT !.guided = guided])

(* No tool is called, or nothing came at all: without a block there is no
   message and no response.  The run goes on after a thinking retry, which
   comes before the guidance is looked at, or for a goal or an announced
   action, which come after it; or it takes the guidance; or it is over. *)
Reply ==
  /\ phase = "stream" /\ run \notin aborted
  /\ \E replied \in {history, Append(history, Assistant(run, <<>>))} :
       /\ responded' = (responded \/ replied # history)
       /\ \/ /\ guidance /\ guidance' = FALSE
             /\ phase' = "steered" /\ history' = replied /\ UNCHANGED turn
          \/ /\ phase' = "top" /\ turn' = turn + 1
             /\ history' = Reminded(replied, run, FALSE) /\ UNCHANGED guidance
          \/ /\ ~guidance
             /\ phase' = "idle" /\ history' = replied /\ UNCHANGED <<turn, guidance>>
  /\ UNCHANGED <<run, rule, aborted, stopped, sent, batch, asked, abandoned>>

\* The turn is complete: now the guidance becomes a message.
HandOver ==
  /\ phase = "steered" /\ run \notin aborted
  /\ phase' = "top" /\ turn' = turn + 1
  /\ history' = Reminded(history, run, TRUE)
  /\ UNCHANGED <<run, responded, rule, aborted, stopped, sent, guidance, batch,
                 asked, abandoned>>

\* The blocks that came before the error are kept, their calls never run.
StreamFails ==
  /\ phase = "stream" /\ run \notin aborted
  /\ \/ \E tools \in Batches \cup {<<>>} :
          /\ history' = Append(history, Assistant(run, Ids(run, turn, tools)))
          /\ responded' = TRUE
     \/ history' = RolledBack(history) /\ UNCHANGED responded
  /\ phase' = "idle" /\ stopped' = stopped \cup {run}
  /\ UNCHANGED <<run, turn, rule, aborted, sent, guidance, batch,
                 asked, abandoned>>

-----------------------------------------------------------------------------
(***************************************************************************)
(* The loop around a batch.                                                *)
(***************************************************************************)
\* Mutant: the flag is the turn's, as its name says.
HasBaseline_Turn(r) == FALSE

\* checkpointCreatedThisTurn is the run's, in spite of its name.
HasBaseline(r) == batch[r].checkpoint

CallTools ==
  /\ phase = "stream" /\ run \notin aborted
  /\ \E tools \in Batches :
       /\ history' = Append(history, Assistant(run, Ids(run, turn, tools)))
       /\ batch' = [batch EXCEPT ![run] =
            [tools |-> tools, turn |-> turn, begun |-> 0,
             step |-> [i \in DOMAIN tools |-> "waiting"],
             checkpoint |-> HasBaseline(run), stage |-> "running"]]
  /\ responded' = TRUE /\ phase' = "tools"
  /\ UNCHANGED <<run, turn, rule, aborted, stopped, sent, guidance,
                 asked, abandoned>>

\* The loop goes on, or ends the run: endTurn, the wedged-loop guard.
Continue ==
  /\ phase = "tools" /\ batch[run].stage = "done" /\ run \notin aborted
  /\ \/ /\ phase' = "top" /\ turn' = turn + 1
        /\ UNCHANGED <<run, responded, rule, aborted, stopped>>
     \/ EndRun /\ UNCHANGED stopped
  /\ UNCHANGED <<history, sent, guidance, batch, asked, abandoned>>

\* rejectOnAbort
StopWaiting ==
  /\ phase = "tools" /\ run \in aborted
  /\ phase' = "drain"
  /\ UNCHANGED <<run, turn, responded, rule, aborted, stopped, history, sent, guidance,
                 batch, asked, abandoned>>

Drained ==
  /\ phase = "drain" /\ batch[run].stage = "done"
  /\ StopRun
  /\ history' = RolledBack(history)
  /\ UNCHANGED <<sent, guidance, batch, asked, abandoned>>

\* Mutant: the drain waits for the results without a bound.
DrainExpires_AfterResults ==
  /\ phase = "drain" /\ batch[run].stage = "hooks"
  /\ StopRun
  /\ history' = RolledBack(history)
  /\ abandoned' = abandoned \cup {run}
  /\ UNCHANGED <<sent, guidance, batch, asked>>

\* TOOL_ABORT_DRAIN_MS
DrainExpires ==
  /\ phase = "drain" /\ batch[run].stage # "done"
  /\ StopRun
  /\ history' = RolledBack(history)
  /\ abandoned' = abandoned \cup {run}
  /\ UNCHANGED <<sent, guidance, batch, asked>>

-----------------------------------------------------------------------------
(***************************************************************************)
(* A batch: contiguous calls of safe tools run side by side, the others    *)
(* alone; executeBatch looks at the signal between these groups only, and  *)
(* executeToolUse never does before it has called the tool.                *)
(***************************************************************************)
Tool(r, i) == batch[r].tools[i]
Step(r, i) == batch[r].step[i]

IsGroup(tools, first, last) ==
  \/ first = last /\ tools[first] \notin Safe
  \/ /\ \A i \in first..last : tools[i] \in Safe
     /\ last < Len(tools) => tools[last + 1] \notin Safe

BetweenGroups(r) ==
  batch[r].stage = "running" /\ \A i \in 1..batch[r].begun : Step(r, i) = "answered"

\* The first mutating call of the run waits for a checkpoint before it runs.
Admitted(r, i) ==
  IF Tool(r, i) \in Mutating /\ ~batch[r].checkpoint THEN "checkpoint" ELSE "running"

\* Before any await: one of the gates refuses the call, or it needs an
\* approval, or nothing more.
Gated(r, i) ==
  {"answered", IF Tool(r, i) \in Asking THEN "asking" ELSE Admitted(r, i)}

BeginGroup(r) ==
  /\ BetweenGroups(r) /\ r \notin aborted
  /\ \E last \in (batch[r].begun + 1)..Len(batch[r].tools) :
       LET group == (batch[r].begun + 1)..last IN
       /\ IsGroup(batch[r].tools, batch[r].begun + 1, last)
       /\ \E gate \in [group -> Steps] :
            /\ \A i \in group : gate[i] \in Gated(r, i)
            /\ batch' = [batch EXCEPT
                 ![r].begun = last,
                 ![r].step = [i \in DOMAIN @ |-> IF i \in group THEN gate[i] ELSE @[i]]]
  /\ UNCHANGED <<loop, history, sent, guidance, asked, abandoned>>

Advance(r, i, from, to) ==
  /\ i <= batch[r].begun /\ Step(r, i) = from
  /\ batch' = [batch EXCEPT ![r].step[i] = to]
  /\ UNCHANGED <<loop, history, sent, guidance, asked, abandoned>>

\* An abort denies what is pending, and what is asked for afterwards.
Decide(r, i) ==
  \/ r \notin aborted /\ Advance(r, i, "asking", Admitted(r, i))
  \/ Advance(r, i, "asking", "answered")

\* createCheckpoint returns null when git fails, is too slow, or there is no
\* repository.  The flag is set and the tool called all the same, whatever has
\* happened to the signal.
EndCheckpoint(r, i) ==
  /\ i <= batch[r].begun /\ Step(r, i) = "checkpoint"
  /\ asked' = [asked EXCEPT ![r] = @ + 1]
  /\ batch' = [batch EXCEPT ![r].checkpoint = TRUE, ![r].step[i] = "running"]
  /\ UNCHANGED <<loop, history, sent, guidance, abandoned>>

\* The tool has ended or failed, its time is over, or the signal has fired.
Answer(r, i) == Advance(r, i, "running", "answered")

RunCall(r) ==
  \E i \in 1..Len(batch[r].tools) :
    Decide(r, i) \/ EndCheckpoint(r, i) \/ Answer(r, i)

(***************************************************************************)
(* The calls are over, or the signal has ended the batch between two       *)
(* groups: attach the guidance to the last result, if the session still    *)
(* takes part in the run, answer the calls that never began, and append    *)
(* all results.  The post-tool hooks follow.                               *)
(***************************************************************************)
\* Mutant: any batch takes the guidance.
Listens_Always(r) == TRUE

Listens(r) == r = run /\ r \notin aborted
Drains(r) == guidance /\ batch[r].begun > 0 /\ Listens(r)

Results(r) ==
  [i \in DOMAIN batch[r].tools |->
    ToolResult(Id(r, batch[r].turn, i),
               IF i <= batch[r].begun THEN "result" ELSE "backfill",
               i = batch[r].begun /\ Drains(r))]

AddToolResults(r) ==
  /\ BetweenGroups(r)
  /\ batch[r].begun = Len(batch[r].tools) \/ r \in aborted
  /\ history' = history \o Results(r)
  /\ guidance' = (guidance /\ ~Drains(r))
  /\ batch' = [batch EXCEPT ![r].stage = "hooks"]
  /\ UNCHANGED <<loop, sent, asked, abandoned>>

EndBatch(r) ==
  /\ batch[r].stage = "hooks"
  /\ batch' = [batch EXCEPT ![r].stage = "done"]
  /\ UNCHANGED <<loop, history, sent, guidance, asked, abandoned>>

-----------------------------------------------------------------------------
Loop ==
  \/ AddPrompt \/ Stop \/ Exhaust \/ Request \/ RuleFires \/ Reply \/ HandOver
  \/ StreamFails \/ CallTools \/ Continue \/ StopWaiting \/ Drained \/ DrainExpires

RunBatch(r) == BeginGroup(r) \/ RunCall(r) \/ AddToolResults(r) \/ EndBatch(r)

Next == StartRun \/ Steer \/ Abort \/ Loop \/ \E r \in Runs : RunBatch(r)

Spec == Init /\ [][Next]_vars

\* The loop's own steps and its timer come, one at a time; nothing is assumed
\* of the tools, the approvals, git, the hooks and the model.
GoOn == AddPrompt \/ Stop \/ Exhaust \/ StopWaiting \/ Drained \/ DrainExpires

FairSpec == Spec /\ WF_vars(GoOn)

-----------------------------------------------------------------------------
Message_Type ==
  [role : {"user", "assistant", "tool"}, from : 0..MaxRuns,
   calls : Seq(Runs \X Nat \X Nat), id : {<<>>} \cup (Runs \X Nat \X Nat),
   kind : {"none", "reminder", "result", "backfill", "synthetic"}, guided : BOOLEAN]

BatchStates ==
  [tools : {<<>>} \cup Batches, turn : Nat, begun : Nat, step : Seq(Steps),
   checkpoint : BOOLEAN, stage : {"running", "hooks", "done"}]

TypeOK ==
  /\ run \in 0..MaxRuns /\ phase \in Phases /\ turn \in Nat
  /\ run # 0 => turn <= MaxTurns[run]
  /\ responded \in BOOLEAN /\ rule \in [Runs -> 0..(MaxRuleRetries + 1)]
  /\ aborted \subseteq Runs /\ abandoned \subseteq aborted /\ stopped \subseteq Runs
  /\ history \in Seq(Message_Type) /\ sent \in Seq(Message_Type)
  /\ guidance \in BOOLEAN
  /\ batch \in [Runs -> BatchStates]
  /\ \A r \in Runs :
       /\ batch[r].turn <= MaxTurns[r] /\ batch[r].begun <= Len(batch[r].tools)
       /\ batch[r].step \in [DOMAIN batch[r].tools -> Steps]
  /\ asked \in [Runs -> Nat]

(***************************************************************************)
(* Every request is one a provider takes, whatever batches were abandoned, *)
(* failed streams left behind or came late; and what the model was told    *)
(* about a call it is told again: the repair is written back, so that a    *)
(* late result does not replace an answer invented before it came          *)
(* (engine.ts:329-338).                                                    *)
(***************************************************************************)
SameAnswers(told, telling) ==
  \A i \in DOMAIN told : told[i].role = "tool" =>
    /\ IsAnswered(telling, told[i].id)
    /\ FirstAnswer(telling, told[i].id).kind = told[i].kind

RequestsAgree ==
  [][sent' # sent => IsClean(sent') /\ SameAnswers(sent, sent')]_sent

(***************************************************************************)
(* A mutating tool is called only after git was asked for the checkpoint   *)
(* of its run, whatever it answered; no run asks twice (a second           *)
(* checkpoint would take its writes for what was there before); and no     *)
(* other call of the batch is under way (tool-pipeline.ts:1133-1143,       *)
(* tool-execution.ts:323-357).                                             *)
(***************************************************************************)
Writing(r, i) == Step(r, i) = "running" /\ Tool(r, i) \in Mutating

WritesAreCovered ==
  \A r \in Runs : \A i \in DOMAIN batch[r].tools : Writing(r, i) =>
    /\ asked[r] = 1
    /\ \A j \in 1..batch[r].begun : j # i => Step(r, j) = "answered"

(***************************************************************************)
(* An aborted or failed run without a response takes its prompt back       *)
(* (turn-orchestrator.ts:367-370), with what was appended to it, except    *)
(* where removeLastMessage does not find it on top: a rule's reminder lies *)
(* there, or a result of a batch that an earlier run abandoned.  A run     *)
(* that ends by itself, after empty replies, keeps it.                     *)
(***************************************************************************)
IsPrompt(m, r) == m.role = "user" /\ m.from = r /\ m.kind = "none"
HasPrompt(r) == \E m \in ToSet(history) : IsPrompt(m, r)
IsAnsweredPrompt(r) == \E m \in ToSet(history) : m.role = "assistant" /\ m.from = r
IsCovered(r) == rule[r] > 0 \/ abandoned \cap 1..(r - 1) # {}

PromptsAreTakenBack ==
  \A r \in stopped : HasPrompt(r) => IsAnsweredPrompt(r) \/ IsCovered(r)

(***************************************************************************)
(* Guidance leaves the buffer with a result of the running batch that the  *)
(* next request still tells the model, after a reply without tools, or     *)
(* when the next run begins; a batch that an earlier run abandoned never   *)
(* takes it.  After a reply it is the next message, unless the run is      *)
(* aborted while its turn completes: that guidance is lost                 *)
(* (tool-execution.ts:500-512, turn-orchestrator.ts:1095-1105,             *)
(* session-manager.ts:3129).                                               *)
(***************************************************************************)
GuidanceArrives ==
  [][/\ guidance /\ ~guidance' =>
          \/ run' # run \/ phase' = "steered"
          \/ \E m \in ToSet(Preflight(history')) :
               m.guided /\ m.role = "tool" /\ m.id[1] = run
               /\ ~IsAnswered(history, m.id)
     /\ phase = "steered" /\ phase' # "steered" =>
          run \in aborted \/ Last(history').guided]_vars

(***************************************************************************)
(* An abort frees the session, whatever a tool, an approval, git or a hook *)
(* does (turn-orchestrator.ts:808-813).                                    *)
(***************************************************************************)
AbortFreesSession == (phase # "idle" /\ run \in aborted) ~> phase = "idle"
=============================================================================
