--------------------------- MODULE AgentTurnProofs ---------------------------
(***************************************************************************)
(* What AgentTurn promises, for any tools, batches and bounds: its types,  *)
(* which calls run (WritesCovered), what requests say (RequestsStayTrue),  *)
(* and where guidance and prompts end up (GuidanceIsKept,                  *)
(* PromptsTakenBack).                                                      *)
(*                                                                         *)
(* WritesInv says of each batch how its calls overlap (OneAtATime), what a *)
(* call that waits for its checkpoint or has passed it knows of the run's  *)
(* flag (FlagIsKept), and that the flag counts how often git was asked     *)
(* (FlagCounts).  The flag is read when a call is admitted and set when    *)
(* git has answered: only because no other call is under way then can no   *)
(* second call have read it in between.                                    *)
(***************************************************************************)
EXTENDS AgentTurn, ToolHistoryProofs, TLAPS

BatchRecords ==
  [tools : Seq(Tools), turn : Nat, begun : Nat, step : Seq(Steps),
   checkpoint : BOOLEAN, stage : {"running", "hooks", "done"}]

BatchType ==
  /\ run \in 0..MaxRuns
  /\ asked \in [Runs -> Nat]
  /\ batch \in [Runs -> BatchRecords]
  /\ turn \in Nat
  /\ \A r \in Runs : batch[r].step \in [1..Len(batch[r].tools) -> Steps]

OneAtATime ==
  \A r \in Runs : \A i \in 1..Len(batch[r].tools) :
    /\ i > batch[r].begun => Step(r, i) = "waiting"
    /\ Tool(r, i) \in Mutating /\ Step(r, i) \notin {"waiting", "answered"} =>
         \A j \in 1..batch[r].begun : j # i => Step(r, j) = "answered"

FlagIsKept ==
  \A r \in Runs : \A i \in 1..Len(batch[r].tools) :
    /\ Step(r, i) = "checkpoint" => Tool(r, i) \in Mutating /\ ~batch[r].checkpoint
    /\ Step(r, i) = "running" /\ Tool(r, i) \in Mutating => batch[r].checkpoint

FlagCounts ==
  \A r \in Runs : asked[r] = IF batch[r].checkpoint THEN 1 ELSE 0

WritesInv == BatchType /\ OneAtATime /\ FlagIsKept /\ FlagCounts

-----------------------------------------------------------------------------
\* Before the first run there is no batch.
LEMMA InitInv == Init => WritesInv
<1> SUFFICES ASSUME Init PROVE WritesInv
  OBVIOUS
<1>1. BatchType
  <2>1. NoBatch \in BatchRecords
    BY DEF NoBatch, BatchRecords
  <2>2. NoBatch.step \in [1..Len(NoBatch.tools) -> Steps]
    BY DEF NoBatch
  <2>3. run \in 0..MaxRuns /\ asked \in [Runs -> Nat] /\ turn \in Nat
    BY AgentTurnAssumption DEF Init
  <2>4. batch = [r \in Runs |-> NoBatch]
    BY DEF Init
  <2> QED BY <2>1, <2>2, <2>3, <2>4 DEF BatchType
<1>2. OneAtATime /\ FlagIsKept
  BY DEF Init, OneAtATime, FlagIsKept, NoBatch
<1>3. FlagCounts
  BY DEF Init, FlagCounts, NoBatch
<1> QED BY <1>1, <1>2, <1>3 DEF WritesInv

\* What leaves the batches and the checkpoints alone keeps the invariant.
LEMMA BatchesAlone ==
  ASSUME WritesInv, UNCHANGED <<batch, asked>>, run' \in 0..MaxRuns, turn' \in Nat
  PROVE  WritesInv'
<1>1. BatchType'
  BY DEF WritesInv, BatchType
<1>2. OneAtATime' /\ FlagIsKept' /\ FlagCounts'
  BY DEF WritesInv, OneAtATime, FlagIsKept, FlagCounts, Step, Tool
<1> QED BY <1>1, <1>2 DEF WritesInv

\* The steps of the user, and those of the loop outside its batches.
LEMMA LoopAlone ==
  ASSUME WritesInv,
         StartRun \/ Steer \/ Abort \/ AddPrompt \/ Stop \/ Exhaust \/ Request \/ RuleFires
           \/ Reply \/ HandOver \/ StreamFails \/ Continue \/ StopWaiting \/ Drained
           \/ DrainExpires
  PROVE  WritesInv'
<1>1. UNCHANGED <<batch, asked>>
  BY DEF StartRun, Steer, Abort, AddPrompt, Stop, Exhaust, Request, RuleFires, Reply, HandOver,
         StreamFails, Continue, StopWaiting, Drained, DrainExpires, EndRun, StopRun, loop
<1>2. run' \in 0..MaxRuns
  <2>1. CASE StartRun
    BY <2>1, AgentTurnAssumption DEF StartRun, WritesInv, BatchType
  <2>2. CASE ~StartRun
    <3>1. run' = run
      BY <2>2 DEF Steer, Abort, AddPrompt, Stop, Exhaust, Request, RuleFires, Reply, HandOver,
         StreamFails, Continue, StopWaiting, Drained, DrainExpires, EndRun, StopRun, loop
    <3> QED BY <3>1 DEF WritesInv, BatchType
  <2> QED BY <2>1, <2>2
<1>3. turn' \in Nat
  <2>1. turn' \in {0, turn, turn + 1}
    BY DEF StartRun, Steer, Abort, AddPrompt, Stop, Exhaust, Request, RuleFires, Reply, HandOver,
         StreamFails, Continue, StopWaiting, Drained, DrainExpires, EndRun, StopRun, loop
  <2> QED BY <2>1 DEF WritesInv, BatchType
<1> QED BY <1>1, <1>2, <1>3, BatchesAlone

\* A new batch waits, and takes the run's flag over.
LEMMA CallToolsKeeps == ASSUME WritesInv, CallTools PROVE WritesInv'
<1> USE DEF WritesInv
<1>1. PICK tools \in Batches :
        batch' = [batch EXCEPT ![run] =
            [tools |-> tools, turn |-> turn, begun |-> 0,
             step |-> [i \in DOMAIN tools |-> "waiting"],
             checkpoint |-> HasBaseline(run), stage |-> "running"]]
  BY DEF CallTools
<1>2. UNCHANGED <<run, turn, asked>>
  BY DEF CallTools
<1>3. CASE run \notin Runs
  <2>1. batch' = batch
    BY <1>1, <1>3 DEF BatchType
  <2> QED BY <2>1, <1>2, BatchesAlone DEF BatchType
<1>4. CASE run \in Runs
  <2> DEFINE waiting == [i \in DOMAIN tools |-> "waiting"]
  <2>1. tools \in Seq(Tools) /\ DOMAIN tools = 1..Len(tools)
    BY AgentTurnAssumption
  <2>2. waiting \in [1..Len(tools) -> Steps] /\ waiting \in Seq(Steps)
    BY <2>1 DEF Steps
  <2>3. /\ batch'[run] = [tools |-> tools, turn |-> turn, begun |-> 0, step |-> waiting,
                          checkpoint |-> batch[run].checkpoint, stage |-> "running"]
        /\ \A r \in Runs : r # run => batch'[r] = batch[r]
        /\ DOMAIN batch' = Runs
    BY <1>1, <1>4 DEF BatchType, HasBaseline
  <2>4. BatchType'
    <3>1. batch[run].checkpoint \in BOOLEAN
      BY <1>4 DEF BatchType, BatchRecords
    <3>2. batch'[run] \in BatchRecords
      BY <2>1, <2>2, <2>3, <3>1 DEF BatchType, BatchRecords
    <3>4. batch' \in [Runs -> BatchRecords]
      <4>1. \A r \in Runs : batch'[r] \in BatchRecords
        BY <2>3, <3>2 DEF BatchType
      <4>2. batch' = [r \in Runs |-> batch'[r]]
        BY <1>1 DEF BatchType
      <4> QED BY <4>1, <4>2
    <3>3. \A r \in Runs : batch'[r].step \in [1..Len(batch'[r].tools) -> Steps]
      <4>1. batch'[run].step = waiting /\ batch'[run].tools = tools
        BY <2>3
      <4>2. batch'[run].step \in [1..Len(batch'[run].tools) -> Steps]
        BY <2>2, <4>1
      <4>3. ASSUME NEW r \in Runs, r # run
            PROVE  batch'[r].step \in [1..Len(batch'[r].tools) -> Steps]
        BY <2>3, <4>3 DEF BatchType
      <4> QED BY <4>2, <4>3
    <3> QED BY <1>2, <3>3, <3>4 DEF BatchType
  <2> HIDE DEF waiting
  <2>5. OneAtATime' /\ FlagIsKept'
    <3>1. \A i \in 1..Len(tools) : waiting[i] = "waiting" BY <2>1 DEF waiting
    <3>2. ASSUME NEW r \in Runs, r # run PROVE batch'[r] = batch[r] BY <2>3, <3>2
    <3>3. batch'[run].tools = tools /\ batch'[run].step = waiting BY <2>3
    <3>4. OneAtATime' BY <3>1, <3>2, <3>3 DEF OneAtATime, Step, Tool
    <3>5. FlagIsKept' BY <3>1, <3>2, <3>3 DEF FlagIsKept, Step, Tool
    <3> QED BY <3>4, <3>5
  <2>6. FlagCounts'
    BY <1>2, <2>3 DEF FlagCounts
  <2> QED BY <2>4, <2>5, <2>6
<1> QED BY <1>3, <1>4

-----------------------------------------------------------------------------
(* A batch.  Each of its steps writes one batch; what the others know      *)
(* follows from that alone.                                                *)
OthersAlone(r) ==
  /\ batch' = [q \in Runs |-> batch'[q]]
  /\ \A q \in Runs : q # r => batch'[q] = batch[q] /\ asked'[q] = asked[q]

\* It is enough to look at the batch that moves.
LEMMA OneBatchMoves ==
  ASSUME WritesInv, NEW r \in Runs, OthersAlone(r),
         UNCHANGED <<run, turn>>, asked' \in [Runs -> Nat],
         batch'[r] \in BatchRecords, batch'[r].tools = batch[r].tools,
         batch'[r].step \in [1..Len(batch[r].tools) -> Steps],
         \A i \in 1..Len(batch[r].tools) :
           /\ i > batch'[r].begun => batch'[r].step[i] = "waiting"
           /\ Tool(r, i) \in Mutating /\ batch'[r].step[i] \notin {"waiting", "answered"} =>
                \A j \in 1..batch'[r].begun : j # i => batch'[r].step[j] = "answered"
           /\ batch'[r].step[i] = "checkpoint" =>
                Tool(r, i) \in Mutating /\ ~batch'[r].checkpoint
           /\ batch'[r].step[i] = "running" /\ Tool(r, i) \in Mutating =>
                batch'[r].checkpoint,
         asked'[r] = IF batch'[r].checkpoint THEN 1 ELSE 0
  PROVE  WritesInv'
<1> USE DEF WritesInv, OthersAlone
<1>1. BatchType'
  <2>1. batch' \in [Runs -> BatchRecords]
    <3>1. \A q \in Runs : batch'[q] \in BatchRecords
      BY DEF BatchType
    <3> QED BY <3>1
  <2>2. \A q \in Runs : batch'[q].step \in [1..Len(batch'[q].tools) -> Steps]
    BY DEF BatchType
  <2> QED BY <2>1, <2>2 DEF BatchType
<1>2. ASSUME NEW q \in Runs, NEW i \in 1..Len(batch'[q].tools)
      PROVE  /\ i > batch'[q].begun => batch'[q].step[i] = "waiting"
             /\ batch'[q].tools[i] \in Mutating
                  /\ batch'[q].step[i] \notin {"waiting", "answered"} =>
                \A j \in 1..batch'[q].begun : j # i => batch'[q].step[j] = "answered"
             /\ batch'[q].step[i] = "checkpoint" =>
                  batch'[q].tools[i] \in Mutating /\ ~batch'[q].checkpoint
             /\ batch'[q].step[i] = "running" /\ batch'[q].tools[i] \in Mutating =>
                  batch'[q].checkpoint
  <2>1. CASE q = r
    BY <1>2, <2>1 DEF Tool
  <2>2. CASE q # r
    <3>1. batch'[q] = batch[q]
      BY <2>2
    <3> QED BY <1>2, <3>1 DEF OneAtATime, FlagIsKept, Step, Tool
  <2> QED BY <2>1, <2>2
<1>3. OneAtATime' /\ FlagIsKept'
  BY <1>2 DEF OneAtATime, FlagIsKept, Step, Tool
<1>4. FlagCounts'
  BY DEF FlagCounts
<1> QED BY <1>1, <1>3, <1>4

\* A group of safe calls holds none that writes; any other call is alone.
LEMMA BeginGroupKeeps ==
  ASSUME WritesInv, NEW r \in Runs, BeginGroup(r)
  PROVE  WritesInv'
<1> USE DEF WritesInv
<1> DEFINE b == batch[r]
<1>1. PICK last \in (b.begun + 1)..Len(b.tools) :
        /\ IsGroup(b.tools, b.begun + 1, last)
        /\ \E gate \in [(b.begun + 1)..last -> Steps] :
             /\ \A i \in (b.begun + 1)..last : gate[i] \in Gated(r, i)
             /\ batch' = [batch EXCEPT
                  ![r].begun = last,
                  ![r].step = [i \in DOMAIN @ |->
                                 IF i \in (b.begun + 1)..last THEN gate[i] ELSE @[i]]]
  BY DEF BeginGroup
<1>2. PICK gate \in [(b.begun + 1)..last -> Steps] :
        /\ \A i \in (b.begun + 1)..last : gate[i] \in Gated(r, i)
        /\ batch' = [batch EXCEPT
             ![r].begun = last,
             ![r].step = [i \in DOMAIN @ |->
                            IF i \in (b.begun + 1)..last THEN gate[i] ELSE @[i]]]
  BY <1>1
<1>3. UNCHANGED <<run, turn, asked>>
  BY DEF BeginGroup, loop
<1>4. /\ b \in BatchRecords /\ b.begun \in Nat /\ Len(b.tools) \in Nat
      /\ b.step \in [1..Len(b.tools) -> Steps]
  BY DEF BatchType, BatchRecords
<1> DEFINE stepped == [i \in 1..Len(b.tools) |->
                         IF i \in (b.begun + 1)..last THEN gate[i] ELSE b.step[i]]
<1>5. /\ OthersAlone(r)
      /\ batch'[r] = [b EXCEPT !.begun = last, !.step = stepped]
  BY <1>2, <1>3, <1>4 DEF BatchType, OthersAlone
<1>6. stepped \in [1..Len(b.tools) -> Steps] /\ stepped \in Seq(Steps)
  BY <1>2, <1>4
<1>7. batch'[r] \in BatchRecords
  <2>1. last \in Nat
    BY <1>4
  <2> QED BY <1>4, <1>5, <1>6, <2>1 DEF BatchRecords
<1>8. /\ batch'[r].tools = b.tools /\ batch'[r].step = stepped /\ batch'[r].begun = last
      /\ batch'[r].checkpoint = b.checkpoint
  BY <1>4, <1>5 DEF BatchRecords
<1>9. \A j \in 1..b.begun : b.step[j] = "answered"
  BY DEF BeginGroup, BetweenGroups, Step
<1>10. ASSUME NEW i \in 1..Len(b.tools)
       PROVE  /\ i > last => stepped[i] = "waiting"
              /\ Tool(r, i) \in Mutating /\ stepped[i] \notin {"waiting", "answered"} =>
                   \A j \in 1..last : j # i => stepped[j] = "answered"
              /\ stepped[i] = "checkpoint" => Tool(r, i) \in Mutating /\ ~b.checkpoint
              /\ stepped[i] = "running" /\ Tool(r, i) \in Mutating => b.checkpoint
  <2>1. CASE i \in (b.begun + 1)..last
    <3>1. stepped[i] \in {"answered", "asking", "checkpoint", "running"}
          /\ (stepped[i] = "checkpoint" => Tool(r, i) \in Mutating /\ ~b.checkpoint)
          /\ (stepped[i] = "running" => ~(Tool(r, i) \in Mutating /\ ~b.checkpoint))
      BY <1>2, <2>1 DEF Gated, Admitted
    <3>2. ASSUME Tool(r, i) \in Mutating
          PROVE  \A j \in 1..last : j # i => stepped[j] = "answered"
      <4>1. Tool(r, i) \notin Safe
        BY <3>2, AgentTurnAssumption
      <4>2. b.begun + 1 = last
        BY <1>1, <2>1, <4>1 DEF IsGroup, Tool
      <4> QED BY <1>4, <1>9, <2>1, <4>2
    <3>3. ~(i > last)
      BY <1>4, <2>1
    <3> HIDE DEF stepped, b
    <3> QED BY <3>1, <3>2, <3>3
  <2>2. CASE i \notin (b.begun + 1)..last
    <3>1. stepped[i] = b.step[i]
      BY <2>2
    <3>2. b.step[i] \in {"waiting", "answered"}
      BY <1>4, <1>9, <1>10 DEF OneAtATime, Step
    <3>3. i > last => b.step[i] = "waiting"
      BY <1>4, <1>10 DEF OneAtATime, Step
    <3> QED BY <3>1, <3>2, <3>3
  <2> QED BY <2>1, <2>2
<1>11. asked' \in [Runs -> Nat] /\ asked'[r] = IF b.checkpoint THEN 1 ELSE 0
  BY <1>3 DEF BatchType, FlagCounts
<1> HIDE DEF b, stepped
<1> QED BY <1>3, <1>5, <1>6, <1>7, <1>8, <1>10, <1>11, OneBatchMoves DEF b

\* A call moves on that was under way; it is answered, or goes on as the flag
\* says, which no other call can be about to set.
LEMMA AdvanceKeeps ==
  ASSUME WritesInv, NEW r \in Runs, NEW i \in 1..Len(batch[r].tools),
         NEW from \in {"asking", "running"}, NEW to, Advance(r, i, from, to),
         to = "answered" \/ to = Admitted(r, i)
  PROVE  WritesInv'
<1> USE DEF WritesInv
<1> DEFINE b == batch[r]
<1>1. /\ i <= b.begun /\ b.step[i] = from
      /\ batch' = [batch EXCEPT ![r].step[i] = to]
      /\ UNCHANGED <<run, turn, asked>>
  BY DEF Advance, Step, loop
<1>2. /\ b \in BatchRecords /\ b.begun \in Nat /\ Len(b.tools) \in Nat
      /\ b.step \in [1..Len(b.tools) -> Steps]
  BY DEF BatchType, BatchRecords
<1>3. to \in {"answered", "checkpoint", "running"}
  BY DEF Admitted
<1> DEFINE stepped == [b.step EXCEPT ![i] = to]
<1>4. OthersAlone(r) /\ batch'[r] = [b EXCEPT !.step = stepped]
  BY <1>1 DEF BatchType, OthersAlone
<1>5. stepped \in [1..Len(b.tools) -> Steps] /\ stepped \in Seq(Steps)
  BY <1>2, <1>3 DEF Steps
<1>6. batch'[r] \in BatchRecords
  BY <1>2, <1>4, <1>5 DEF BatchRecords
<1>7. /\ batch'[r].tools = b.tools /\ batch'[r].step = stepped
      /\ batch'[r].begun = b.begun /\ batch'[r].checkpoint = b.checkpoint
  BY <1>2, <1>4 DEF BatchRecords
<1>8. ASSUME NEW k \in 1..Len(b.tools)
      PROVE  /\ k > b.begun => stepped[k] = "waiting"
             /\ Tool(r, k) \in Mutating /\ stepped[k] \notin {"waiting", "answered"} =>
                  \A j \in 1..b.begun : j # k => stepped[j] = "answered"
             /\ stepped[k] = "checkpoint" => Tool(r, k) \in Mutating /\ ~b.checkpoint
             /\ stepped[k] = "running" /\ Tool(r, k) \in Mutating => b.checkpoint
  <2>1. CASE k = i
    <3>1. stepped[k] = to /\ k <= b.begun
      BY <1>1, <1>2, <2>1
    <3>2. Tool(r, k) \in Mutating => \A j \in 1..b.begun : j # k => b.step[j] = "answered"
      BY <1>1, <2>1 DEF OneAtATime, Step
    <3>3. \A j \in 1..b.begun : j # k => stepped[j] = b.step[j]
      BY <1>2, <2>1 DEF OneAtATime
    <3>4. to = "checkpoint" => Tool(r, k) \in Mutating /\ ~b.checkpoint
      BY <2>1 DEF Admitted
    <3>5. to = "running" /\ Tool(r, k) \in Mutating => b.checkpoint
      BY <2>1 DEF Admitted
    <3>6. ~(k > b.begun)
      BY <1>2, <3>1
    <3> HIDE DEF stepped, b
    <3> QED BY <3>1, <3>2, <3>3, <3>4, <3>5, <3>6
  <2>2. CASE k # i
    <3>1. stepped[k] = b.step[k]
      BY <1>2, <2>2
    <3>2. /\ k > b.begun => b.step[k] = "waiting"
          /\ b.step[k] = "checkpoint" => Tool(r, k) \in Mutating /\ ~b.checkpoint
          /\ b.step[k] = "running" /\ Tool(r, k) \in Mutating => b.checkpoint
      BY <1>8 DEF OneAtATime, FlagIsKept, Step
    <3>3. Tool(r, k) \in Mutating => b.step[k] \in {"waiting", "answered"}
      <4>1. i \in 1..b.begun /\ b.step[i] # "answered"
        BY <1>1, <1>2
      <4> QED BY <1>8, <2>2, <4>1 DEF OneAtATime, Step
    <3> HIDE DEF stepped, b
    <3> QED BY <3>1, <3>2, <3>3
  <2> QED BY <2>1, <2>2
<1>9. asked' \in [Runs -> Nat] /\ asked'[r] = IF b.checkpoint THEN 1 ELSE 0
  BY <1>1 DEF BatchType, FlagCounts
<1>10. \A k \in 1..Len(batch[r].tools) :
         /\ k > batch'[r].begun => batch'[r].step[k] = "waiting"
         /\ Tool(r, k) \in Mutating /\ batch'[r].step[k] \notin {"waiting", "answered"} =>
              \A j \in 1..batch'[r].begun : j # k => batch'[r].step[j] = "answered"
         /\ batch'[r].step[k] = "checkpoint" => Tool(r, k) \in Mutating /\ ~batch'[r].checkpoint
         /\ batch'[r].step[k] = "running" /\ Tool(r, k) \in Mutating => batch'[r].checkpoint
  BY <1>7, <1>8
<1>11. batch'[r].step \in [1..Len(batch[r].tools) -> Steps]
  BY <1>5, <1>7
<1>12. asked'[r] = IF batch'[r].checkpoint THEN 1 ELSE 0
  BY <1>7, <1>9
<1> QED BY <1>1, <1>4, <1>6, <1>7, <1>9, <1>10, <1>11, <1>12, OneBatchMoves

\* The call whose checkpoint ends is the only one under way: the run had none.
LEMMA EndCheckpointKeeps ==
  ASSUME WritesInv, NEW r \in Runs, NEW i \in 1..Len(batch[r].tools), EndCheckpoint(r, i)
  PROVE  WritesInv'
<1> USE DEF WritesInv
<1> DEFINE b == batch[r]
<1>1. /\ i <= b.begun /\ b.step[i] = "checkpoint"
      /\ batch' = [batch EXCEPT ![r].checkpoint = TRUE, ![r].step[i] = "running"]
      /\ asked' = [asked EXCEPT ![r] = @ + 1]
      /\ UNCHANGED <<run, turn>>
  BY DEF EndCheckpoint, Step, loop
<1>2. /\ b \in BatchRecords /\ b.begun \in Nat /\ Len(b.tools) \in Nat
      /\ b.step \in [1..Len(b.tools) -> Steps]
  BY DEF BatchType, BatchRecords
<1> DEFINE stepped == [b.step EXCEPT ![i] = "running"]
<1>3. OthersAlone(r) /\ batch'[r] = [b EXCEPT !.checkpoint = TRUE, !.step = stepped]
  BY <1>1 DEF BatchType, OthersAlone
<1>4. stepped \in [1..Len(b.tools) -> Steps] /\ stepped \in Seq(Steps)
  BY <1>2 DEF Steps
<1>5. batch'[r] \in BatchRecords
  BY <1>2, <1>3, <1>4 DEF BatchRecords
<1>6. /\ batch'[r].tools = b.tools /\ batch'[r].step = stepped
      /\ batch'[r].begun = b.begun /\ batch'[r].checkpoint = TRUE
  BY <1>2, <1>3 DEF BatchRecords
<1>7. Tool(r, i) \in Mutating /\ ~b.checkpoint
  BY <1>1 DEF FlagIsKept, Step
<1>8. \A j \in 1..b.begun : j # i => b.step[j] = "answered"
  BY <1>1, <1>7 DEF OneAtATime, Step
<1>9. ASSUME NEW k \in 1..Len(b.tools)
      PROVE  /\ k > b.begun => stepped[k] = "waiting"
             /\ Tool(r, k) \in Mutating /\ stepped[k] \notin {"waiting", "answered"} =>
                  \A j \in 1..b.begun : j # k => stepped[j] = "answered"
             /\ stepped[k] # "checkpoint"
  <2>1. CASE k = i
    <3>1. stepped[k] = "running" /\ ~(k > b.begun)
      BY <1>1, <1>2, <2>1
    <3>2. \A j \in 1..b.begun : j # k => stepped[j] = "answered"
      BY <1>2, <1>8, <2>1 DEF OneAtATime
    <3> HIDE DEF stepped, b
    <3> QED BY <3>1, <3>2
  <2>2. CASE k # i
    <3>1. stepped[k] = b.step[k]
      BY <1>2, <2>2
    <3>2. k > b.begun => b.step[k] = "waiting"
      BY <1>9 DEF OneAtATime, Step
    <3>3. ~(k > b.begun) => b.step[k] = "answered"
      BY <1>2, <1>8, <2>2
    <3> HIDE DEF stepped, b
    <3> QED BY <3>1, <3>2, <3>3
  <2> QED BY <2>1, <2>2
<1>10. asked' \in [Runs -> Nat] /\ asked'[r] = 1
  <2>1. asked[r] = 0
    BY <1>7 DEF FlagCounts
  <2> QED BY <1>1, <2>1 DEF BatchType
<1>11. \A k \in 1..Len(batch[r].tools) :
         /\ k > batch'[r].begun => batch'[r].step[k] = "waiting"
         /\ Tool(r, k) \in Mutating /\ batch'[r].step[k] \notin {"waiting", "answered"} =>
              \A j \in 1..batch'[r].begun : j # k => batch'[r].step[j] = "answered"
         /\ batch'[r].step[k] = "checkpoint" => Tool(r, k) \in Mutating /\ ~batch'[r].checkpoint
         /\ batch'[r].step[k] = "running" /\ Tool(r, k) \in Mutating => batch'[r].checkpoint
  BY <1>6, <1>9
<1>12. batch'[r].step \in [1..Len(batch[r].tools) -> Steps]
  BY <1>4, <1>6
<1>13. asked'[r] = IF batch'[r].checkpoint THEN 1 ELSE 0
  BY <1>6, <1>10
<1> QED BY <1>1, <1>3, <1>5, <1>6, <1>10, <1>11, <1>12, <1>13, OneBatchMoves

\* The end of a batch touches its stage only.
LEMMA EndingKeeps ==
  ASSUME WritesInv, NEW r \in Runs, AddToolResults(r) \/ EndBatch(r)
  PROVE  WritesInv'
<1> USE DEF WritesInv
<1>1. PICK stage \in {"hooks", "done"} : batch' = [batch EXCEPT ![r].stage = stage]
  BY DEF AddToolResults, EndBatch
<1>2. UNCHANGED <<run, turn, asked>>
  BY DEF AddToolResults, EndBatch, loop
<1>3. batch[r] \in BatchRecords
  BY DEF BatchType
<1>4. OthersAlone(r) /\ batch'[r] = [batch[r] EXCEPT !.stage = stage]
  BY <1>1, <1>2 DEF BatchType, OthersAlone
<1>5. /\ batch'[r] \in BatchRecords
      /\ batch'[r].tools = batch[r].tools /\ batch'[r].step = batch[r].step
      /\ batch'[r].begun = batch[r].begun /\ batch'[r].checkpoint = batch[r].checkpoint
  BY <1>3, <1>4 DEF BatchRecords
<1>6. /\ batch'[r].step \in [1..Len(batch[r].tools) -> Steps]
      /\ asked' \in [Runs -> Nat]
      /\ asked'[r] = IF batch'[r].checkpoint THEN 1 ELSE 0
  BY <1>2, <1>5 DEF BatchType, FlagCounts
<1>7. \A i \in 1..Len(batch[r].tools) :
        /\ i > batch[r].begun => batch[r].step[i] = "waiting"
        /\ Tool(r, i) \in Mutating /\ batch[r].step[i] \notin {"waiting", "answered"} =>
             \A j \in 1..batch[r].begun : j # i => batch[r].step[j] = "answered"
        /\ batch[r].step[i] = "checkpoint" => Tool(r, i) \in Mutating /\ ~batch[r].checkpoint
        /\ batch[r].step[i] = "running" /\ Tool(r, i) \in Mutating => batch[r].checkpoint
  BY DEF OneAtATime, FlagIsKept, Step
<1>8. \A k \in 1..Len(batch[r].tools) :
        /\ k > batch'[r].begun => batch'[r].step[k] = "waiting"
        /\ Tool(r, k) \in Mutating /\ batch'[r].step[k] \notin {"waiting", "answered"} =>
             \A j \in 1..batch'[r].begun : j # k => batch'[r].step[j] = "answered"
        /\ batch'[r].step[k] = "checkpoint" => Tool(r, k) \in Mutating /\ ~batch'[r].checkpoint
        /\ batch'[r].step[k] = "running" /\ Tool(r, k) \in Mutating => batch'[r].checkpoint
  BY <1>5, <1>7
<1> QED BY <1>2, <1>4, <1>5, <1>6, <1>8, OneBatchMoves

-----------------------------------------------------------------------------
\* Every step keeps the invariant.
LEMMA NextInv == WritesInv /\ [Next]_vars => WritesInv'
<1> SUFFICES ASSUME WritesInv, [Next]_vars PROVE WritesInv'
  OBVIOUS
<1>1. CASE StartRun \/ Steer \/ Abort \/ AddPrompt \/ Stop \/ Exhaust \/ Request \/ RuleFires
           \/ Reply \/ HandOver \/ StreamFails \/ Continue \/ StopWaiting \/ Drained
           \/ DrainExpires
  BY <1>1, LoopAlone
<1>2. CASE CallTools
  BY <1>2, CallToolsKeeps
<1>3. ASSUME NEW r \in Runs, RunBatch(r) PROVE WritesInv'
  <2>1. CASE BeginGroup(r)
    BY <2>1, BeginGroupKeeps
  <2>2. ASSUME NEW i \in 1..Len(batch[r].tools),
               Decide(r, i) \/ EndCheckpoint(r, i) \/ Answer(r, i)
        PROVE  WritesInv'
    <3>1. CASE Decide(r, i)
      <4>1. PICK to : Advance(r, i, "asking", to) /\ (to = "answered" \/ to = Admitted(r, i))
        BY <3>1 DEF Decide
      <4> QED BY <4>1, AdvanceKeeps
    <3>2. CASE EndCheckpoint(r, i)
      BY <3>2, EndCheckpointKeeps
    <3>3. CASE Answer(r, i)
      BY <3>3, AdvanceKeeps DEF Answer
    <3> QED BY <2>2, <3>1, <3>2, <3>3
  <2>3. CASE AddToolResults(r) \/ EndBatch(r)
    BY <2>3, EndingKeeps
  <2> QED BY <1>3, <2>1, <2>2, <2>3 DEF RunBatch, RunCall
<1>4. CASE UNCHANGED vars
  <2>1. UNCHANGED <<batch, asked, run, turn>>
    BY <1>4 DEF vars, loop
  <2> QED BY <2>1, BatchesAlone DEF WritesInv, BatchType
<1> QED BY <1>1, <1>2, <1>3, <1>4 DEF Next, Loop

\* A mutating tool runs after the run's only call of git, and alone in its batch.
LEMMA InvCovers == WritesInv => WritesAreCovered
<1> SUFFICES ASSUME WritesInv, NEW r \in Runs, NEW i \in DOMAIN batch[r].tools,
                    Step(r, i) = "running", Tool(r, i) \in Mutating
             PROVE  /\ asked[r] = 1
                    /\ \A j \in 1..batch[r].begun : j # i => Step(r, j) = "answered"
  BY DEF WritesAreCovered, Writing
<1>1. i \in 1..Len(batch[r].tools)
  BY DEF WritesInv, BatchType, BatchRecords
<1> QED BY <1>1 DEF WritesInv, OneAtATime, FlagIsKept, FlagCounts

\* The invariant of the batches always holds.
LEMMA AlwaysWritesInv == Spec => []WritesInv
BY InitInv, NextInv, PTL DEF Spec

\* Whatever is aborted, abandoned, denied or begun again: no tool that writes is
\* called before git was asked for its run's checkpoint, no run asks twice, and
\* the tool is alone in its batch (tool-pipeline.ts:1133-1143,
\* tool-execution.ts:329-380).
THEOREM WritesCovered == Spec => []WritesAreCovered
BY AlwaysWritesInv, InvCovers, PTL

-----------------------------------------------------------------------------
(***************************************************************************)
(* Types.                                                                  *)
(***************************************************************************)
CallIds == Runs \X Nat \X Nat
Msgs == {m \in Message_Type : m.role # "assistant" => m.calls = <<>>}

LoopInv ==
  /\ run \in 0..MaxRuns /\ phase \in Phases /\ turn \in Nat
  /\ responded \in BOOLEAN /\ rule \in [Runs -> 0..(MaxRuleRetries + 1)]
  /\ aborted \subseteq Runs /\ abandoned \subseteq aborted
  /\ guidance \in BOOLEAN
  /\ phase # "idle" => run \in Runs
  /\ run # 0 => turn <= MaxTurns[run]
  /\ phase \in {"stream", "steered", "tools", "drain"} => turn < MaxTurns[run]
  /\ phase = "drain" => run \in aborted
  /\ phase \in {"tools", "drain"} => responded
  /\ phase = "init" => ~responded

ListInv == history \in Seq(Msgs) /\ sent \in Seq(Msgs)

ShapeInv ==
  \A r \in Runs :
    /\ batch[r].tools \in {<<>>} \cup Batches
    /\ batch[r].turn <= MaxTurns[r]
    /\ batch[r].begun <= Len(batch[r].tools)

\* Where a batch that is not over leaves its loop: an earlier run's was
\* abandoned.
StageInv ==
  \A r \in Runs : batch[r].stage # "done" =>
    /\ r <= run
    /\ r < run \/ phase = "idle" => r \in abandoned
    /\ r = run => phase \in {"tools", "drain", "idle"} /\ batch[r].turn = turn

StoppedInv == stopped \subseteq 1..run /\ (run \in stopped => phase = "idle")

TypeInv == WritesInv /\ LoopInv /\ ListInv /\ ShapeInv /\ StageInv /\ StoppedInv

\* Every run has a limit.
LEMMA LimitIs == \A r \in Runs : MaxTurns[r] \in Nat /\ 0 < MaxTurns[r]
BY AgentTurnAssumption DEF Runs

\* The messages of AgentTurn are messages with ids.
LEMMA MsgsAre == MessageSet(Msgs, CallIds)
<1>1. ASSUME NEW m \in Msgs
      PROVE  /\ m.role \in {"user", "assistant", "tool"}
             /\ m.calls \in Seq(CallIds)
             /\ m.role # "assistant" => m.calls = <<>>
  BY DEF Msgs, Message_Type, CallIds
<1>2. ASSUME NEW id \in CallIds PROVE ToolResult(id, "synthetic", FALSE) \in Msgs
  <2>1. 0 \in 0..MaxRuns BY AgentTurnAssumption
  <2>2. <<>> \in Seq(Runs \X Nat \X Nat) OBVIOUS
  <2> QED BY <2>1, <2>2 DEF Msgs, Message_Type, CallIds, ToolResult, Message
<1> QED BY <1>1, <1>2 DEF MessageSet

\* The messages the loop and the batches write.
LEMMA Written ==
  ASSUME NEW r \in Runs
  PROVE  /\ Prompt(r) \in Msgs /\ Prompt(r).role = "user" /\ Prompt(r).calls = <<>>
         /\ Reminder(r) \in Msgs /\ Reminder(r).role = "user" /\ Reminder(r).calls = <<>>
         /\ \A q : ~IsPrompt(Reminder(r), q)
         /\ \A q : IsPrompt(Prompt(r), q) <=> q = r
<1>1. r \in 0..MaxRuns BY AgentTurnAssumption DEF Runs
<1>2. <<>> \in Seq(Runs \X Nat \X Nat) OBVIOUS
<1>3. Prompt(r) \in Msgs /\ Prompt(r).role = "user" /\ Prompt(r).calls = <<>>
  BY <1>1, <1>2 DEF Msgs, Message_Type, Prompt, Message
<1>4. Reminder(r) \in Msgs /\ Reminder(r).role = "user" /\ Reminder(r).calls = <<>>
  BY <1>1, <1>2 DEF Msgs, Message_Type, Reminder, Prompt, Message
<1>5. \A q : IsPrompt(Prompt(r), q) <=> q = r
  BY DEF IsPrompt, Prompt, Message
<1>6. \A q : ~IsPrompt(Reminder(r), q)
  BY DEF IsPrompt, Reminder, Prompt, Message
<1> QED BY <1>3, <1>4, <1>5, <1>6

\* Behind a message of the user the reminder becomes part of that message.
LEMMA RemindedTop ==
  ASSUME NEW f \in Seq(Msgs), NEW u \in Msgs, u.role = "user", NEW r, NEW g \in BOOLEAN
  PROVE  \E v \in Msgs :
           /\ Reminded(Append(f, u), r, g) = Append(f, v)
           /\ v.role = "user" /\ v.from = u.from /\ v.kind = u.kind /\ (g => v.guided)
<1> DEFINE h == Append(f, u)
           v == [u EXCEPT !.guided = u.guided \/ g]
<1>1. u \in Message_Type /\ u.guided \in BOOLEAN /\ u.calls = <<>> BY DEF Msgs, Message_Type
<1>2. /\ v \in Msgs
      /\ v.role = "user" /\ v.from = u.from /\ v.kind = u.kind /\ (g => v.guided)
  <2>1. u.guided \/ g \in BOOLEAN BY <1>1
  <2>2. v \in Message_Type BY <1>1, <2>1 DEF Message_Type
  <2>3. /\ v.role = u.role /\ v.from = u.from /\ v.kind = u.kind /\ v.calls = u.calls
        /\ v.guided = (u.guided \/ g)
    BY <1>1 DEF Message_Type
  <2> QED BY <1>1, <2>2, <2>3 DEF Msgs
<1>3. /\ h # <<>> /\ Last(h) = u /\ Front(h) = f
  <2>1. Len(h) = Len(f) + 1 /\ Len(f) \in Nat /\ h[Len(f) + 1] = u OBVIOUS
  <2>2. SubSeq(h, 1, Len(f)) = f OBVIOUS
  <2>3. h # <<>> OBVIOUS
  <2> HIDE DEF h
  <2>4. (Len(f) + 1) - 1 = Len(f) BY <2>1
  <2> QED BY <2>1, <2>2, <2>3, <2>4 DEF Last, Front
<1> HIDE DEF h, v
<1>4. Reminded(h, r, g) = Append(f, [Last(h) EXCEPT !.guided = @ \/ g])
  BY <1>3 DEF Reminded
<1>5. [Last(h) EXCEPT !.guided = @ \/ g] = v BY <1>3 DEF v
<1> QED BY <1>2, <1>4, <1>5 DEF h

\* Behind any other it is a message of its own.
LEMMA RemindedBehind ==
  ASSUME NEW h, h = <<>> \/ Last(h).role # "user", NEW r \in Runs, NEW g \in BOOLEAN
  PROVE  \E v \in Msgs :
           /\ Reminded(h, r, g) = Append(h, v)
           /\ v.role = "user" /\ v.calls = <<>> /\ (g => v.guided)
           /\ \A q : ~IsPrompt(v, q)
<1> DEFINE v == [Reminder(r) EXCEPT !.guided = g]
<1>1. Reminded(h, r, g) = Append(h, v) BY DEF Reminded
<1>2. r \in 0..MaxRuns /\ <<>> \in Seq(Runs \X Nat \X Nat)
  BY AgentTurnAssumption DEF Runs
<1>3. /\ v \in Msgs /\ v.role = "user" /\ v.calls = <<>> /\ v.kind = "reminder"
      /\ (g => v.guided)
  BY <1>2 DEF Msgs, Message_Type, Reminder, Prompt, Message
<1> HIDE DEF v
<1>4. \A q : ~IsPrompt(v, q) BY <1>3 DEF IsPrompt
<1> QED BY <1>1, <1>3, <1>4

\* It is one or the other.
LEMMA RemindedIs ==
  ASSUME NEW h \in Seq(Msgs), NEW r \in Runs, NEW g \in BOOLEAN
  PROVE  \/ \E f \in Seq(Msgs), u, v \in Msgs :
              /\ h = Append(f, u) /\ Reminded(h, r, g) = Append(f, v)
              /\ u.role = "user" /\ v.role = "user"
              /\ v.from = u.from /\ v.kind = u.kind /\ (g => v.guided)
         \/ \E v \in Msgs :
              /\ Reminded(h, r, g) = Append(h, v)
              /\ v.role = "user" /\ v.calls = <<>> /\ (g => v.guided)
              /\ \A q : ~IsPrompt(v, q)
<1>1. CASE h # <<>> /\ Last(h).role = "user"
  <2> DEFINE n == Len(h)
             f == SubSeq(h, 1, n - 1)
  <2>1. n \in Nat /\ n # 0 BY <1>1
  <2>2. f \in Seq(Msgs) /\ h[n] \in Msgs /\ h = Append(f, h[n]) BY <2>1
  <2>3. h[n].role = "user" BY <1>1 DEF Last
  <2> HIDE DEF f, n
  <2>4. PICK v \in Msgs :
          /\ Reminded(Append(f, h[n]), r, g) = Append(f, v)
          /\ v.role = "user" /\ v.from = h[n].from /\ v.kind = h[n].kind /\ (g => v.guided)
    BY <2>2, <2>3, RemindedTop
  <2>5. Reminded(h, r, g) = Append(f, v) BY <2>2, <2>4
  <2> QED BY <2>2, <2>3, <2>4, <2>5
<1>2. CASE h = <<>> \/ Last(h).role # "user" BY <1>2, RemindedBehind
<1> QED BY <1>1, <1>2

\* An assistant message announces its calls.
LEMMA AssistantIs ==
  ASSUME NEW r \in Runs, NEW calls \in Seq(CallIds)
  PROVE  /\ Assistant(r, calls) \in Msgs
         /\ Assistant(r, calls).role = "assistant"
         /\ Assistant(r, calls).from = r
         /\ Assistant(r, calls).calls = calls
         /\ \A q : ~IsPrompt(Assistant(r, calls), q)
<1>1. r \in 0..MaxRuns BY AgentTurnAssumption DEF Runs
<1>2. \A q : ~IsPrompt(Assistant(r, calls), q) BY DEF IsPrompt, Assistant, Message
<1> QED BY <1>1, <1>2 DEF Msgs, Message_Type, Assistant, Message, CallIds

\* The ids of a batch, one for each call.
LEMMA IdsAre ==
  ASSUME NEW r \in Runs, NEW t \in Nat, NEW tools \in Seq(Tools)
  PROVE  /\ Ids(r, t, tools) \in Seq(CallIds)
         /\ DOMAIN Ids(r, t, tools) = 1..Len(tools) /\ DOMAIN tools = 1..Len(tools)
         /\ \A i \in 1..Len(tools) : Ids(r, t, tools)[i] = Id(r, t, i) /\ Id(r, t, i) \in CallIds
<1>1. DOMAIN tools = 1..Len(tools) /\ Len(tools) \in Nat OBVIOUS
<1>2. \A i \in 1..Len(tools) : Id(r, t, i) \in CallIds BY <1>1 DEF Id, CallIds
<1>3. Ids(r, t, tools) = [i \in 1..Len(tools) |-> Id(r, t, i)] BY <1>1 DEF Ids
<1> QED BY <1>1, <1>2, <1>3

\* The results of a batch, one for each of its calls.
LEMMA ResultsAre ==
  ASSUME TypeInv, NEW r \in Runs
  PROVE  /\ Results(r) \in Seq(Msgs)
         /\ DOMAIN Results(r) = 1..Len(batch[r].tools)
         /\ \A i \in 1..Len(batch[r].tools) :
              /\ Results(r)[i].role = "tool" /\ Results(r)[i].calls = <<>>
              /\ Results(r)[i].id = Id(r, batch[r].turn, i)
              /\ Results(r)[i].guided = (i = batch[r].begun /\ Drains(r))
              /\ Id(r, batch[r].turn, i) \in CallIds
<1> DEFINE n == Len(batch[r].tools)
<1>1. batch[r].tools \in Seq(Tools) /\ batch[r].turn \in Nat /\ n \in Nat
      /\ DOMAIN batch[r].tools = 1..n
  <2>1. batch[r] \in BatchRecords BY DEF TypeInv, WritesInv, BatchType
  <2>2. batch[r].tools \in Seq(Tools) /\ batch[r].turn \in Nat BY <2>1 DEF BatchRecords
  <2> QED BY <2>2
<1>2. \A i \in 1..n : Id(r, batch[r].turn, i) \in CallIds BY <1>1 DEF Id, CallIds
<1>3. ASSUME NEW i \in 1..n
      PROVE  /\ Results(r)[i] \in Msgs
             /\ Results(r)[i].role = "tool" /\ Results(r)[i].calls = <<>>
             /\ Results(r)[i].id = Id(r, batch[r].turn, i)
             /\ Results(r)[i].guided = (i = batch[r].begun /\ Drains(r))
  <2> DEFINE kind == IF i <= batch[r].begun THEN "result" ELSE "backfill"
             guided == i = batch[r].begun /\ Drains(r)
  <2>1. Results(r)[i] = ToolResult(Id(r, batch[r].turn, i), kind, guided)
    BY <1>1 DEF Results
  <2>2. kind \in {"result", "backfill"} /\ guided \in BOOLEAN OBVIOUS
  <2> HIDE DEF kind, guided
  <2>3. 0 \in 0..MaxRuns /\ <<>> \in Seq(Runs \X Nat \X Nat) BY AgentTurnAssumption
  <2>4. ToolResult(Id(r, batch[r].turn, i), kind, guided) \in Msgs
    BY <1>2, <2>2, <2>3 DEF Msgs, Message_Type, ToolResult, Message, CallIds
  <2>5. /\ ToolResult(Id(r, batch[r].turn, i), kind, guided).role = "tool"
        /\ ToolResult(Id(r, batch[r].turn, i), kind, guided).calls = <<>>
        /\ ToolResult(Id(r, batch[r].turn, i), kind, guided).id = Id(r, batch[r].turn, i)
        /\ ToolResult(Id(r, batch[r].turn, i), kind, guided).guided = guided
    BY DEF ToolResult, Message
  <2> QED BY <2>1, <2>4, <2>5 DEF guided
<1>4. Results(r) \in [1..n -> Msgs]
  <2>1. Results(r) = [i \in 1..n |-> Results(r)[i]] BY <1>1 DEF Results
  <2> QED BY <1>3, <2>1
<1> HIDE DEF n
<1>5. Results(r) \in Seq(Msgs) /\ DOMAIN Results(r) = 1..n BY <1>1, <1>4
<1> QED BY <1>2, <1>3, <1>5 DEF n

\* Rolling back drops a message of the user or nothing.
LEMMA WithoutIs ==
  ASSUME NEW M, NEW h \in Seq(M)
  PROVE  \/ WithoutPrompt(h) = h
         \/ \E f \in Seq(M), u \in M :
              h = Append(f, u) /\ u.role = "user" /\ WithoutPrompt(h) = f
<1>1. CASE h # <<>> /\ Last(h).role = "user"
  <2> DEFINE n == Len(h)
             f == SubSeq(h, 1, n - 1)
  <2>1. n \in Nat /\ n # 0 BY <1>1
  <2>2. f \in Seq(M) /\ h[n] \in M /\ h = Append(f, h[n]) BY <2>1
  <2>3. WithoutPrompt(h) = f BY <1>1 DEF WithoutPrompt, Front
  <2>4. h[n].role = "user" BY <1>1 DEF Last
  <2> QED BY <2>2, <2>3, <2>4
<1>2. CASE ~(h # <<>> /\ Last(h).role = "user") BY <1>2 DEF WithoutPrompt
<1> QED BY <1>1, <1>2

\* The repair of the list keeps its type and makes it clean.
LEMMA PreflightIs ==
  ASSUME NEW h \in Seq(Msgs)
  PROVE  Preflight(h) \in Seq(Msgs) /\ IsClean(Preflight(h))
<1>1. Repaired(h) \in Seq(Msgs) /\ IsClean(Repaired(h)) BY MsgsAre, RepairedIsClean
<1> QED BY <1>1 DEF Preflight


-----------------------------------------------------------------------------
\* In the initial state there is no message and no batch.
LEMMA TypeInit == Init => TypeInv
<1> SUFFICES ASSUME Init PROVE TypeInv OBVIOUS
<1>1. WritesInv BY InitInv
<1>2. LoopInv
  <2>1. run = 0 /\ phase = "idle" /\ turn = 0 /\ ~responded /\ ~guidance
        /\ aborted = {} /\ abandoned = {} /\ responded \in BOOLEAN /\ guidance \in BOOLEAN
    BY DEF Init
  <2>2. rule \in [Runs -> 0..(MaxRuleRetries + 1)]
    <3>1. 0 \in 0..(MaxRuleRetries + 1) BY AgentTurnAssumption
    <3> QED BY <3>1 DEF Init
  <2>3. 0 \in 0..MaxRuns /\ 0 \in Nat BY AgentTurnAssumption
  <2> QED BY <2>1, <2>2, <2>3 DEF LoopInv, Phases
<1>3. ListInv
  <2>1. <<>> \in Seq(Msgs) OBVIOUS
  <2> QED BY <2>1 DEF Init, ListInv
<1>4. ShapeInv /\ StageInv
  BY LimitIs DEF Init, ShapeInv, StageInv, NoBatch
<1>5. StoppedInv BY DEF Init, StoppedInv
<1> QED BY <1>1, <1>2, <1>3, <1>4, <1>5 DEF TypeInv

\* A step of a batch that is not its first.
OldBatch(q) ==
  /\ batch'[q].tools = batch[q].tools /\ batch'[q].turn = batch[q].turn
  /\ batch'[q].begun <= Len(batch[q].tools)
  /\ batch'[q].stage # "done" => batch[q].stage # "done"
  /\ batch'[q].stage = "running" => batch[q].stage = "running" /\ ~AddToolResults(q)

\* A step that leaves the batches alone keeps what is known of them.
LEMMA SameBatches ==
  ASSUME TypeInv, batch' = batch, \A q \in Runs : ~AddToolResults(q)
  PROVE  \A q \in Runs : OldBatch(q)
BY DEF OldBatch, TypeInv, ShapeInv

\* No step but CallTools begins a batch anew.
LEMMA BatchesGoOn ==
  ASSUME TypeInv, Next, ~CallTools
  PROVE  \A q \in Runs : OldBatch(q)
<1>0. ASSUME NEW r \in Runs PROVE batch[r] \in BatchRecords
  BY <1>0 DEF TypeInv, WritesInv, BatchType
<1>00. ASSUME NEW r \in Runs PROVE batch[r].begun <= Len(batch[r].tools)
  BY <1>00 DEF TypeInv, ShapeInv
<1>000. batch \in [Runs -> BatchRecords] BY DEF TypeInv, WritesInv, BatchType
<1>1. CASE \E r \in Runs : AddToolResults(r)
  <2>1. PICK r \in Runs : AddToolResults(r) BY <1>1
  <2>2. batch' = [batch EXCEPT ![r].stage = "hooks"] BY <2>1 DEF AddToolResults
  <2>3. batch[r].stage = "running" BY <2>1 DEF AddToolResults, BetweenGroups
  <2>4. batch'[r] = [batch[r] EXCEPT !.stage = "hooks"]
        /\ \A q \in Runs : q # r => batch'[q] = batch[q]
    BY <1>000, <2>2
  <2>5. batch'[r].stage = "hooks" /\ batch'[r].tools = batch[r].tools
        /\ batch'[r].turn = batch[r].turn /\ batch'[r].begun = batch[r].begun
    BY <1>0, <2>4 DEF BatchRecords
  <2>6. OldBatch(r) BY <1>00, <2>3, <2>5 DEF OldBatch
  <2>7. ASSUME NEW q \in Runs, q # r PROVE OldBatch(q)
    <3>1. ~AddToolResults(q)
      <4> SUFFICES ASSUME AddToolResults(q) PROVE FALSE OBVIOUS
      <4>1. batch' = [batch EXCEPT ![q].stage = "hooks"] /\ batch[q].stage = "running"
        BY DEF AddToolResults, BetweenGroups
      <4>2. batch'[q] = [batch[q] EXCEPT !.stage = "hooks"] BY <1>000, <4>1
      <4>3. batch'[q].stage = "hooks" BY <1>0, <4>2 DEF BatchRecords
      <4> QED BY <2>4, <2>7, <4>1, <4>3
    <3> QED BY <1>00, <2>4, <2>7, <3>1 DEF OldBatch
  <2> QED BY <2>6, <2>7
<1>2. CASE \A r \in Runs : ~AddToolResults(r)
  <2>1. CASE StartRun \/ Steer \/ Abort \/ Loop
    <3>1. batch' = batch
      BY <2>1 DEF Loop, StartRun, Steer, Abort, AddPrompt, Stop, Exhaust, Request, RuleFires,
         Reply, HandOver, StreamFails, Continue, StopWaiting, Drained, DrainExpires
    <3> QED BY <1>2, <3>1, SameBatches
  <2>2. CASE \E r \in Runs : RunBatch(r)
    <3>1. PICK r \in Runs : BeginGroup(r) \/ RunCall(r) \/ EndBatch(r)
      BY <1>2, <2>2 DEF RunBatch
    <3>2. \E begun, step, checkpoint, stage :
            /\ batch' = [batch EXCEPT ![r] = [batch[r] EXCEPT
                 !.begun = begun, !.step = step, !.checkpoint = checkpoint, !.stage = stage]]
            /\ begun <= Len(batch[r].tools)
            /\ stage = batch[r].stage \/ stage = "done"
      <4>1. CASE BeginGroup(r)
        <5>1. PICK last \in (batch[r].begun + 1)..Len(batch[r].tools) : \E step :
                batch' = [batch EXCEPT ![r].begun = last, ![r].step = step]
          BY <4>1 DEF BeginGroup
        <5>2. PICK step : batch' = [batch EXCEPT ![r].begun = last, ![r].step = step]
          BY <5>1
        <5>3. batch' = [batch EXCEPT ![r] = [batch[r] EXCEPT
                !.begun = last, !.step = step, !.checkpoint = batch[r].checkpoint,
                !.stage = batch[r].stage]]
          BY <1>0, <1>000, <5>2 DEF BatchRecords
        <5>4. last <= Len(batch[r].tools)
          <6>1. Len(batch[r].tools) \in Nat /\ batch[r].begun \in Nat BY <1>0 DEF BatchRecords
          <6> QED BY <6>1
        <5> QED BY <5>3, <5>4
      <4>2. CASE RunCall(r)
        <5>1. PICK i \in 1..Len(batch[r].tools) :
                \E to, checkpoint : batch' = [batch EXCEPT
                  ![r].checkpoint = checkpoint, ![r].step[i] = to]
          <6>1. PICK i \in 1..Len(batch[r].tools) :
                  Decide(r, i) \/ EndCheckpoint(r, i) \/ Answer(r, i)
            BY <4>2 DEF RunCall
          <6>2. CASE EndCheckpoint(r, i) BY <6>2 DEF EndCheckpoint
          <6>3. CASE Decide(r, i) \/ Answer(r, i)
            <7>1. PICK to : batch' = [batch EXCEPT ![r].step[i] = to]
              BY <6>3 DEF Decide, Answer, Advance
            <7>2. batch' = [batch EXCEPT ![r].checkpoint = batch[r].checkpoint, ![r].step[i] = to]
              BY <1>0, <1>000, <7>1 DEF BatchRecords
            <7> QED BY <7>2
          <6> QED BY <6>1, <6>2, <6>3
        <5>2. PICK to, checkpoint : batch' = [batch EXCEPT
                ![r].checkpoint = checkpoint, ![r].step[i] = to]
          BY <5>1
        <5>3. batch' = [batch EXCEPT ![r] = [batch[r] EXCEPT
                !.begun = batch[r].begun, !.step = [batch[r].step EXCEPT ![i] = to],
                !.checkpoint = checkpoint, !.stage = batch[r].stage]]
          BY <1>0, <1>000, <5>2 DEF BatchRecords
        <5> QED BY <1>00, <5>3
      <4>3. CASE EndBatch(r)
        <5>1. batch' = [batch EXCEPT ![r].stage = "done"] BY <4>3 DEF EndBatch
        <5>2. batch' = [batch EXCEPT ![r] = [batch[r] EXCEPT
                !.begun = batch[r].begun, !.step = batch[r].step,
                !.checkpoint = batch[r].checkpoint, !.stage = "done"]]
          BY <1>0, <1>000, <5>1 DEF BatchRecords
        <5> QED BY <1>00, <5>2
      <4> QED BY <3>1, <4>1, <4>2, <4>3
    <3>3. PICK begun, step, checkpoint, stage :
            /\ batch' = [batch EXCEPT ![r] = [batch[r] EXCEPT
                 !.begun = begun, !.step = step, !.checkpoint = checkpoint, !.stage = stage]]
            /\ begun <= Len(batch[r].tools)
            /\ stage = batch[r].stage \/ stage = "done"
      BY <3>2
    <3>4. /\ batch'[r] = [batch[r] EXCEPT
               !.begun = begun, !.step = step, !.checkpoint = checkpoint, !.stage = stage]
          /\ \A q \in Runs : q # r => batch'[q] = batch[q]
      BY <1>000, <3>3
    <3>5. /\ batch'[r].tools = batch[r].tools /\ batch'[r].turn = batch[r].turn
          /\ batch'[r].begun = begun /\ batch'[r].stage = stage
      BY <1>0, <3>4 DEF BatchRecords
    <3>6. OldBatch(r) BY <1>2, <3>3, <3>5 DEF OldBatch
    <3>7. \A q \in Runs : q # r => OldBatch(q) BY <1>00, <1>2, <3>4 DEF OldBatch
    <3> QED BY <3>6, <3>7
  <2> QED BY <2>1, <2>2 DEF Next, Loop
<1> QED BY <1>1, <1>2

\* The step that begins a batch.
LEMMA BatchBegins ==
  ASSUME TypeInv, CallTools
  PROVE  /\ run \in Runs /\ turn \in Nat
         /\ \E tools \in Batches :
              /\ tools \in Seq(Tools)
              /\ history' = Append(history, Assistant(run, Ids(run, turn, tools)))
              /\ batch'[run].tools = tools /\ batch'[run].turn = turn
              /\ batch'[run].begun = 0 /\ batch'[run].stage = "running"
         /\ \A q \in Runs : q # run => batch'[q] = batch[q] /\ OldBatch(q)
<1>1. run \in Runs /\ turn \in Nat
  BY AgentTurnAssumption DEF CallTools, TypeInv, LoopInv
<1>2. PICK tools \in Batches :
        /\ history' = Append(history, Assistant(run, Ids(run, turn, tools)))
        /\ batch' = [batch EXCEPT ![run] =
            [tools |-> tools, turn |-> turn, begun |-> 0,
             step |-> [i \in DOMAIN tools |-> "waiting"],
             checkpoint |-> HasBaseline(run), stage |-> "running"]]
  BY DEF CallTools
<1>3. tools \in Seq(Tools) BY AgentTurnAssumption
<1>4. batch \in [Runs -> BatchRecords] BY DEF TypeInv, WritesInv, BatchType
<1>5. /\ batch'[run] =
            [tools |-> tools, turn |-> turn, begun |-> 0,
             step |-> [i \in DOMAIN tools |-> "waiting"],
             checkpoint |-> HasBaseline(run), stage |-> "running"]
      /\ \A q \in Runs : q # run => batch'[q] = batch[q]
  BY <1>1, <1>2, <1>4
<1>6. ASSUME NEW q \in Runs, q # run PROVE OldBatch(q)
  <2>1. batch'[q] = batch[q] BY <1>5, <1>6
  <2>2. ~AddToolResults(q)
    <3> SUFFICES ASSUME AddToolResults(q) PROVE FALSE OBVIOUS
    <3>1. batch[q].stage = "running" /\ batch' = [batch EXCEPT ![q].stage = "hooks"]
      BY DEF AddToolResults, BetweenGroups
    <3>2. batch[q] \in BatchRecords BY <1>4
    <3>3. batch'[q] = [batch[q] EXCEPT !.stage = "hooks"] BY <1>4, <3>1
    <3>4. batch'[q].stage = "hooks" BY <3>2, <3>3 DEF BatchRecords
    <3> QED BY <2>1, <3>1, <3>4
  <2>3. batch[q].begun <= Len(batch[q].tools) BY DEF TypeInv, ShapeInv
  <2> QED BY <2>1, <2>2, <2>3 DEF OldBatch
<1> QED BY <1>1, <1>2, <1>3, <1>5, <1>6

\* The last message, one of the user, has become longer.
Merges ==
  \E f \in Seq(Msgs), u, v \in Msgs :
    /\ history = Append(f, u) /\ history' = Append(f, v)
    /\ u.role = "user" /\ v.role = "user" /\ v.from = u.from /\ v.kind = u.kind

\* What a step does to the list.
LEMMA ListSteps ==
  ASSUME TypeInv, Next
  PROVE  \/ UNCHANGED <<history, sent>>
         \/ /\ UNCHANGED sent
            /\ \E g \in Seq(Msgs) :
                 /\ history' = history \o g
                 /\ \A i \in DOMAIN g :
                      /\ g[i].role # "tool" /\ g[i].calls = <<>>
                      /\ \A q : IsPrompt(g[i], q) => AddPrompt /\ q = run
         \/ /\ UNCHANGED <<run, turn, sent>> /\ phase = "stream" /\ phase' \in {"idle", "tools"}
            /\ \E tools \in Seq(Tools) :
                 history' = Append(history, Assistant(run, Ids(run, turn, tools)))
         \/ history' = WithoutPrompt(history) /\ sent' = sent
         \/ Merges /\ sent' = sent
         \/ Request
         \/ \E r \in Runs : AddToolResults(r) /\ sent' = sent /\ history' = history \o Results(r)
<1>1. ASSUME NEW m \in Msgs, m.role # "tool", m.calls = <<>>, sent' = sent,
             history' = Append(history, m),
             \A q : IsPrompt(m, q) => AddPrompt /\ q = run
      PROVE  /\ UNCHANGED sent
             /\ \E g \in Seq(Msgs) :
                 /\ history' = history \o g
                 /\ \A i \in DOMAIN g :
                      /\ g[i].role # "tool" /\ g[i].calls = <<>>
                      /\ \A q : IsPrompt(g[i], q) => AddPrompt /\ q = run
  <2>1. history \in Seq(Msgs) BY DEF TypeInv, ListInv
  <2>2. Append(history, m) = history \o <<m>> BY <2>1
  <2>3. <<m>> \in Seq(Msgs) /\ DOMAIN <<m>> = {1} /\ <<m>>[1] = m OBVIOUS
  <2> QED BY <1>1, <2>2, <2>3
<1>0. ASSUME sent' = sent, run \in Runs, NEW g \in BOOLEAN, history' = Reminded(history, run, g)
      PROVE  \/ Merges
             \/ \E h \in Seq(Msgs) :
                 /\ history' = history \o h
                 /\ \A i \in DOMAIN h :
                      /\ h[i].role # "tool" /\ h[i].calls = <<>>
                      /\ \A q : IsPrompt(h[i], q) => AddPrompt /\ q = run
  <2>1. history \in Seq(Msgs) BY DEF TypeInv, ListInv
  <2>2. CASE \E v \in Msgs :
              /\ Reminded(history, run, g) = Append(history, v)
              /\ v.role = "user" /\ v.calls = <<>> /\ (g => v.guided)
              /\ \A q : ~IsPrompt(v, q)
    <3>1. PICK v \in Msgs :
              /\ Reminded(history, run, g) = Append(history, v)
              /\ v.role = "user" /\ v.calls = <<>> /\ \A q : ~IsPrompt(v, q)
      BY <2>2
    <3>2. history' = Append(history, v) BY <1>0, <3>1
    <3>3. v.role # "tool" /\ \A q : IsPrompt(v, q) => AddPrompt /\ q = run BY <3>1
    <3> QED BY <1>0, <1>1, <3>1, <3>2, <3>3
  <2>3. CASE \E f \in Seq(Msgs), u, v \in Msgs :
              /\ history = Append(f, u) /\ Reminded(history, run, g) = Append(f, v)
              /\ u.role = "user" /\ v.role = "user"
              /\ v.from = u.from /\ v.kind = u.kind /\ (g => v.guided)
    BY <1>0, <2>3 DEF Merges
  <2> QED BY <1>0, <2>1, <2>2, <2>3, RemindedIs
<1>2. phase # "idle" => run \in Runs BY DEF TypeInv, LoopInv
<1>3. turn \in Nat BY AgentTurnAssumption DEF TypeInv, LoopInv
<1>4. CASE StartRun \/ Steer \/ Abort
  BY <1>4 DEF StartRun, Steer, Abort
<1>5. CASE AddPrompt
  <2>1. run \in Runs BY <1>2, <1>5 DEF AddPrompt
  <2>2. \A q : IsPrompt(Prompt(run), q) => q = run BY <2>1, Written
  <2>3. history' = Append(history, Prompt(run)) /\ sent' = sent BY <1>5 DEF AddPrompt
  <2> QED BY <1>1, <1>5, <2>1, <2>2, <2>3, Written
<1>6. CASE Stop \/ Drained \/ DrainExpires
  BY <1>6 DEF Stop, Drained, DrainExpires, RolledBack
<1>7. CASE Exhaust \/ Continue \/ StopWaiting
  BY <1>7 DEF Exhaust, Continue, StopWaiting
<1>8. CASE RuleFires
  <2>1. CASE history' = history BY <1>8, <2>1 DEF RuleFires
  <2>2. CASE history' = Append(history, Reminder(run))
    <3>1. run \in Runs /\ sent' = sent BY <1>2, <1>8 DEF RuleFires
    <3> QED BY <1>1, <2>2, <3>1, Written
  <2> QED BY <1>8, <2>1, <2>2 DEF RuleFires
<1>9. CASE Reply
  <2> DEFINE a == Assistant(run, <<>>)
  <2>1. run \in Runs /\ sent' = sent /\ history \in Seq(Msgs)
    BY <1>2, <1>9 DEF Reply, TypeInv, ListInv
  <2>2. <<>> \in Seq(CallIds) OBVIOUS
  <2>3. /\ a \in Msgs /\ a.role = "assistant" /\ a.calls = <<>>
        /\ \A q : ~IsPrompt(a, q)
    BY <2>1, <2>2, AssistantIs
  <2>4. PICK replied \in {history, Append(history, a)} :
          history' = replied \/ history' = Reminded(replied, run, FALSE)
    BY <1>9 DEF Reply
  <2> HIDE DEF a
  <2>5. CASE history' = replied
    <3>1. a.role # "tool" /\ \A q : IsPrompt(a, q) => AddPrompt /\ q = run BY <2>3
    <3>2. CASE replied = history BY <2>1, <2>5, <3>2
    <3>3. CASE replied = Append(history, a)
      <4>1. history' = Append(history, a) BY <2>5, <3>3
      <4> QED BY <1>1, <2>1, <2>3, <3>1, <4>1
    <3> QED BY <2>4, <3>2, <3>3
  <2>6. CASE history' = Reminded(replied, run, FALSE) /\ replied = history
    BY <1>0, <2>1, <2>6
  <2>7. CASE history' = Reminded(replied, run, FALSE) /\ replied = Append(history, a)
    <3>1. replied \in Seq(Msgs) BY <2>1, <2>3, <2>7
    <3>2. Last(replied) = a /\ Last(replied).role # "user"
      <4>1. Len(replied) = Len(history) + 1 /\ replied[Len(history) + 1] = a
        BY <2>1, <2>3, <2>7
      <4> QED BY <2>3, <4>1 DEF Last
    <3>3. PICK v \in Msgs :
            /\ Reminded(replied, run, FALSE) = Append(replied, v)
            /\ v.role = "user" /\ v.calls = <<>> /\ \A q : ~IsPrompt(v, q)
      BY <2>1, <3>2, RemindedBehind
    <3>4. history' = Append(Append(history, a), v) BY <2>7, <3>3
    <3>5. v.role # "tool" BY <3>3
    <3>6. history' = history \o <<a, v>> BY <2>1, <2>3, <3>4
    <3>7. <<a, v>> \in Seq(Msgs) /\ \A i \in DOMAIN <<a, v>> : <<a, v>>[i] \in {a, v}
      BY <2>3
    <3> QED BY <2>1, <2>3, <3>3, <3>5, <3>6, <3>7
  <2> QED BY <2>4, <2>5, <2>6, <2>7
<1>10. CASE HandOver
  <2>1. run \in Runs /\ sent' = sent /\ history' = Reminded(history, run, TRUE)
    BY <1>2, <1>10 DEF HandOver
  <2> QED BY <1>0, <2>1
<1>11. CASE StreamFails
  <2>1. CASE history' = RolledBack(history)
    BY <1>11, <2>1 DEF StreamFails, RolledBack
  <2>2. CASE \E tools \in Batches \cup {<<>>} :
               history' = Append(history, Assistant(run, Ids(run, turn, tools)))
    <3>1. Batches \cup {<<>>} \subseteq Seq(Tools)
      <4>1. <<>> \in Seq(Tools) OBVIOUS
      <4>2. Batches \subseteq Seq(Tools) BY AgentTurnAssumption
      <4> QED BY <4>1, <4>2
    <3> QED BY <1>11, <2>2, <3>1 DEF StreamFails
  <2> QED BY <1>11, <2>1, <2>2 DEF StreamFails
<1>12. CASE CallTools
  <2>1. \E tools \in Seq(Tools) :
          history' = Append(history, Assistant(run, Ids(run, turn, tools)))
    BY <1>12, BatchBegins
  <2> QED BY <1>12, <2>1 DEF CallTools
<1>13. ASSUME NEW r \in Runs, RunBatch(r), ~AddToolResults(r)
       PROVE  UNCHANGED <<history, sent>>
  BY <1>13 DEF RunBatch, BeginGroup, RunCall, Decide, EndCheckpoint, Answer, Advance, EndBatch
<1>14. ASSUME NEW r \in Runs, AddToolResults(r)
       PROVE  sent' = sent /\ history' = history \o Results(r)
  BY <1>14 DEF AddToolResults
<1> QED BY <1>4, <1>5, <1>6, <1>7, <1>8, <1>9, <1>10, <1>11, <1>12, <1>13, <1>14 DEF Next, Loop


\* Every step keeps the loop in its bounds.
LEMMA LoopStep == ASSUME TypeInv, Next PROVE LoopInv'
<1> USE AgentTurnAssumption
<1>0. LoopInv BY DEF TypeInv
<1>1. CASE StartRun
  <2>1. run' \in 0..MaxRuns /\ run' \in Runs BY <1>0, <1>1 DEF StartRun, LoopInv, Runs
  <2>2. turn' = 0 /\ 0 <= MaxTurns[run'] /\ phase' = "init" /\ responded' = FALSE
        /\ guidance' = FALSE /\ UNCHANGED <<rule, aborted, abandoned>>
    BY <1>1, <2>1, LimitIs DEF StartRun
  <2> QED BY <1>0, <2>1, <2>2 DEF LoopInv, Phases
<1>2. CASE Steer BY <1>0, <1>2 DEF Steer, LoopInv, loop
<1>3. CASE Abort BY <1>0, <1>3 DEF Abort, LoopInv
<1>4. CASE AddPrompt BY <1>0, <1>4 DEF AddPrompt, LoopInv, Phases
<1>5. CASE Stop \/ Exhaust \/ Drained BY <1>0, <1>5 DEF Stop, Exhaust, Drained, EndRun, StopRun, LoopInv, Phases
<1>6. CASE Request BY <1>0, <1>6 DEF Request, LoopInv, Phases
<1>7. CASE RuleFires
  <2>1. run \in Runs /\ rule \in [Runs -> 0..(MaxRuleRetries + 1)] /\ rule[run] <= MaxRuleRetries
        /\ turn \in Nat /\ turn < MaxTurns[run] /\ MaxTurns[run] \in Nat
    BY <1>0, <1>7, LimitIs DEF RuleFires, LoopInv
  <2>2. rule[run] + 1 \in 0..(MaxRuleRetries + 1) BY <2>1
  <2>3. rule' \in [Runs -> 0..(MaxRuleRetries + 1)] BY <1>7, <2>1, <2>2 DEF RuleFires
  <2>4. turn' \in Nat /\ turn' <= MaxTurns[run] BY <1>7, <2>1 DEF RuleFires
  <2> QED BY <1>0, <1>7, <2>3, <2>4 DEF RuleFires, LoopInv, Phases
<1>8. CASE Reply
  <2>1. turn \in Nat /\ turn < MaxTurns[run] /\ MaxTurns[run] \in Nat
    BY <1>0, LimitIs, <1>8 DEF Reply, LoopInv
  <2>2. turn + 1 \in Nat /\ turn + 1 <= MaxTurns[run] BY <2>1
  <2>3. phase' \in {"steered", "top", "idle"} /\ turn' \in {turn, turn + 1}
        /\ (phase' = "steered" => turn' = turn)
        /\ responded' \in BOOLEAN /\ guidance' \in {FALSE, guidance}
        /\ UNCHANGED <<run, rule, aborted, abandoned>> /\ phase = "stream"
    BY <1>0, <1>8 DEF Reply, LoopInv
  <2> QED BY <1>0, <2>1, <2>2, <2>3 DEF LoopInv, Phases
<1>9. CASE HandOver
  <2>1. turn \in Nat /\ turn < MaxTurns[run] /\ MaxTurns[run] \in Nat
    BY <1>0, LimitIs, <1>9 DEF HandOver, LoopInv
  <2> QED BY <1>0, <1>9, <2>1 DEF HandOver, LoopInv, Phases
<1>10. CASE StreamFails
  <2>1. phase' = "idle" /\ responded' \in {TRUE, responded}
        /\ UNCHANGED <<run, turn, rule, aborted, guidance, abandoned>>
    BY <1>10 DEF StreamFails
  <2> QED BY <1>0, <2>1 DEF LoopInv, Phases
<1>11. CASE CallTools BY <1>0, <1>11 DEF CallTools, LoopInv, Phases
<1>12. CASE Continue
  <2>1. turn \in Nat /\ turn < MaxTurns[run] /\ MaxTurns[run] \in Nat
    BY <1>0, LimitIs, <1>12 DEF Continue, LoopInv
  <2>2. turn + 1 \in Nat /\ turn + 1 <= MaxTurns[run] BY <2>1
  <2>3. phase' \in {"top", "idle"} /\ turn' \in {turn, turn + 1} /\ phase = "tools"
        /\ UNCHANGED <<run, responded, rule, aborted, guidance, abandoned>>
    BY <1>12 DEF Continue, EndRun, StopRun
  <2> QED BY <1>0, <2>1, <2>2, <2>3 DEF LoopInv, Phases
<1>13. CASE StopWaiting BY <1>0, <1>13 DEF StopWaiting, LoopInv, Phases
<1>14. CASE DrainExpires
  <2>1. run \in aborted BY <1>0, <1>14 DEF DrainExpires, LoopInv
  <2> QED BY <1>0, <1>14, <2>1 DEF DrainExpires, EndRun, StopRun, LoopInv, Phases
<1>15. ASSUME NEW r \in Runs, RunBatch(r) PROVE LoopInv'
  <2>1. UNCHANGED loop /\ UNCHANGED abandoned /\ guidance' \in BOOLEAN
    <3>1. guidance \in BOOLEAN BY <1>0 DEF LoopInv
    <3>2. CASE AddToolResults(r)
      <4>1. guidance' = (guidance /\ ~Drains(r)) /\ UNCHANGED loop /\ UNCHANGED abandoned
        BY <3>2 DEF AddToolResults
      <4> QED BY <4>1
    <3>3. CASE ~AddToolResults(r)
      BY <1>15, <3>1, <3>3 DEF RunBatch, BeginGroup, RunCall, Decide, EndCheckpoint,
                   Answer, Advance, EndBatch
    <3> QED BY <3>2, <3>3
  <2> QED BY <1>0, <2>1 DEF LoopInv, loop
<1> QED BY <1>1, <1>2, <1>3, <1>4, <1>5, <1>6, <1>7, <1>8, <1>9, <1>10, <1>11, <1>12, <1>13,
           <1>14, <1>15 DEF Next, Loop

\* Every step keeps the list a list of messages.
LEMMA ListStep == ASSUME TypeInv, Next PROVE ListInv'
<1>0. history \in Seq(Msgs) /\ sent \in Seq(Msgs) BY DEF TypeInv, ListInv
<1>1. CASE UNCHANGED <<history, sent>> BY <1>0, <1>1 DEF ListInv
<1>2. CASE UNCHANGED sent /\ \E g \in Seq(Msgs) : history' = history \o g
  <2>1. PICK g \in Seq(Msgs) : history' = history \o g BY <1>2
  <2>2. history \o g \in Seq(Msgs) BY <1>0, ConcatIs
  <2> QED BY <1>0, <1>2, <2>1, <2>2 DEF ListInv
<1>3. CASE /\ UNCHANGED sent /\ phase = "stream"
           /\ \E tools \in Seq(Tools) :
                history' = Append(history, Assistant(run, Ids(run, turn, tools)))
  <2>1. PICK tools \in Seq(Tools) :
          history' = Append(history, Assistant(run, Ids(run, turn, tools)))
    BY <1>3
  <2>2. run \in Runs /\ turn \in Nat
    BY <1>3, AgentTurnAssumption DEF TypeInv, LoopInv
  <2>3. Ids(run, turn, tools) \in Seq(CallIds) BY <2>2, IdsAre
  <2>4. Assistant(run, Ids(run, turn, tools)) \in Msgs BY <2>2, <2>3, AssistantIs
  <2> QED BY <1>0, <1>3, <2>1, <2>4 DEF ListInv
<1>4. CASE history' = WithoutPrompt(history) /\ sent' = sent
  <2>1. WithoutPrompt(history) \in Seq(Msgs) BY <1>0, WithoutIs
  <2> QED BY <1>0, <1>4, <2>1 DEF ListInv
<1>5. CASE Request
  <2>1. Preflight(history) \in Seq(Msgs) BY <1>0, PreflightIs
  <2> QED BY <1>0, <1>5, <2>1 DEF Request, ListInv
<1>6. ASSUME NEW r \in Runs, sent' = sent, history' = history \o Results(r) PROVE ListInv'
  <2>1. Results(r) \in Seq(Msgs) BY ResultsAre
  <2>2. history \o Results(r) \in Seq(Msgs) BY <1>0, <2>1, ConcatIs
  <2> QED BY <1>0, <1>6, <2>2 DEF ListInv
<1>7. CASE Merges /\ sent' = sent BY <1>0, <1>7 DEF Merges, ListInv
<1> QED BY <1>1, <1>2, <1>3, <1>4, <1>5, <1>6, <1>7, ListSteps

\* Every step keeps the shape of the batches.
LEMMA ShapeStep == ASSUME TypeInv, Next PROVE ShapeInv'
<1>0. ShapeInv BY DEF TypeInv
<1>1. CASE ~CallTools
  <2>1. \A q \in Runs : OldBatch(q) BY <1>1, BatchesGoOn
  <2> QED BY <1>0, <2>1 DEF OldBatch, ShapeInv
<1>2. CASE CallTools
  <2>1. PICK tools \in Batches :
          /\ tools \in Seq(Tools)
          /\ batch'[run].tools = tools /\ batch'[run].turn = turn /\ batch'[run].begun = 0
    BY <1>2, BatchBegins
  <2>2. turn <= MaxTurns[run] /\ 0 <= Len(tools)
    BY <1>2, <2>1, AgentTurnAssumption DEF TypeInv, LoopInv, CallTools, Runs
  <2>3. \A q \in Runs : q # run => OldBatch(q) BY <1>2, BatchBegins
  <2> QED BY <1>0, <2>1, <2>2, <2>3 DEF OldBatch, ShapeInv
<1> QED BY <1>1, <1>2

\* A batch that is not over is the current run's, or abandoned.
LEMMA StageStep == ASSUME TypeInv, Next PROVE StageInv'
<1> SUFFICES ASSUME NEW r \in Runs, batch'[r].stage # "done"
             PROVE  /\ r <= run'
                    /\ r < run' \/ phase' = "idle" => r \in abandoned'
                    /\ r = run' => phase' \in {"tools", "drain", "idle"} /\ batch'[r].turn = turn'
  BY DEF StageInv
<1>0. run \in 0..MaxRuns /\ r \in Nat BY AgentTurnAssumption DEF TypeInv, LoopInv, Runs
<1>1. CASE CallTools
  <2>1. UNCHANGED <<run, turn, abandoned>> /\ phase = "stream" /\ phase' = "tools"
    BY <1>1 DEF CallTools
  <2>2. CASE r = run
    <3>1. batch'[run].turn = turn BY <1>1, BatchBegins
    <3> QED BY <1>0, <2>1, <2>2, <3>1
  <2>3. CASE r # run
    <3>1. batch'[r] = batch[r] BY <1>1, <2>3, BatchBegins
    <3>2. batch[r].stage # "done" BY <3>1
    <3> QED BY <1>0, <2>1, <2>3, <3>2 DEF TypeInv, StageInv
  <2> QED BY <2>2, <2>3
<1>2. CASE ~CallTools
  <2>1. batch[r].stage # "done" /\ batch'[r].turn = batch[r].turn
    BY <1>2, BatchesGoOn DEF OldBatch
  <2>2. /\ r <= run
        /\ r < run \/ phase = "idle" => r \in abandoned
        /\ r = run => phase \in {"tools", "drain", "idle"} /\ batch[r].turn = turn
    BY <2>1 DEF TypeInv, StageInv
  <2>3. CASE StartRun
    <3>1. run' = run + 1 /\ phase = "idle" /\ abandoned' = abandoned BY <2>3 DEF StartRun
    <3> QED BY <1>0, <2>2, <3>1
  <2>4. CASE UNCHANGED <<run, turn, phase, abandoned>> BY <2>1, <2>2, <2>4
  <2>5. CASE AddPrompt \/ Stop \/ Exhaust \/ Request \/ RuleFires \/ Reply \/ HandOver \/ StreamFails
    <3>1. UNCHANGED <<run, abandoned>> /\ phase \in {"init", "top", "stream", "steered"}
      BY <2>5 DEF AddPrompt, Stop, Exhaust, Request, RuleFires, Reply, HandOver, StreamFails, EndRun, StopRun
    <3>2. r < run BY <1>0, <2>2, <3>1
    <3> QED BY <1>0, <2>2, <3>1, <3>2
  <2>6. CASE StopWaiting
    <3>1. UNCHANGED <<run, turn, abandoned>> /\ phase = "tools" /\ phase' = "drain"
      BY <2>6 DEF StopWaiting
    <3> QED BY <2>1, <2>2, <3>1
  <2>7. CASE Continue \/ Drained
    <3>1. UNCHANGED <<run, abandoned>> /\ batch[run].stage = "done"
      BY <2>7 DEF Continue, Drained, EndRun, StopRun
    <3>2. r < run BY <1>0, <2>1, <2>2, <3>1
    <3> QED BY <1>0, <2>2, <3>1, <3>2
  <2>8. CASE DrainExpires
    <3>1. UNCHANGED <<run, turn>> /\ abandoned' = abandoned \cup {run} /\ phase' = "idle"
      BY <2>8 DEF DrainExpires, EndRun, StopRun
    <3>2. r \in abandoned' BY <1>0, <2>2, <3>1
    <3> QED BY <2>1, <2>2, <3>1, <3>2
  <2>9. ASSUME Steer \/ Abort \/ \E q \in Runs : RunBatch(q)
        PROVE  UNCHANGED <<run, turn, phase, abandoned>>
    BY <2>9 DEF Steer, Abort, RunBatch, BeginGroup, RunCall, Decide, EndCheckpoint, Answer,
                Advance, AddToolResults, EndBatch, loop
  <2> QED BY <1>2, <2>3, <2>4, <2>5, <2>6, <2>7, <2>8, <2>9 DEF Next, Loop
<1> QED BY <1>1, <1>2

\* Four steps end a run that does not end by itself.
LEMMA StopSteps ==
  ASSUME Next
  PROVE  \/ stopped' = stopped
         \/ /\ Stop \/ Drained \/ DrainExpires \/ StreamFails
            /\ stopped' = stopped \cup {run} /\ run' = run
            /\ phase \in {"top", "stream", "steered", "drain"} /\ phase' = "idle"
<1>1. ASSUME Stop \/ Drained \/ DrainExpires \/ StreamFails
      PROVE  /\ stopped' = stopped \cup {run} /\ run' = run
             /\ phase \in {"top", "stream", "steered", "drain"} /\ phase' = "idle"
  BY <1>1 DEF Stop, Drained, DrainExpires, StreamFails, EndRun, StopRun
<1>2. ASSUME \/ StartRun \/ AddPrompt \/ Exhaust \/ Request \/ RuleFires \/ Reply \/ HandOver
             \/ CallTools \/ Continue \/ StopWaiting
      PROVE  stopped' = stopped
  BY <1>2 DEF StartRun, AddPrompt, Exhaust, Request, RuleFires, Reply, HandOver,
       CallTools, Continue, StopWaiting
<1>3. ASSUME Steer \/ Abort \/ \E r \in Runs : RunBatch(r) PROVE stopped' = stopped
  BY <1>3 DEF Steer, Abort, RunBatch, BeginGroup, RunCall, Decide, EndCheckpoint, Answer,
       Advance, AddToolResults, EndBatch, loop
<1> QED BY <1>1, <1>2, <1>3 DEF Next, Loop

\* A run that was stopped is over.
LEMMA StoppedStep == ASSUME TypeInv, Next PROVE StoppedInv'
<1>0. /\ stopped \subseteq 1..run /\ (run \in stopped => phase = "idle")
      /\ run \in Nat /\ (phase # "idle" => run \in Runs)
  BY AgentTurnAssumption DEF TypeInv, StoppedInv, LoopInv
<1>1. CASE StartRun
  <2>1. run' = run + 1 /\ stopped' = stopped BY <1>1 DEF StartRun
  <2>2. run + 1 \notin 1..run /\ 1..run \subseteq 1..(run + 1) BY <1>0
  <2> QED BY <1>0, <2>1, <2>2 DEF StoppedInv
<1>2. CASE /\ stopped' = stopped \cup {run} /\ run' = run
           /\ phase \in {"top", "stream", "steered", "drain"} /\ phase' = "idle"
  <2>1. run \in 1..run BY <1>0, <1>2 DEF Runs
  <2> QED BY <1>0, <1>2, <2>1 DEF StoppedInv
<1>3. CASE stopped' = stopped /\ ~StartRun
  <2>1. run' = run /\ (phase = "idle" => phase' = "idle")
    <3>1. ASSUME \/ AddPrompt \/ Stop \/ Exhaust \/ Request \/ RuleFires \/ Reply \/ HandOver
                 \/ StreamFails \/ CallTools \/ Continue \/ StopWaiting \/ Drained
                 \/ DrainExpires
          PROVE  run' = run /\ phase # "idle"
      BY <3>1 DEF AddPrompt, Stop, Exhaust, Request, RuleFires, Reply, HandOver, StreamFails,
            CallTools, Continue, StopWaiting, Drained, DrainExpires, EndRun, StopRun
    <3>2. ASSUME Steer \/ Abort \/ \E q \in Runs : RunBatch(q)
          PROVE  run' = run /\ phase' = phase
      BY <3>2 DEF Steer, Abort, RunBatch, BeginGroup, RunCall, Decide, EndCheckpoint, Answer,
            Advance, AddToolResults, EndBatch, loop
    <3> QED BY <1>3, <3>1, <3>2 DEF Next, Loop
  <2> QED BY <1>0, <1>3, <2>1 DEF StoppedInv
<1> QED BY <1>1, <1>2, <1>3, StopSteps

\* What does nothing keeps every type.
LEMMA TypeStep == TypeInv /\ [Next]_vars => TypeInv'
<1> SUFFICES ASSUME TypeInv, [Next]_vars PROVE TypeInv' OBVIOUS
<1>1. WritesInv' BY NextInv DEF TypeInv
<1>2. CASE Next BY <1>1, <1>2, LoopStep, ListStep, ShapeStep, StageStep, StoppedStep DEF TypeInv
<1>3. CASE UNCHANGED vars
  BY <1>1, <1>3 DEF TypeInv, LoopInv, ListInv, ShapeInv, StageInv, StoppedInv, vars, loop
<1> QED BY <1>2, <1>3

\* So the types always hold.
LEMMA AlwaysTypeInv == Spec => []TypeInv
BY TypeInit, TypeStep, PTL DEF Spec

\* They are those of TypeOK.
LEMMA TypeInvTypes == TypeInv => TypeOK
<1> SUFFICES ASSUME TypeInv PROVE TypeOK OBVIOUS
<1>1. history \in Seq(Message_Type) /\ sent \in Seq(Message_Type)
  <2>1. Msgs \subseteq Message_Type BY DEF Msgs
  <2>2. history \in Seq(Msgs) /\ sent \in Seq(Msgs) BY DEF TypeInv, ListInv
  <2> HIDE DEF Msgs
  <2> QED BY <2>1, <2>2
<1>2. batch \in [Runs -> BatchRecords] /\ asked \in [Runs -> Nat]
      /\ \A r \in Runs : batch[r].step \in [1..Len(batch[r].tools) -> Steps]
  BY DEF TypeInv, WritesInv, BatchType
<1>3. ASSUME NEW r \in Runs
      PROVE  batch[r] \in BatchStates /\ batch[r].begun <= Len(batch[r].tools)
             /\ batch[r].turn <= MaxTurns[r]
             /\ DOMAIN batch[r].tools = 1..Len(batch[r].tools)
  <2>1. batch[r] \in BatchRecords BY <1>2
  <2>2. /\ batch[r].tools \in {<<>>} \cup Batches /\ batch[r].turn <= MaxTurns[r]
        /\ batch[r].begun <= Len(batch[r].tools)
    BY DEF TypeInv, ShapeInv
  <2>3. batch[r] \in BatchStates BY <2>1, <2>2 DEF BatchRecords, BatchStates
  <2>4. batch[r].tools \in Seq(Tools) BY <2>1 DEF BatchRecords
  <2> QED BY <2>2, <2>3, <2>4
<1>4. batch \in [Runs -> BatchStates] BY <1>2, <1>3
<1>5. stopped \subseteq Runs
  <2>1. stopped \subseteq 1..run /\ run \in 0..MaxRuns
    BY DEF TypeInv, StoppedInv, LoopInv
  <2> QED BY <2>1, AgentTurnAssumption DEF Runs
<1> QED BY <1>1, <1>2, <1>3, <1>4, <1>5 DEF TypeOK, TypeInv, LoopInv

\* Whatever comes late, the list, the batches and the counters stay in their
\* bounds.
THEOREM TypeCorrect == Spec => []TypeOK
BY AlwaysTypeInv, TypeInvTypes, PTL


-----------------------------------------------------------------------------
(***************************************************************************)
(* Calls and their answers.                                                *)
(*                                                                         *)
(* No call is made twice, because its id tells the run and the turn        *)
(* (CallInv).  What the last request told of a call, the list still says   *)
(* (SentInv).  The calls of the batch that runs stand in the list without  *)
(* an answer (OpenInv).                                                    *)
(***************************************************************************)
\* The turn this call was made in is past, or has left the model.
Spent(id) ==
  \/ id[1] < run
  \/ id[1] = run /\ id[2] < turn
  \/ id[1] = run /\ id[2] = turn /\ phase \notin {"init", "top", "stream"}

CallInv ==
  /\ CallsOnce(history)
  /\ \A id \in CallsOf(history) : Spent(id)
  /\ \A m \in ToSet(history) : m.role = "tool" => m.id \in CallIds /\ Spent(m.id)

SentInv ==
  \A m \in ToSet(sent) : m.role = "tool" =>
    /\ m.id \in CallsOf(history) /\ IsAnswered(history, m.id)
    /\ FirstAnswer(history, m.id).kind = m.kind

OpenInv ==
  run \in Runs /\ batch[run].stage = "running" /\ phase # "idle" =>
    \A i \in DOMAIN batch[run].tools :
      /\ Id(run, batch[run].turn, i) \in CallsOf(history)
      /\ ~IsAnswered(history, Id(run, batch[run].turn, i))

AnswerInv == CallInv /\ SentInv /\ OpenInv

\* Only the three parts of an id matter: a spent call stays spent.
LEMMA SpentStays ==
  ASSUME TypeInv, Next, NEW id, id[1] \in Nat, id[2] \in Nat, Spent(id)
  PROVE  Spent(id)'
<1>0. run \in Nat /\ turn \in Nat BY AgentTurnAssumption DEF TypeInv, LoopInv
<1>1. CASE StartRun
  <2>1. run' = run + 1 BY <1>1 DEF StartRun
  <2> QED BY <1>0, <2>1 DEF Spent
<1>2. CASE UNCHANGED <<run, turn, phase>> BY <1>2 DEF Spent
<1>3. CASE \/ run' = run /\ turn' = turn + 1
           \/ run' = run /\ turn' = turn /\ phase' \notin {"init", "top", "stream"}
  BY <1>0, <1>3 DEF Spent
<1>4. CASE AddPrompt \/ Request
  <2>1. UNCHANGED <<run, turn>> /\ phase \in {"init", "top", "stream"}
    BY <1>4 DEF AddPrompt, Request
  <2> QED BY <1>0, <2>1 DEF Spent
<1>5. ASSUME \/ Stop \/ Exhaust \/ RuleFires \/ Reply \/ HandOver \/ StreamFails \/ CallTools
             \/ Continue \/ StopWaiting \/ Drained \/ DrainExpires
      PROVE  \/ run' = run /\ turn' = turn + 1
             \/ run' = run /\ turn' = turn /\ phase' \notin {"init", "top", "stream"}
  BY <1>5 DEF Stop, Exhaust, RuleFires, Reply, HandOver, StreamFails, CallTools, Continue,
              StopWaiting, Drained, DrainExpires, EndRun, StopRun
<1>6. ASSUME Steer \/ Abort \/ \E r \in Runs : RunBatch(r)
      PROVE  UNCHANGED <<run, turn, phase>>
  BY <1>6 DEF Steer, Abort, RunBatch, BeginGroup, RunCall, Decide, EndCheckpoint, Answer,
              Advance, AddToolResults, EndBatch, loop
<1> QED BY <1>1, <1>2, <1>3, <1>4, <1>5, <1>6 DEF Next, Loop

\* What a list announces and answers are ids.
LEMMA ListIds ==
  ASSUME TypeInv
  PROVE  /\ history \in Seq(Msgs) /\ sent \in Seq(Msgs)
         /\ CallsOf(history) \subseteq CallIds
         /\ \A m \in ToSet(history) : m \in Msgs
         /\ \A id \in CallIds : id[1] \in Runs /\ id[1] \in Nat /\ id[2] \in Nat
<1>1. history \in Seq(Msgs) /\ sent \in Seq(Msgs) BY DEF TypeInv, ListInv
<1>2. CallsOf(history) \subseteq CallIds BY <1>1, MsgsAre, CallsAreOf
<1>3. ToSet(history) \subseteq Msgs BY <1>1, ToSets
<1>4. Runs \subseteq Nat BY AgentTurnAssumption DEF Runs
<1> QED BY <1>1, <1>2, <1>3, <1>4 DEF CallIds

\* A message of the user says nothing of calls.
LEMMA UserOnTop ==
  ASSUME NEW f \in Seq(Msgs), NEW u \in Msgs, u.role = "user"
  PROVE  /\ CallsOf(Append(f, u)) = CallsOf(f)
         /\ CallsOnce(Append(f, u)) <=> CallsOnce(f)
         /\ \A id : IsAnswered(Append(f, u), id) <=> IsAnswered(f, id)
         /\ \A id : IsAnswered(f, id) => FirstAnswer(Append(f, u), id) = FirstAnswer(f, id)
         /\ \A m : m.role = "tool" => (m \in ToSet(Append(f, u)) <=> m \in ToSet(f))
<1>1. u.calls = <<>> BY DEF Msgs
<1>2. ToSet(u.calls) = {} /\ DOMAIN u.calls = {} BY <1>1 DEF ToSet
<1>3. CallsOf(Append(f, u)) = CallsOf(f)
  <2>1. CallsOf(Append(f, u)) = CallsOf(f) \cup ToSet(u.calls) BY CallsOfAppend
  <2> QED BY <1>2, <2>1
<1>4. CallsOnce(Append(f, u)) <=> CallsOnce(f) BY <1>2, CallsOnceAppend
<1>5. \A id : Answers(Append(f, u), id) = Answers(f, id)
  <2>1. \A i \in DOMAIN f : i \in DOMAIN Append(f, u) /\ Append(f, u)[i] = f[i] OBVIOUS
  <2>2. \A i \in DOMAIN Append(f, u) : i \in DOMAIN f \/ Append(f, u)[i] = u OBVIOUS
  <2> QED BY <2>1, <2>2 DEF Answers
<1>6. <<u>> \in Seq(Msgs) /\ Append(f, u) = f \o <<u>> OBVIOUS
<1>7. ASSUME NEW id, IsAnswered(f, id) PROVE FirstAnswer(Append(f, u), id) = FirstAnswer(f, id)
  BY <1>6, <1>7, FirstAnswerStays
<1>8. ToSet(Append(f, u)) = ToSet(f) \cup {u} BY ToSets
<1> QED BY <1>3, <1>4, <1>5, <1>7, <1>8 DEF IsAnswered

\* Whatever happens to the list, a call in it stays, and so does its answer.
\* A request is looked at by itself.
LEMMA AnswersStay ==
  ASSUME TypeInv, Next, ~Request
  PROVE  /\ CallsOf(history) \subseteq CallsOf(history')
         /\ \A id : IsAnswered(history, id) =>
              IsAnswered(history', id) /\ FirstAnswer(history', id) = FirstAnswer(history, id)
<1>0. history \in Seq(Msgs) BY DEF TypeInv, ListInv
<1>1. ASSUME NEW g \in Seq(Msgs), history' = history \o g
      PROVE  /\ CallsOf(history) \subseteq CallsOf(history')
             /\ \A id : IsAnswered(history, id) =>
                  IsAnswered(history', id) /\ FirstAnswer(history', id) = FirstAnswer(history, id)
  <2>1. CallsOf(history \o g) = CallsOf(history) \cup CallsOf(g) BY <1>0, CallsOfAppend
  <2>2. \A id : IsAnswered(history, id) =>
          /\ IsAnswered(history \o g, id)
          /\ FirstAnswer(history \o g, id) = FirstAnswer(history, id)
    BY <1>0, FirstAnswerStays
  <2> QED BY <1>1, <2>1, <2>2
<1>2. CASE UNCHANGED <<history, sent>> BY <1>2
<1>3. CASE \E g \in Seq(Msgs) : history' = history \o g BY <1>1, <1>3
<1>4. CASE /\ phase = "stream"
           /\ \E tools \in Seq(Tools) :
                history' = Append(history, Assistant(run, Ids(run, turn, tools)))
  <2>1. PICK tools \in Seq(Tools) :
          history' = Append(history, Assistant(run, Ids(run, turn, tools)))
    BY <1>4
  <2>2. run \in Runs /\ turn \in Nat
    BY <1>4, AgentTurnAssumption DEF TypeInv, LoopInv
  <2>3. Ids(run, turn, tools) \in Seq(CallIds) BY <2>2, IdsAre
  <2> DEFINE a == Assistant(run, Ids(run, turn, tools))
  <2>4. a \in Msgs BY <2>2, <2>3, AssistantIs
  <2>5. history' = Append(history, a) BY <2>1
  <2> HIDE DEF a
  <2>6. <<a>> \in Seq(Msgs) /\ Append(history, a) = history \o <<a>> BY <1>0, <2>4
  <2> QED BY <1>1, <2>5, <2>6
<1>5. CASE history' = WithoutPrompt(history)
  <2>1. CASE WithoutPrompt(history) = history BY <1>5, <2>1
  <2>2. CASE \E f \in Seq(Msgs), u \in Msgs :
               history = Append(f, u) /\ u.role = "user" /\ WithoutPrompt(history) = f
    <3>1. PICK f \in Seq(Msgs), u \in Msgs :
            history = Append(f, u) /\ u.role = "user" /\ WithoutPrompt(history) = f
      BY <2>2
    <3> QED BY <1>5, <3>1, UserOnTop
  <2> QED BY <1>0, <2>1, <2>2, WithoutIs
<1>6. ASSUME NEW r \in Runs, history' = history \o Results(r)
      PROVE  /\ CallsOf(history) \subseteq CallsOf(history')
             /\ \A id : IsAnswered(history, id) =>
                  IsAnswered(history', id) /\ FirstAnswer(history', id) = FirstAnswer(history, id)
  BY <1>1, <1>6, ResultsAre
<1>7. CASE Merges
  <2>1. PICK f \in Seq(Msgs), u, v \in Msgs :
          /\ history = Append(f, u) /\ history' = Append(f, v)
          /\ u.role = "user" /\ v.role = "user"
    BY <1>7 DEF Merges
  <2>2. /\ CallsOf(history) = CallsOf(f)
        /\ \A id : IsAnswered(history, id) <=> IsAnswered(f, id)
        /\ \A id : IsAnswered(f, id) => FirstAnswer(history, id) = FirstAnswer(f, id)
    BY <2>1, UserOnTop
  <2>3. /\ CallsOf(history') = CallsOf(f)
        /\ \A id : IsAnswered(history', id) <=> IsAnswered(f, id)
        /\ \A id : IsAnswered(f, id) => FirstAnswer(history', id) = FirstAnswer(f, id)
    BY <2>1, UserOnTop
  <2> QED BY <2>2, <2>3
<1> QED BY <1>2, <1>3, <1>4, <1>5, <1>6, <1>7, ListSteps

\* A request repeats what the last one told.
LEMMA RequestTells ==
  ASSUME TypeInv, AnswerInv, Request
  PROVE  /\ IsClean(sent') /\ SameAnswers(sent, sent')
         /\ CallInv' /\ SentInv'
<1>0. history \in Seq(Msgs) /\ sent \in Seq(Msgs) BY DEF TypeInv, ListInv
<1> DEFINE R == Repaired(history)
<1>1. R \in Seq(Msgs) /\ IsClean(R) BY <1>0, MsgsAre, RepairedIsClean
<1>2. CallsOf(R) = CallsOf(history) /\ CallsOnce(R)
  <2>1. CallsOnce(history) BY DEF AnswerInv, CallInv
  <2> QED BY <1>0, <2>1, MsgsAre, RepairedCalls
<1>3. /\ \A m \in ToSet(R) : m.role = "tool" =>
           m.id \in CallsOf(history) /\ m = AnswerOrSynthetic(history, m.id)
      /\ \A id \in CallsOf(history) :
           IsAnswered(R, id) /\ FirstAnswer(R, id) = AnswerOrSynthetic(history, id)
  BY <1>0, MsgsAre, RepairedAnswers
<1>4. \A id : IsAnswered(history, id) => AnswerOrSynthetic(history, id) = FirstAnswer(history, id)
  BY DEF AnswerOrSynthetic
<1> HIDE DEF R
<1>5. sent' = IF IsClean(history) THEN history ELSE R
  BY DEF Request, Preflight, R
<1>6. history' = history \/ (history' = R /\ sent' = R /\ ~IsClean(history))
      \/ (history' = history /\ sent' = history)
  BY <1>5 DEF Request
<1>7. UNCHANGED <<run, turn>> /\ phase = "top" /\ phase' = "stream" BY DEF Request
<1>8. \A id : Spent(id) => Spent(id)' BY <1>7 DEF Spent
<1>9. \A m \in ToSet(sent) : m.role = "tool" =>
        /\ m.id \in CallsOf(history) /\ IsAnswered(history, m.id)
        /\ FirstAnswer(history, m.id).kind = m.kind
  BY DEF AnswerInv, SentInv
<1>10. IsClean(sent') BY <1>1, <1>5
<1>11. SameAnswers(sent, sent')
  <2> SUFFICES ASSUME NEW i \in DOMAIN sent, sent[i].role = "tool"
               PROVE  /\ IsAnswered(sent', sent[i].id)
                      /\ FirstAnswer(sent', sent[i].id).kind = sent[i].kind
    BY DEF SameAnswers
  <2>1. sent[i] \in ToSet(sent) BY DEF ToSet
  <2>2. /\ sent[i].id \in CallsOf(history) /\ IsAnswered(history, sent[i].id)
        /\ FirstAnswer(history, sent[i].id).kind = sent[i].kind
    BY <1>9, <2>1
  <2>3. /\ IsAnswered(R, sent[i].id)
        /\ FirstAnswer(R, sent[i].id) = FirstAnswer(history, sent[i].id)
    BY <1>3, <1>4, <2>2
  <2> QED BY <1>5, <2>2, <2>3
<1>12. CallInv'
  <2>1. CASE history' = history BY <1>8, <2>1 DEF AnswerInv, CallInv
  <2>2. CASE history' = R
    <3>1. \A id \in CallsOf(history) : Spent(id) BY DEF AnswerInv, CallInv
    <3>2. CallsOnce(history') /\ CallsOf(history') = CallsOf(history) BY <1>2, <2>2
    <3>3. \A m \in ToSet(history') : m.role = "tool" => m.id \in CallsOf(history)
      BY <1>3, <2>2
    <3>4. CallsOf(history) \subseteq CallIds BY ListIds
    <3> QED BY <1>8, <3>1, <3>2, <3>3, <3>4 DEF CallInv
  <2> QED BY <1>6, <2>1, <2>2
<1>13. SentInv'
  <2> SUFFICES ASSUME NEW m \in ToSet(sent'), m.role = "tool"
               PROVE  /\ m.id \in CallsOf(history') /\ IsAnswered(history', m.id)
                      /\ FirstAnswer(history', m.id).kind = m.kind
    BY DEF SentInv
  <2>1. CASE IsClean(history)
    <3>1. sent' = history /\ history' = history BY <1>5, <2>1 DEF Request
    <3>2. PICK i \in DOMAIN history : m = history[i] BY <3>1 DEF ToSet
    <3>3. CallsOnce(history) BY DEF AnswerInv, CallInv
    <3>4. m.id \in CallsOf(history) /\ FirstAnswer(history, m.id) = m
      BY <1>0, <2>1, <3>2, <3>3, MsgsAre, AnsweredOnce
    <3>5. IsAnswered(history, m.id) BY <3>2 DEF IsAnswered, Answers
    <3> QED BY <3>1, <3>4, <3>5
  <2>2. CASE ~IsClean(history)
    <3>1. sent' = R BY <1>5, <2>2
    <3>2. m.id \in CallsOf(history) /\ m = AnswerOrSynthetic(history, m.id) BY <1>3, <3>1
    <3>3. CASE history' = R
      BY <1>2, <1>3, <3>2, <3>3
    <3>4. CASE history' = history /\ ~NeedsSynthetic(history)
      <4>1. PICK y \in ToSet(history) : m.id \in ToSet(y.calls) BY <3>2 DEF CallsOf
      <4>2. PICK i \in DOMAIN history : y = history[i] BY DEF ToSet
      <4>3. PICK j \in DOMAIN history[i].calls : m.id = history[i].calls[j]
        BY <4>1, <4>2 DEF ToSet
      <4>4. IsAnswered(history, m.id) BY <3>4, <4>3 DEF NeedsSynthetic
      <4> QED BY <1>4, <3>2, <3>4, <4>4
    <3>5. history' = R \/ (history' = history /\ ~NeedsSynthetic(history))
      BY <3>1 DEF Request
    <3> QED BY <3>3, <3>4, <3>5
  <2> QED BY <2>1, <2>2
<1> QED BY <1>10, <1>11, <1>12, <1>13


\* An id is answered when a result in the list has it.
LEMMA AnsweredMeans ==
  ASSUME NEW h, NEW id
  PROVE  IsAnswered(h, id) <=> \E m \in ToSet(h) : m.role = "tool" /\ m.id = id
BY DEF IsAnswered, Answers, ToSet

\* Calls are announced once, in turns that are past.
LEMMA CallStep == ASSUME TypeInv, AnswerInv, Next, ~Request PROVE CallInv'
<1>0. history \in Seq(Msgs) /\ CallsOf(history) \subseteq CallIds
      /\ \A id \in CallIds : id[1] \in Nat /\ id[2] \in Nat
  BY ListIds
<1>1. /\ CallsOnce(history)
      /\ \A id \in CallsOf(history) : Spent(id)
      /\ \A m \in ToSet(history) : m.role = "tool" => m.id \in CallIds /\ Spent(m.id)
  BY DEF AnswerInv, CallInv
<1>2. \A id \in CallIds : Spent(id) => Spent(id)' BY <1>0, SpentStays
<1>3. ASSUME CallsOnce(history'), CallsOf(history') \subseteq CallsOf(history),
             \A m \in ToSet(history') : m.role = "tool" => m \in ToSet(history)
      PROVE  CallInv'
  BY <1>0, <1>1, <1>2, <1>3 DEF CallInv
<1>4. CASE UNCHANGED <<history, sent>>
  <2>1. history' = history BY <1>4
  <2> QED BY <1>1, <1>3, <2>1
<1>5. CASE \E g \in Seq(Msgs) :
             /\ history' = history \o g
             /\ \A i \in DOMAIN g : g[i].role # "tool" /\ g[i].calls = <<>>
  <2>1. PICK g \in Seq(Msgs) :
          /\ history' = history \o g
          /\ \A i \in DOMAIN g : g[i].role # "tool" /\ g[i].calls = <<>>
    BY <1>5
  <2>2. CallsOnce(history \o g) /\ CallsOf(history \o g) = CallsOf(history)
    BY <1>0, <1>1, <2>1, CallsOnceMore
  <2>3. ToSet(history \o g) = ToSet(history) \cup ToSet(g) BY <1>0, ToSets
  <2>4. \A m \in ToSet(g) : m.role # "tool" BY <2>1 DEF ToSet
  <2> QED BY <1>3, <2>1, <2>2, <2>3, <2>4
<1>6. CASE /\ UNCHANGED <<run, turn, sent>> /\ phase = "stream" /\ phase' \in {"idle", "tools"}
           /\ \E tools \in Seq(Tools) :
                history' = Append(history, Assistant(run, Ids(run, turn, tools)))
  <2>1. PICK tools \in Seq(Tools) :
          history' = Append(history, Assistant(run, Ids(run, turn, tools)))
    BY <1>6
  <2>2. run \in Runs /\ run \in Nat /\ turn \in Nat
    BY <1>6, AgentTurnAssumption DEF TypeInv, LoopInv, Runs
  <2> DEFINE ids == Ids(run, turn, tools)
             a == Assistant(run, ids)
  <2>3. ids \in Seq(CallIds) /\ DOMAIN ids = 1..Len(tools)
        /\ \A i \in 1..Len(tools) : ids[i] = Id(run, turn, i) /\ Id(run, turn, i) \in CallIds
    BY <2>2, IdsAre
  <2>4. a \in Msgs /\ a.role = "assistant" /\ a.calls = ids BY <2>2, <2>3, AssistantIs
  <2>5. history' = Append(history, a) BY <2>1
  <2> HIDE DEF a, ids
  <2>6. \A i \in 1..Len(tools) : ~Spent(Id(run, turn, i))
    BY <1>6, <2>2 DEF Spent, Id
  <2>7. \A x, y \in DOMAIN a.calls : a.calls[x] = a.calls[y] => x = y
    <3>1. \A x, y \in 1..Len(tools) : Id(run, turn, x) = Id(run, turn, y) => x = y
      BY DEF Id
    <3> QED BY <2>3, <2>4, <3>1
  <2>8. \A x \in DOMAIN a.calls : a.calls[x] \notin CallsOf(history)
    BY <1>1, <2>3, <2>4, <2>6
  <2>9. CallsOnce(history') BY <1>0, <1>1, <2>4, <2>5, <2>7, <2>8, CallsOnceAppend
  <2>10. CallsOf(history') = CallsOf(history) \cup ToSet(ids)
    BY <1>0, <2>4, <2>5, CallsOfAppend
  <2>11. \A id \in ToSet(ids) : Spent(id)'
    <3> SUFFICES ASSUME NEW j \in 1..Len(tools), NEW id, id = ids[j] PROVE Spent(id)'
      BY <2>3 DEF ToSet
    <3>0. id = Id(run, turn, j) BY <2>3
    <3>1. id[1] = run /\ id[2] = turn BY <3>0 DEF Id
    <3> QED BY <1>6, <2>2, <3>1 DEF Spent
  <2>12. ToSet(history') = ToSet(history) \cup {a} BY <1>0, <2>4, <2>5, ToSets
  <2>13. \A id \in CallsOf(history') : Spent(id)' BY <1>0, <1>1, <1>2, <2>10, <2>11
  <2>14. \A m \in ToSet(history') : m.role = "tool" => m.id \in CallIds /\ Spent(m.id)'
    BY <1>1, <1>2, <2>4, <2>12
  <2> QED BY <2>9, <2>13, <2>14 DEF CallInv
<1>7. CASE history' = WithoutPrompt(history)
  <2>1. CASE WithoutPrompt(history) = history BY <1>1, <1>3, <1>7, <2>1
  <2>2. CASE \E f \in Seq(Msgs), u \in Msgs :
               history = Append(f, u) /\ u.role = "user" /\ WithoutPrompt(history) = f
    <3>1. PICK f \in Seq(Msgs), u \in Msgs :
            history = Append(f, u) /\ u.role = "user" /\ WithoutPrompt(history) = f
      BY <2>2
    <3>2. CallsOnce(f) BY <1>1, <3>1, CallsOnceAppend
    <3>3. CallsOf(history) = CallsOf(f) \cup ToSet(u.calls) BY <3>1, CallsOfAppend
    <3>4. ToSet(history) = ToSet(f) \cup {u} BY <3>1, ToSets
    <3> QED BY <1>3, <1>7, <3>1, <3>2, <3>3, <3>4
  <2> QED BY <1>0, <2>1, <2>2, WithoutIs
<1>8. ASSUME NEW r \in Runs, AddToolResults(r), history' = history \o Results(r)
      PROVE  CallInv'
  <2> DEFINE g == Results(r)
             n == Len(batch[r].tools)
  <2>1. /\ g \in Seq(Msgs) /\ DOMAIN g = 1..n
        /\ \A i \in 1..n : /\ g[i].calls = <<>> /\ g[i].id = Id(r, batch[r].turn, i)
                           /\ Id(r, batch[r].turn, i) \in CallIds
    BY ResultsAre
  <2>2. /\ batch[r].stage = "running" /\ UNCHANGED <<run, turn, phase>>
    BY <1>8 DEF AddToolResults, BetweenGroups, loop
  <2>3. /\ r \in Nat /\ run \in Nat
        /\ r <= run
        /\ r = run => phase \in {"tools", "drain", "idle"} /\ batch[r].turn = turn
    <3>1. StageInv /\ run \in 0..MaxRuns BY DEF TypeInv, LoopInv
    <3>2. batch[r].stage # "done" BY <2>2
    <3> QED BY <3>1, <3>2, AgentTurnAssumption DEF StageInv, Runs
  <2>4. history' = history \o g BY <1>8
  <2> HIDE DEF g
  <2>6. CallsOnce(history') /\ CallsOf(history') = CallsOf(history)
    BY <1>0, <1>1, <2>1, <2>4, CallsOnceMore
  <2>7. ToSet(history') = ToSet(history) \cup ToSet(g) BY <1>0, <2>1, <2>4, ToSets
  <2>8. \A m \in ToSet(g) : m.id \in CallIds /\ Spent(m.id)'
    <3> SUFFICES ASSUME NEW i \in 1..n, NEW id, id = g[i].id
                 PROVE  id \in CallIds /\ Spent(id)'
      <4>1. \A m \in ToSet(g) : \E i \in 1..n : m = g[i] BY <2>1 DEF ToSet
      <4> QED BY <4>1
    <3>1. id = Id(r, batch[r].turn, i) /\ id \in CallIds BY <2>1
    <3>2. id[1] = r /\ id[2] = batch[r].turn BY <3>1 DEF Id
    <3>3. r < run \/ (r = run /\ batch[r].turn = turn /\ phase \in {"tools", "drain", "idle"})
      BY <2>3
    <3>4. CASE r < run BY <2>2, <3>1, <3>2, <3>4 DEF Spent
    <3>5. CASE r = run /\ batch[r].turn = turn /\ phase \in {"tools", "drain", "idle"}
      <4>1. id[1] = run' /\ id[2] = turn' /\ phase' \notin {"init", "top", "stream"}
        BY <2>2, <3>2, <3>5
      <4> QED BY <3>1, <4>1 DEF Spent
    <3> QED BY <3>3, <3>4, <3>5
  <2>9. \A m \in ToSet(history') : m.role = "tool" => m.id \in CallIds /\ Spent(m.id)'
    BY <1>1, <1>2, <2>7, <2>8
  <2> QED BY <1>0, <1>1, <1>2, <2>6, <2>9 DEF CallInv
<1>9. CASE Merges
  <2>1. PICK f \in Seq(Msgs), u, v \in Msgs :
          /\ history = Append(f, u) /\ history' = Append(f, v)
          /\ u.role = "user" /\ v.role = "user"
    BY <1>9 DEF Merges
  <2>2. /\ CallsOf(history) = CallsOf(f) /\ (CallsOnce(history) <=> CallsOnce(f))
        /\ \A m : m.role = "tool" => (m \in ToSet(history) <=> m \in ToSet(f))
    BY <2>1, UserOnTop
  <2>3. /\ CallsOf(history') = CallsOf(f) /\ (CallsOnce(history') <=> CallsOnce(f))
        /\ \A m : m.role = "tool" => (m \in ToSet(history') <=> m \in ToSet(f))
    BY <2>1, UserOnTop
  <2> QED BY <1>1, <1>3, <2>2, <2>3
<1> QED BY <1>4, <1>5, <1>6, <1>7, <1>8, <1>9, ListSteps

\* The last request answers a call as the list still does.
LEMMA SentStep == ASSUME TypeInv, AnswerInv, Next, ~Request PROVE SentInv'
<1>1. sent' = sent BY ListSteps
<1>2. /\ CallsOf(history) \subseteq CallsOf(history')
      /\ \A id : IsAnswered(history, id) =>
           IsAnswered(history', id) /\ FirstAnswer(history', id) = FirstAnswer(history, id)
  BY AnswersStay
<1>3. \A m \in ToSet(sent) : m.role = "tool" =>
        /\ m.id \in CallsOf(history) /\ IsAnswered(history, m.id)
        /\ FirstAnswer(history, m.id).kind = m.kind
  BY DEF AnswerInv, SentInv
<1> QED BY <1>1, <1>2, <1>3 DEF SentInv

\* The calls of the batch under way are announced and not answered.
LEMMA OpenStep == ASSUME TypeInv, AnswerInv, Next PROVE OpenInv'
<1> SUFFICES ASSUME run' \in Runs, batch'[run'].stage = "running", phase' # "idle",
                    NEW i \in DOMAIN batch'[run'].tools
             PROVE  /\ Id(run', batch'[run'].turn, i) \in CallsOf(history')
                    /\ ~IsAnswered(history', Id(run', batch'[run'].turn, i))
  BY DEF OpenInv
<1>0. history \in Seq(Msgs) /\ run \in Nat /\ turn \in Nat
  BY AgentTurnAssumption, ListIds DEF TypeInv, LoopInv
<1>1. CASE CallTools
  <2>1. PICK tools \in Batches :
          /\ tools \in Seq(Tools)
          /\ history' = Append(history, Assistant(run, Ids(run, turn, tools)))
          /\ batch'[run].tools = tools /\ batch'[run].turn = turn
    BY <1>1, BatchBegins
  <2>2. run \in Runs /\ UNCHANGED run /\ phase = "stream"
    BY <1>1, BatchBegins DEF CallTools
  <2> DEFINE ids == Ids(run, turn, tools)
             a == Assistant(run, ids)
  <2>3. ids \in Seq(CallIds) /\ DOMAIN ids = 1..Len(tools) /\ DOMAIN tools = 1..Len(tools)
        /\ \A j \in 1..Len(tools) : ids[j] = Id(run, turn, j)
    BY <1>0, <2>1, <2>2, IdsAre
  <2>4. a \in Msgs /\ a.role = "assistant" /\ a.calls = ids BY <2>2, <2>3, AssistantIs
  <2>5. history' = Append(history, a) BY <2>1
  <2> HIDE DEF a, ids
  <2>6. CallsOf(history') = CallsOf(history) \cup ToSet(ids)
    BY <1>0, <2>4, <2>5, CallsOfAppend
  <2>7. Id(run, turn, i) \in ToSet(ids) BY <2>1, <2>2, <2>3 DEF ToSet
  <2>8. ~Spent(Id(run, turn, i)) BY <1>0, <2>2 DEF Spent, Id
  <2>9. ToSet(history') = ToSet(history) \cup {a} BY <1>0, <2>4, <2>5, ToSets
  <2>10. \A m \in ToSet(history) : m.role = "tool" => Spent(m.id) BY DEF AnswerInv, CallInv
  <2>11. \A m \in ToSet(history') : m.role = "tool" => m.id # Id(run, turn, i)
    BY <2>4, <2>8, <2>9, <2>10
  <2>12. ~IsAnswered(history', Id(run, turn, i)) BY <2>11, AnsweredMeans
  <2> QED BY <2>1, <2>2, <2>6, <2>7, <2>12
<1>2. CASE ~CallTools
  <2>1. \A q \in Runs : OldBatch(q) BY <1>2, BatchesGoOn
  <2>2. CASE StartRun
    <3>1. run' = run + 1 BY <2>2 DEF StartRun
    <3>2. batch[run'].stage = "running" BY <2>1 DEF OldBatch
    <3>3. run' <= run BY <3>2 DEF TypeInv, StageInv
    <3> QED BY <1>0, <3>1, <3>3
  <2>3. CASE ~StartRun
    <3>1. run' = run /\ phase # "idle"
      <4>1. ASSUME \/ AddPrompt \/ Stop \/ Exhaust \/ Request \/ RuleFires \/ Reply \/ HandOver
                   \/ StreamFails \/ Continue \/ StopWaiting \/ Drained \/ DrainExpires
            PROVE  run' = run /\ phase # "idle"
        BY <4>1 DEF AddPrompt, Stop, Exhaust, Request, RuleFires, Reply, HandOver,
              StreamFails, Continue, StopWaiting, Drained, DrainExpires, EndRun, StopRun
      <4>2. ASSUME Steer \/ Abort \/ \E q \in Runs : RunBatch(q)
            PROVE  run' = run /\ phase' = phase
        BY <4>2 DEF Steer, Abort, RunBatch, BeginGroup, RunCall, Decide, EndCheckpoint, Answer,
              Advance, AddToolResults, EndBatch, loop
      <4> QED BY <1>2, <2>3, <4>1, <4>2 DEF Next, Loop
    <3>2. /\ batch[run].stage = "running" /\ ~AddToolResults(run)
          /\ batch'[run].tools = batch[run].tools /\ batch'[run].turn = batch[run].turn
      BY <2>1, <3>1 DEF OldBatch
    <3>3. run \in Runs BY <3>1
    <3> DEFINE id == Id(run, batch[run].turn, i)
    <3>4. id \in CallsOf(history) /\ ~IsAnswered(history, id)
      BY <3>1, <3>2, <3>3 DEF AnswerInv, OpenInv
    <3>5. phase \in {"tools", "drain"} BY <3>1, <3>2, <3>3 DEF TypeInv, StageInv
    <3>6. ~Request BY <3>5 DEF Request
    <3>7. id \in CallsOf(history') BY <3>4, <3>6, AnswersStay
    <3> HIDE DEF id
    <3>8. \A m \in ToSet(history) : m.role = "tool" => m.id # id BY <3>4, AnsweredMeans
    <3>9. \A m \in ToSet(history') : m.role = "tool" => m.id # id
      <4>1. CASE UNCHANGED <<history, sent>>
        <5>1. history' = history BY <4>1
        <5> QED BY <3>8, <5>1
      <4>2. CASE \E g \in Seq(Msgs) :
                   history' = history \o g /\ \A j \in DOMAIN g : g[j].role # "tool"
        <5>1. PICK g \in Seq(Msgs) :
                history' = history \o g /\ \A j \in DOMAIN g : g[j].role # "tool"
          BY <4>2
        <5>2. ToSet(history \o g) = ToSet(history) \cup ToSet(g) BY <1>0, ToSets
        <5>3. \A m \in ToSet(g) : m.role # "tool" BY <5>1 DEF ToSet
        <5> QED BY <3>8, <5>1, <5>2, <5>3
      <4>3. CASE history' = WithoutPrompt(history)
        <5>1. ToSet(WithoutPrompt(history)) \subseteq ToSet(history)
          <6>1. CASE WithoutPrompt(history) = history BY <6>1
          <6>2. ASSUME NEW f \in Seq(Msgs), NEW u \in Msgs, history = Append(f, u),
                       WithoutPrompt(history) = f
                PROVE  ToSet(WithoutPrompt(history)) \subseteq ToSet(history)
            BY <6>2, ToSets
          <6> QED BY <1>0, <6>1, <6>2, WithoutIs
        <5> QED BY <3>8, <4>3, <5>1
      <4>4. ASSUME NEW r \in Runs, AddToolResults(r), history' = history \o Results(r)
            PROVE  \A m \in ToSet(history') : m.role = "tool" => m.id # id
        <5>1. r # run BY <3>2, <4>4
        <5>2. Results(r) \in Seq(Msgs)
              /\ \A j \in DOMAIN Results(r) : Results(r)[j].id = Id(r, batch[r].turn, j)
          BY ResultsAre
        <5>3. ToSet(history \o Results(r)) = ToSet(history) \cup ToSet(Results(r))
          BY <1>0, <5>2, ToSets
        <5>4. \A j : Id(r, batch[r].turn, j) # id BY <5>1 DEF Id, id
        <5>5. \A m \in ToSet(Results(r)) : m.id # id BY <5>2, <5>4 DEF ToSet
        <5> QED BY <3>8, <4>4, <5>3, <5>5
      <4>5. CASE Merges
        <5>1. PICK f \in Seq(Msgs), u, v \in Msgs :
                /\ history = Append(f, u) /\ history' = Append(f, v)
                /\ u.role = "user" /\ v.role = "user"
          BY <4>5 DEF Merges
        <5>2. \A m : m.role = "tool" => (m \in ToSet(history) <=> m \in ToSet(f))
          BY <5>1, UserOnTop
        <5>3. \A m : m.role = "tool" => (m \in ToSet(history') <=> m \in ToSet(f))
          BY <5>1, UserOnTop
        <5> QED BY <3>8, <5>2, <5>3
      <4> QED BY <3>5, <3>6, <4>1, <4>2, <4>3, <4>4, <4>5, ListSteps
    <3>10. ~IsAnswered(history', id) BY <3>9, AnsweredMeans
    <3> QED BY <3>1, <3>2, <3>7, <3>10 DEF id
  <2> QED BY <2>2, <2>3
<1> QED BY <1>1, <1>2

\* Every step keeps the three.
LEMMA AnswerStep == TypeInv /\ AnswerInv /\ [Next]_vars => AnswerInv'
<1> SUFFICES ASSUME TypeInv, AnswerInv, [Next]_vars PROVE AnswerInv' OBVIOUS
<1>1. CASE Request
  <2>1. Next BY <1>1 DEF Next, Loop
  <2> QED BY <1>1, <2>1, RequestTells, OpenStep DEF AnswerInv
<1>2. CASE Next /\ ~Request BY <1>2, CallStep, SentStep, OpenStep DEF AnswerInv
<1>3. CASE UNCHANGED vars
  BY <1>3 DEF AnswerInv, CallInv, SentInv, OpenInv, Spent, vars, loop
<1> QED BY <1>1, <1>2, <1>3

\* They hold of the empty list.
LEMMA AnswerInit == Init => AnswerInv
<1> SUFFICES ASSUME Init PROVE AnswerInv OBVIOUS
<1>1. history = <<>> /\ sent = <<>> /\ phase = "idle" BY DEF Init
<1>2. ToSet(history) = {} /\ ToSet(sent) = {} BY <1>1 DEF ToSet
<1>3. CallsOf(history) = {} BY <1>2 DEF CallsOf
<1>4. CallsOnce(history) BY <1>1 DEF CallsOnce
<1> QED BY <1>1, <1>2, <1>3, <1>4 DEF AnswerInv, CallInv, SentInv, OpenInv

\* So they always hold.
LEMMA AlwaysAnswerInv == Spec => [](TypeInv /\ AnswerInv)
<1>1. Init => TypeInv /\ AnswerInv BY TypeInit, AnswerInit
<1>2. TypeInv /\ AnswerInv /\ [Next]_vars => (TypeInv /\ AnswerInv)' BY TypeStep, AnswerStep
<1> QED BY <1>1, <1>2, PTL DEF Spec

\* Every request is one a provider takes, and says of a call what the last one
\* said (resume-preflight.ts:225-340, engine.ts:329-338).
THEOREM RequestsStayTrue == Spec => RequestsAgree
<1>1. ASSUME TypeInv, AnswerInv, Next, sent' # sent
      PROVE  IsClean(sent') /\ SameAnswers(sent, sent')
  <2>1. Request
    <3> SUFFICES ASSUME ~Request PROVE FALSE OBVIOUS
    <3> QED BY <1>1, ListSteps
  <2> QED BY <1>1, <2>1, RequestTells
<1>2. TypeInv /\ AnswerInv /\ [Next]_vars
        => [sent' # sent => IsClean(sent') /\ SameAnswers(sent, sent')]_sent
  BY <1>1 DEF vars
<1> QED BY <1>2, AlwaysAnswerInv, PTL DEF Spec, RequestsAgree


-----------------------------------------------------------------------------
\* A batch that takes the guidance gives it to a result the model is told.
LEMMA GuidanceIsTold ==
  ASSUME TypeInv, AnswerInv, Next, NEW r \in Runs, AddToolResults(r), Drains(r)
  PROVE  \E m \in ToSet(Preflight(history')) :
           m.guided /\ m.role = "tool" /\ m.id[1] = run /\ ~IsAnswered(history, m.id)
<1>0. history \in Seq(Msgs) BY ListIds
<1> DEFINE g == Results(r)
           k == batch[r].begun
           id == Id(r, batch[r].turn, k)
           n == Len(batch[r].tools)
<1>1. r = run /\ r \notin aborted /\ k > 0 BY DEF Drains, Listens
<1>2. batch[r].stage = "running" /\ history' = history \o g
  BY DEF AddToolResults, BetweenGroups
<1>3. phase # "idle" BY <1>1, <1>2 DEF TypeInv, StageInv, LoopInv
<1>4. k \in 1..n /\ DOMAIN batch[r].tools = 1..n
  <2>1. batch[r] \in BatchRecords BY DEF TypeInv, WritesInv, BatchType
  <2>2. k \in Nat /\ batch[r].tools \in Seq(Tools) BY <2>1 DEF BatchRecords
  <2>3. k <= n BY DEF TypeInv, ShapeInv
  <2>4. n \in Nat /\ DOMAIN batch[r].tools = 1..n BY <2>2
  <2> HIDE DEF k, n
  <2> QED BY <1>1, <2>2, <2>3, <2>4
<1>5. id \in CallsOf(history) /\ ~IsAnswered(history, id)
  <2>1. \A i \in DOMAIN batch[run].tools :
          /\ Id(run, batch[run].turn, i) \in CallsOf(history)
          /\ ~IsAnswered(history, Id(run, batch[run].turn, i))
    BY <1>1, <1>2, <1>3 DEF AnswerInv, OpenInv
  <2> QED BY <1>1, <1>4, <2>1
<1>6. /\ g \in Seq(Msgs) /\ DOMAIN g = 1..n
      /\ \A i \in 1..n : /\ g[i].role = "tool" /\ g[i].id = Id(r, batch[r].turn, i)
                         /\ g[i].guided = (i = k /\ Drains(r))
  BY ResultsAre
<1> DEFINE m == g[k]
<1>7. m.guided /\ m.role = "tool" /\ m.id = id
  <2>1. m.guided = (k = k /\ Drains(r)) BY <1>4, <1>6
  <2> QED BY <1>4, <1>6, <2>1
<1>8. id[1] = run BY <1>1 DEF Id
<1>9. \A j \in 1..n : g[j].id = id => j = k
  <2>1. \A j : Id(r, batch[r].turn, j) = id => j = k BY DEF Id
  <2> HIDE DEF g, id, n, k
  <2> QED BY <1>6, <2>1
<1> HIDE DEF g, n, id, k
<1>10. ToSet(history') = ToSet(history) \cup ToSet(g) BY <1>0, <1>2, <1>6, ToSets
<1>11. m \in ToSet(history') BY <1>4, <1>6, <1>10 DEF ToSet
<1>12. history' \in Seq(Msgs) BY <1>0, <1>2, <1>6, ConcatIs
<1>13. IsAnswered(history', id) BY <1>7, <1>11, AnsweredMeans
<1>14. FirstAnswer(history', id) = m
  <2>1. g \in Seq(Msgs) /\ ~IsAnswered(history, id) /\ IsAnswered(history \o g, id)
    BY <1>2, <1>5, <1>6, <1>13
  <2>2. FirstAnswer(history \o g, id) \in {g[j] : j \in Answers(g, id)}
    BY <1>0, <2>1, FirstAnswerComes
  <2>3. PICK l \in Answers(g, id) : FirstAnswer(history \o g, id) = g[l] BY <2>2
  <2>4. l \in 1..n /\ g[l].id = id BY <1>6 DEF Answers
  <2> QED BY <1>2, <1>9, <2>3, <2>4
<1>15. m \in ToSet(Preflight(history'))
  <2>1. CASE IsClean(history') BY <1>11, <2>1 DEF Preflight
  <2>2. CASE ~IsClean(history')
    <3>1. CallsOf(history \o g) = CallsOf(history) \cup CallsOf(g) BY <1>0, <1>6, CallsOfAppend
    <3>2. id \in CallsOf(history') BY <1>2, <1>5, <3>1
    <3>3. PICK y \in ToSet(history') : y.role = "assistant" /\ id \in ToSet(y.calls)
      BY <1>12, <3>2, MsgsAre, CallsAreOf
    <3>4. m = AnswerOrSynthetic(history', id) BY <1>13, <1>14 DEF AnswerOrSynthetic
    <3>5. StandsFor(history', y, m) BY <3>3, <3>4 DEF StandsFor
    <3>6. m \in ToSet(Repaired(history')) BY <1>12, <3>3, <3>5, MsgsAre, RepairedHolds
    <3> QED BY <2>2, <3>6 DEF Preflight
  <2> QED BY <2>1, <2>2
<1> HIDE DEF m
<1> QED BY <1>5, <1>7, <1>8, <1>15

\* Guidance the buffer loses is told, handed over, or dropped with its run
\* (tool-execution.ts:500-512, turn-orchestrator.ts:1095-1105).
THEOREM GuidanceIsKept == Spec => GuidanceArrives
<1>1. ASSUME TypeInv, AnswerInv, Next, guidance, ~guidance'
      PROVE  \/ run' # run \/ phase' = "steered"
             \/ \E m \in ToSet(Preflight(history')) :
                  m.guided /\ m.role = "tool" /\ m.id[1] = run
                  /\ ~IsAnswered(history, m.id)
  <2>1. CASE StartRun
    <3>1. run' = run + 1 BY <2>1 DEF StartRun
    <3>2. run \in Nat BY <1>1, AgentTurnAssumption DEF TypeInv, LoopInv, Runs
    <3> QED BY <3>1, <3>2
  <2>2. CASE Reply BY <1>1, <2>2 DEF Reply
  <2>3. ASSUME NEW r \in Runs, AddToolResults(r)
        PROVE  \E m \in ToSet(Preflight(history')) :
                  m.guided /\ m.role = "tool" /\ m.id[1] = run
                  /\ ~IsAnswered(history, m.id)
    <3>1. Drains(r) BY <1>1, <2>3 DEF AddToolResults
    <3> QED BY <1>1, <2>3, <3>1, GuidanceIsTold
  <2>4. ASSUME \/ Steer \/ Abort \/ AddPrompt \/ Stop \/ Exhaust \/ Request \/ RuleFires \/ HandOver
               \/ StreamFails \/ CallTools \/ Continue \/ StopWaiting \/ Drained \/ DrainExpires
        PROVE  FALSE
    BY <1>1, <2>4 DEF Steer, Abort, AddPrompt, Stop, Exhaust, Request, RuleFires, HandOver,
         StreamFails, CallTools, Continue, StopWaiting, Drained, DrainExpires
  <2>5. ASSUME NEW r \in Runs, RunBatch(r), ~AddToolResults(r) PROVE FALSE
    BY <1>1, <2>5 DEF RunBatch, BeginGroup, RunCall, Decide, EndCheckpoint, Answer, Advance, EndBatch
  <2> QED BY <1>1, <2>1, <2>2, <2>3, <2>4, <2>5 DEF Next, Loop
<1>2. ASSUME TypeInv, Next, phase = "steered", phase' # "steered"
      PROVE  run \in aborted \/ Last(history').guided
  <2>1. HandOver \/ Stop
    <3>1. ASSUME \/ StartRun \/ AddPrompt \/ Exhaust \/ Request \/ RuleFires \/ Reply
                 \/ StreamFails \/ CallTools \/ Continue \/ StopWaiting \/ Drained \/ DrainExpires
          PROVE  FALSE
      BY <1>2, <3>1 DEF StartRun, AddPrompt, Exhaust, Request, RuleFires, Reply,
           StreamFails, CallTools, Continue, StopWaiting, Drained, DrainExpires
    <3>2. ASSUME Steer \/ Abort \/ \E r \in Runs : RunBatch(r) PROVE FALSE
      BY <1>2, <3>2 DEF Steer, Abort, RunBatch, BeginGroup, RunCall, Decide, EndCheckpoint, Answer,
                  Advance, AddToolResults, EndBatch, loop
    <3> QED BY <1>2, <3>1, <3>2 DEF Next, Loop
  <2>2. CASE Stop BY <2>2 DEF Stop
  <2>3. CASE HandOver
    <3>1. run \in Runs /\ history \in Seq(Msgs) BY <1>2, ListIds DEF TypeInv, LoopInv
    <3>2. history' = Reminded(history, run, TRUE) BY <2>3 DEF HandOver
    <3>3. PICK f \in Seq(Msgs), v \in Msgs : history' = Append(f, v) /\ v.guided
      BY <3>1, <3>2, RemindedIs
    <3>4. Last(history') = v BY <3>3 DEF Last
    <3> QED BY <3>3, <3>4
  <2> QED BY <2>1, <2>2, <2>3
<1>3. TypeInv /\ AnswerInv /\ [Next]_vars =>
        [/\ guidance /\ ~guidance' =>
              \/ run' # run \/ phase' = "steered"
              \/ \E m \in ToSet(Preflight(history')) :
                   m.guided /\ m.role = "tool" /\ m.id[1] = run
                   /\ ~IsAnswered(history, m.id)
         /\ phase = "steered" /\ phase' # "steered" =>
              run \in aborted \/ Last(history').guided]_vars
  BY <1>1, <1>2
<1> QED BY <1>3, AlwaysAnswerInv, PTL DEF Spec, GuidanceArrives


-----------------------------------------------------------------------------
(***************************************************************************)
(* Prompts.  Until the run has a response its prompt is the last message   *)
(* (OnTopInv), unless a rule's reminder or an abandoned batch has covered  *)
(* it: only then does removeLastMessage take the prompt back.  After an    *)
(* empty reply a reminder or guidance becomes part of the prompt, and it   *)
(* stays where it is.                                                      *)
(***************************************************************************)
IsTop(h, r) ==
  \E f \in Seq(Msgs), p \in Msgs :
    h = Append(f, p) /\ IsPrompt(p, r) /\ \A m \in ToSet(f) : ~IsPrompt(m, r)

FreshInv ==
  \A r \in Runs : r > run \/ (r = run /\ phase = "init") => ~HasPrompt(r)

OnTopInv ==
  phase \notin {"idle", "init"} /\ ~responded /\ ~IsCovered(run) => IsTop(history, run)

AnsweredInv ==
  phase \notin {"idle", "init"} /\ responded => IsAnsweredPrompt(run)

PromptInv == FreshInv /\ OnTopInv /\ AnsweredInv /\ PromptsAreTakenBack

\* The repair leaves alone whatever is no result of a tool.
LEMMA PreflightOthers ==
  ASSUME NEW h \in Seq(Msgs), NEW m, m.role # "tool"
  PROVE  m \in ToSet(Preflight(h)) <=> m \in ToSet(h)
<1>1. m \in ToSet(Repaired(h)) <=> m \in ToSet(h) BY MsgsAre, OthersStay
<1> QED BY <1>1 DEF Preflight

\* The repair leaves the last prompt on top.
LEMMA PreflightTop ==
  ASSUME NEW h \in Seq(Msgs), NEW r, IsTop(h, r)
  PROVE  IsTop(Preflight(h), r)
<1>1. PICK f \in Seq(Msgs), p \in Msgs :
        h = Append(f, p) /\ IsPrompt(p, r) /\ \A m \in ToSet(f) : ~IsPrompt(m, r)
  BY DEF IsTop
<1>2. CASE IsClean(h) BY <1>2 DEF Preflight
<1>3. CASE ~IsClean(h)
  <2>1. Repaired(f) \in Seq(Msgs) BY MsgsAre, RepairedIsClean
  <2>2. \A m : m.role # "tool" => (m \in ToSet(Repaired(f)) <=> m \in ToSet(f))
    BY MsgsAre, OthersStay
  <2>3. \A m \in ToSet(Repaired(f)) : ~IsPrompt(m, r) BY <1>1, <2>2 DEF IsPrompt
  <2>4. p.role = "user" BY <1>1 DEF IsPrompt
  <2>5. Repaired(Append(f, p)) = Append(Repaired(f), p) BY <2>4, MsgsAre, LastStays
  <2> QED BY <1>1, <1>3, <2>1, <2>3, <2>5 DEF Preflight, IsTop
<1> QED BY <1>2, <1>3

\* A prompt that becomes longer stays on top.
LEMMA TopIsReminded ==
  ASSUME NEW h, NEW r, IsTop(h, r), NEW q, NEW g \in BOOLEAN
  PROVE  IsTop(Reminded(h, q, g), r)
<1>1. PICK f \in Seq(Msgs), p \in Msgs :
        h = Append(f, p) /\ IsPrompt(p, r) /\ \A m \in ToSet(f) : ~IsPrompt(m, r)
  BY DEF IsTop
<1>2. PICK v \in Msgs :
        /\ Reminded(Append(f, p), q, g) = Append(f, v)
        /\ v.role = "user" /\ v.from = p.from /\ v.kind = p.kind
  BY <1>1, RemindedTop DEF IsPrompt
<1>3. IsPrompt(v, r) BY <1>1, <1>2 DEF IsPrompt
<1> QED BY <1>1, <1>2, <1>3 DEF IsTop

\* A prompt on top is the message the rollback removes.
LEMMA TopIsTakenBack ==
  ASSUME NEW h, NEW r, IsTop(h, r)
  PROVE  \A m \in ToSet(WithoutPrompt(h)) : ~IsPrompt(m, r)
<1>1. PICK f \in Seq(Msgs), p \in Msgs :
        h = Append(f, p) /\ IsPrompt(p, r) /\ \A m \in ToSet(f) : ~IsPrompt(m, r)
  BY DEF IsTop
<1>2. h \in Seq(Msgs) /\ Len(h) = Len(f) + 1 /\ Len(f) \in Nat BY <1>1
<1>3. h[Len(h)] = p BY <1>1, <1>2
<1>4. Last(h).role = "user" BY <1>1, <1>3 DEF Last, IsPrompt
<1>5. SubSeq(h, 1, Len(h) - 1) = f BY <1>1, <1>2
<1>6. h # <<>> BY <1>2
<1>7. WithoutPrompt(h) = f BY <1>4, <1>5, <1>6 DEF WithoutPrompt, Front
<1> QED BY <1>1, <1>7

\* No step removes a message of the assistant, and only AddPrompt adds a prompt.
LEMMA ListGrows ==
  ASSUME TypeInv, Next
  PROVE  /\ \A m \in ToSet(history) : m.role = "assistant" => m \in ToSet(history')
         /\ \A r : HasPrompt(r)' => HasPrompt(r) \/ (AddPrompt /\ r = run)
<1> DEFINE Kept == \A m \in ToSet(history) : m.role = "assistant" => m \in ToSet(history')
           Known == \A m \in ToSet(history') : \A r : IsPrompt(m, r) =>
                      (\E p \in ToSet(history) : IsPrompt(p, r)) \/ (AddPrompt /\ r = run)
<1> SUFFICES Kept /\ Known BY DEF HasPrompt
<1>0. history \in Seq(Msgs) BY ListIds
<1>1. CASE history' = history BY <1>1
<1>2. ASSUME NEW g \in Seq(Msgs), history' = history \o g,
             \A i \in DOMAIN g : \A r : IsPrompt(g[i], r) => AddPrompt /\ r = run
      PROVE  Kept /\ Known
  <2>1. ToSet(history') = ToSet(history) \cup ToSet(g) BY <1>0, <1>2, ToSets
  <2>2. \A m \in ToSet(g) : \E i \in DOMAIN g : m = g[i] BY DEF ToSet
  <2> QED BY <1>2, <2>1, <2>2
<1>3. ASSUME NEW tools \in Seq(Tools), phase = "stream",
             history' = Append(history, Assistant(run, Ids(run, turn, tools)))
      PROVE  Kept /\ Known
  <2> DEFINE a == Assistant(run, Ids(run, turn, tools))
  <2>1. run \in Runs /\ turn \in Nat BY <1>3, AgentTurnAssumption DEF TypeInv, LoopInv
  <2>2. Ids(run, turn, tools) \in Seq(CallIds) BY <2>1, IdsAre
  <2>3. a \in Msgs /\ \A q : ~IsPrompt(a, q) BY <2>1, <2>2, AssistantIs
  <2>4. ToSet(history') = ToSet(history) \cup {a} BY <1>0, <1>3, <2>3, ToSets
  <2> HIDE DEF a
  <2> QED BY <2>3, <2>4
<1>4. CASE history' = WithoutPrompt(history)
  <2>1. CASE WithoutPrompt(history) = history BY <1>4, <2>1
  <2>2. CASE \E f \in Seq(Msgs), u \in Msgs :
              history = Append(f, u) /\ u.role = "user" /\ WithoutPrompt(history) = f
    <3>1. PICK f \in Seq(Msgs), u \in Msgs : history = Append(f, u) /\ u.role = "user" /\ history' = f
      BY <1>4, <2>2
    <3>2. ToSet(history) = ToSet(f) \cup {u} BY <3>1, ToSets
    <3> QED BY <3>1, <3>2
  <2> QED BY <1>0, <2>1, <2>2, WithoutIs
<1>5. CASE Request
  <2>1. history' = Preflight(history) \/ history' = history BY <1>5 DEF Request
  <2>2. \A m : m.role # "tool" => (m \in ToSet(Preflight(history)) <=> m \in ToSet(history))
    BY <1>0, PreflightOthers
  <2>3. \A m, r : IsPrompt(m, r) => m.role # "tool" BY DEF IsPrompt
  <2> QED BY <2>1, <2>2, <2>3
<1>6. ASSUME NEW r \in Runs, history' = history \o Results(r)
      PROVE  Kept /\ Known
  <2>1. Results(r) \in Seq(Msgs) /\ DOMAIN Results(r) = 1..Len(batch[r].tools)
        /\ \A i \in 1..Len(batch[r].tools) : Results(r)[i].role = "tool"
    BY ResultsAre
  <2>2. \A i \in DOMAIN Results(r) : \A q : ~IsPrompt(Results(r)[i], q)
    BY <2>1 DEF IsPrompt
  <2> HIDE DEF Kept, Known
  <2> QED BY <1>2, <1>6, <2>1, <2>2
<1>7. CASE Merges
  <2>1. PICK f \in Seq(Msgs), u, v \in Msgs :
          /\ history = Append(f, u) /\ history' = Append(f, v)
          /\ u.role = "user" /\ v.role = "user" /\ v.from = u.from /\ v.kind = u.kind
    BY <1>7 DEF Merges
  <2>2. ToSet(history) = ToSet(f) \cup {u} /\ ToSet(history') = ToSet(f) \cup {v}
    BY <2>1, ToSets
  <2>3. \A r : IsPrompt(v, r) => IsPrompt(u, r) BY <2>1 DEF IsPrompt
  <2> QED BY <2>1, <2>2, <2>3
<1> HIDE DEF Kept, Known
<1> QED BY <1>1, <1>2, <1>3, <1>4, <1>5, <1>6, <1>7, ListSteps


\* What a step does to the run, and to what covers a prompt.
LEMMA RunGoesOn ==
  ASSUME TypeInv, Next
  PROVE  /\ run' = run \/ (StartRun /\ run' = run + 1)
         /\ \A r \in Runs : rule'[r] >= rule[r]
         /\ abandoned \subseteq abandoned'
<1>1. rule \in [Runs -> 0..(MaxRuleRetries + 1)] BY DEF TypeInv, LoopInv
<1>2. \A r \in Runs : rule[r] \in Int BY <1>1
<1>3. CASE RuleFires
  <2>1. rule' = [rule EXCEPT ![run] = @ + 1] /\ run' = run /\ abandoned' = abandoned
    BY <1>3 DEF RuleFires
  <2>2. ASSUME NEW r \in Runs PROVE rule'[r] >= rule[r]
    <3>1. rule'[r] = rule[r] \/ rule'[r] = rule[r] + 1 BY <1>1, <2>1
    <3> QED BY <1>2, <3>1
  <2> QED BY <2>1, <2>2
<1>4. ASSUME rule' = rule PROVE \A r \in Runs : rule'[r] >= rule[r] BY <1>2, <1>4
<1>5. CASE StartRun BY <1>4, <1>5 DEF StartRun
<1>6. CASE Steer \/ Abort \/ AddPrompt \/ Stop \/ Exhaust \/ Request \/ Reply \/ HandOver
           \/ StreamFails \/ CallTools \/ Continue \/ StopWaiting \/ Drained \/ DrainExpires
  <2>1. run' = run /\ rule' = rule /\ abandoned \subseteq abandoned'
    BY <1>6 DEF Steer, Abort, AddPrompt, Stop, Exhaust, Request, Reply, HandOver,
         StreamFails, CallTools, Continue, StopWaiting, Drained, DrainExpires, EndRun, StopRun, loop
  <2> QED BY <1>4, <2>1
<1>7. ASSUME NEW r \in Runs, RunBatch(r)
      PROVE  run' = run /\ rule' = rule /\ abandoned' = abandoned
  BY <1>7 DEF RunBatch, BeginGroup, RunCall, Decide, EndCheckpoint, Answer, Advance,
       AddToolResults, EndBatch, loop
<1>8. CASE \E r \in Runs : RunBatch(r) BY <1>4, <1>7, <1>8
<1> QED BY <1>3, <1>5, <1>6, <1>8 DEF Next, Loop

\* A prompt that is answered or covered stays so.
LEMMA AnsweredStays ==
  ASSUME TypeInv, Next, NEW r \in Runs
  PROVE  /\ IsAnsweredPrompt(r) => IsAnsweredPrompt(r)'
         /\ IsCovered(r) => IsCovered(r)'
<1>1. IsAnsweredPrompt(r) => IsAnsweredPrompt(r)' BY ListGrows DEF IsAnsweredPrompt
<1>2. rule'[r] >= rule[r] /\ abandoned \subseteq abandoned' BY RunGoesOn
<1>3. rule[r] \in Int /\ rule'[r] \in Int
  <2>1. LoopInv' BY LoopStep
  <2> QED BY <2>1 DEF TypeInv, LoopInv
<1>4. IsCovered(r) => IsCovered(r)' BY <1>2, <1>3 DEF IsCovered
<1> QED BY <1>1, <1>4

\* The prompt of a run to come is not in the list.
LEMMA FreshStep == ASSUME TypeInv, PromptInv, Next PROVE FreshInv'
<1> SUFFICES ASSUME NEW r \in Runs, r > run' \/ (r = run' /\ phase' = "init"),
                    HasPrompt(r)'
             PROVE  FALSE
  BY DEF FreshInv
<1>0. run \in Nat /\ r \in Nat BY AgentTurnAssumption DEF TypeInv, LoopInv, Runs
<1>1. HasPrompt(r) \/ (AddPrompt /\ r = run) BY ListGrows
<1>2. ~AddPrompt \/ r # run BY <1>0 DEF AddPrompt
<1>3. ~(r > run \/ (r = run /\ phase = "init")) BY <1>1, <1>2 DEF PromptInv, FreshInv
<1>4. r = run /\ run' = run /\ phase' = "init" /\ phase # "init" BY <1>0, <1>3, RunGoesOn
<1>5. ASSUME \/ AddPrompt \/ Stop \/ Exhaust \/ Request \/ RuleFires \/ Reply \/ HandOver
             \/ StreamFails \/ CallTools \/ Continue \/ StopWaiting \/ Drained \/ DrainExpires
      PROVE  phase' # "init"
  BY <1>5 DEF AddPrompt, Stop, Exhaust, Request, RuleFires, Reply, HandOver,
       StreamFails, CallTools, Continue, StopWaiting, Drained, DrainExpires, EndRun, StopRun
<1>6. CASE StartRun BY <1>0, <1>4, <1>6 DEF StartRun
<1>7. ASSUME Steer \/ Abort \/ \E q \in Runs : RunBatch(q) PROVE phase' = phase
  BY <1>7 DEF Steer, Abort, RunBatch, BeginGroup, RunCall, Decide, EndCheckpoint, Answer, Advance,
       AddToolResults, EndBatch, loop
<1> QED BY <1>4, <1>5, <1>6, <1>7 DEF Next, Loop

\* A run that has responded has an answer to its prompt.
LEMMA AnsweredStep == ASSUME TypeInv, PromptInv, Next PROVE AnsweredInv'
<1> SUFFICES ASSUME phase' \notin {"idle", "init"}, responded'
             PROVE  IsAnsweredPrompt(run)'
  BY DEF AnsweredInv
<1>0. history \in Seq(Msgs) /\ turn \in Nat /\ (phase # "idle" => run \in Runs)
  BY ListIds, AgentTurnAssumption DEF TypeInv, LoopInv
\* The steps of a run that has responded before.
<1>1. ASSUME run' = run, phase \notin {"idle", "init"}, responded PROVE IsAnsweredPrompt(run)'
  <2>1. IsAnsweredPrompt(run) /\ run \in Runs BY <1>0, <1>1 DEF PromptInv, AnsweredInv
  <2>2. IsAnsweredPrompt(run) => IsAnsweredPrompt(run)' BY <1>1, <2>1, AnsweredStays
  <2> QED BY <2>1, <2>2
\* The steps that respond.
<1>2. ASSUME NEW calls \in Seq(CallIds), run' = run, run \in Runs,
             Assistant(run, calls) \in ToSet(history')
      PROVE  IsAnsweredPrompt(run)'
  <2>1. Assistant(run, calls).role = "assistant" /\ Assistant(run, calls).from = run
    BY <1>2, AssistantIs
  <2> QED BY <1>2, <2>1 DEF IsAnsweredPrompt
<1>3. CASE StartRun \/ Stop \/ Exhaust \/ StreamFails \/ Drained \/ DrainExpires
  BY <1>3 DEF StartRun, Stop, Exhaust, StreamFails, Drained, DrainExpires, EndRun, StopRun
<1>4. CASE AddPrompt BY <1>4 DEF AddPrompt, TypeInv, LoopInv
<1>5. CASE Request \/ StopWaiting \/ HandOver \/ Continue \/ RuleFires
  <2>1. run' = run /\ phase \in {"top", "stream", "steered", "tools"} /\ responded' = responded
    BY <1>5 DEF Request, StopWaiting, HandOver, Continue, RuleFires, EndRun, StopRun
  <2> QED BY <1>1, <2>1
<1>6. CASE CallTools
  <2>1. PICK tools \in Seq(Tools) :
          history' = Append(history, Assistant(run, Ids(run, turn, tools)))
    BY <1>6, BatchBegins
  <2>2. run \in Runs /\ run' = run BY <1>0, <1>6 DEF CallTools
  <2> DEFINE c == Ids(run, turn, tools)
             a == Assistant(run, c)
  <2>3. c \in Seq(CallIds) BY <1>0, <2>2, IdsAre
  <2>4. a \in Msgs BY <2>2, <2>3, AssistantIs
  <2>5. ToSet(Append(history, a)) = ToSet(history) \cup {a} BY <1>0, <2>4, ToSets
  <2>6. a \in ToSet(history') BY <2>1, <2>5
  <2> QED BY <1>2, <2>2, <2>3, <2>6
<1>7. CASE Reply
  <2> DEFINE a == Assistant(run, <<>>)
             h == Append(history, a)
  <2>1. run \in Runs /\ run' = run /\ phase = "stream" BY <1>0, <1>7 DEF Reply
  <2>2. <<>> \in Seq(CallIds) OBVIOUS
  <2>3. a \in Msgs /\ a.role = "assistant" BY <2>1, <2>2, AssistantIs
  <2>4. PICK replied \in {history, h} :
          /\ responded' = (responded \/ replied # history)
          /\ history' = replied \/ history' = Reminded(replied, run, FALSE)
    BY <1>7 DEF Reply
  <2>5. CASE responded BY <1>1, <2>1, <2>5
  <2>6. CASE ~responded
    <3>1. replied = h BY <2>4, <2>6
    <3> HIDE DEF a
    <3>2. h \in Seq(Msgs) /\ ToSet(h) = ToSet(history) \cup {a} BY <1>0, <2>3, ToSets
    <3>3. Last(h) = a
      <4>1. Len(h) = Len(history) + 1 /\ h[Len(history) + 1] = a BY <1>0, <2>3
      <4> QED BY <4>1 DEF Last
    <3> HIDE DEF h
    <3>4. PICK v \in Msgs : Reminded(h, run, FALSE) = Append(h, v)
      BY <2>1, <2>3, <3>3, RemindedBehind
    <3>5. ToSet(Append(h, v)) = ToSet(h) \cup {v} BY <3>2, ToSets
    <3>6. a \in ToSet(history') BY <2>4, <3>1, <3>2, <3>4, <3>5
    <3> QED BY <1>2, <2>1, <2>2, <3>6 DEF a
  <2> QED BY <2>5, <2>6
<1>8. CASE Steer \/ Abort \/ \E r \in Runs : RunBatch(r)
  <2>1. run' = run /\ phase' = phase /\ responded' = responded
    BY <1>8 DEF Steer, Abort, RunBatch, BeginGroup, RunCall, Decide, EndCheckpoint, Answer,
         Advance, AddToolResults, EndBatch, loop
  <2> QED BY <1>1, <2>1
<1> QED BY <1>3, <1>4, <1>5, <1>6, <1>7, <1>8 DEF Next, Loop


\* Until something is appended the prompt lies on top.
LEMMA TopStep == ASSUME TypeInv, PromptInv, Next PROVE OnTopInv'
<1> SUFFICES ASSUME phase' \notin {"idle", "init"}, ~responded', ~IsCovered(run)'
             PROVE  IsTop(history', run')
  BY DEF OnTopInv
<1>0. history \in Seq(Msgs) BY ListIds
<1>i. (phase # "idle" => run \in Runs) /\ (phase = "init" => ~responded)
      /\ (phase \in {"tools", "drain"} => responded)
  BY DEF TypeInv, LoopInv
<1>1. CASE StartRun \/ Stop \/ Exhaust \/ StreamFails \/ CallTools \/ Drained \/ DrainExpires
  BY <1>1 DEF StartRun, Stop, Exhaust, StreamFails, CallTools, Drained, DrainExpires, EndRun, StopRun
<1>2. CASE Continue \/ StopWaiting
  BY <1>2, <1>i DEF Continue, StopWaiting, EndRun, StopRun
<1>3. CASE AddPrompt
  <2>1. run' = run /\ phase = "init" /\ history' = Append(history, Prompt(run))
    BY <1>3 DEF AddPrompt
  <2>2. ~HasPrompt(run) BY <1>i, <2>1 DEF PromptInv, FreshInv
  <2>3. Prompt(run) \in Msgs /\ IsPrompt(Prompt(run), run) BY <1>i, <2>1, Written
  <2> QED BY <1>0, <2>1, <2>2, <2>3 DEF IsTop, HasPrompt
<1>4. CASE RuleFires
  <2>1. run' = run /\ phase = "stream" /\ rule' = [rule EXCEPT ![run] = @ + 1]
    BY <1>4 DEF RuleFires
  <2>2. run \in Runs /\ rule \in [Runs -> 0..(MaxRuleRetries + 1)]
    BY <1>i, <2>1 DEF TypeInv, LoopInv
  <2>3. rule[run] \in Nat BY <2>2, AgentTurnAssumption
  <2>4. rule'[run] = rule[run] + 1 BY <2>1, <2>2
  <2> QED BY <2>1, <2>3, <2>4 DEF IsCovered
<1>5. ASSUME run' = run, run \in Runs, phase \notin {"idle", "init"}, responded' = responded
      PROVE  IsTop(history, run)
  <2>1. IsCovered(run) => IsCovered(run)' BY <1>5, AnsweredStays
  <2> QED BY <1>5, <2>1 DEF PromptInv, OnTopInv
<1>6. CASE Request
  <2>1. run' = run /\ phase = "top" /\ responded' = responded
        /\ (history' = Preflight(history) \/ history' = history)
    BY <1>6 DEF Request
  <2>2. run \in Runs BY <1>i, <2>1
  <2>3. IsTop(history, run) BY <1>5, <2>1, <2>2
  <2>4. IsTop(Preflight(history), run) BY <1>0, <2>3, PreflightTop
  <2> QED BY <2>1, <2>3, <2>4
<1>7. ASSUME NEW r \in Runs, AddToolResults(r) PROVE FALSE
  <2>1. batch[r].stage = "running" /\ run' = run /\ phase' = phase /\ responded' = responded
        /\ abandoned' = abandoned
    BY <1>7 DEF AddToolResults, BetweenGroups, loop
  <2>2. /\ r <= run /\ (r < run => r \in abandoned)
        /\ r = run => phase \in {"tools", "drain", "idle"}
    BY <2>1 DEF TypeInv, StageInv
  <2>3. r \in Nat /\ run \in Nat /\ r >= 1 BY AgentTurnAssumption DEF TypeInv, LoopInv, Runs
  <2>4. CASE r = run BY <1>i, <2>1, <2>2, <2>4
  <2>5. CASE r < run
    <3>1. r \in 1..(run - 1) BY <2>3, <2>5
    <3>2. r \in abandoned' \cap 1..(run' - 1) BY <2>1, <2>2, <2>5, <3>1
    <3> QED BY <3>2 DEF IsCovered
  <2> QED BY <2>2, <2>3, <2>4, <2>5
<1>8. CASE Steer \/ Abort \/ \E r \in Runs : RunBatch(r) /\ ~AddToolResults(r)
  <2>1. run' = run /\ phase' = phase /\ responded' = responded /\ history' = history
    BY <1>8 DEF Steer, Abort, RunBatch, BeginGroup, RunCall, Decide, EndCheckpoint, Answer,
         Advance, EndBatch, loop
  <2> QED BY <1>5, <1>i, <2>1
<1>9. CASE Reply
  <2>1. run' = run /\ phase = "stream" BY <1>9 DEF Reply
  <2>2. PICK replied \in {history, Append(history, Assistant(run, <<>>))} :
          /\ responded' = (responded \/ replied # history)
          /\ history' = replied \/ history' = Reminded(replied, run, FALSE)
    BY <1>9 DEF Reply
  <2>3. ~responded /\ replied = history BY <2>2
  <2>4. run \in Runs /\ responded' = responded
    <3>1. responded \in BOOLEAN /\ responded' \in BOOLEAN BY <2>2 DEF TypeInv, LoopInv
    <3> QED BY <1>i, <2>1, <2>3, <3>1
  <2>5. IsTop(history, run) BY <1>5, <2>1, <2>4
  <2>6. IsTop(Reminded(history, run, FALSE), run) BY <2>5, TopIsReminded
  <2> QED BY <2>1, <2>2, <2>3, <2>5, <2>6
<1>10. CASE HandOver
  <2>1. /\ run' = run /\ phase = "steered" /\ responded' = responded
        /\ history' = Reminded(history, run, TRUE)
    BY <1>10 DEF HandOver
  <2>2. IsTop(history, run) BY <1>5, <1>i, <2>1
  <2>3. IsTop(Reminded(history, run, TRUE), run) BY <2>2, TopIsReminded
  <2> QED BY <2>1, <2>3
<1> QED BY <1>1, <1>2, <1>3, <1>4, <1>6, <1>7, <1>8, <1>9, <1>10 DEF Next, Loop

\* When a run is stopped its prompt has a response, is covered, or goes.
LEMMA EndTakesBack ==
  ASSUME TypeInv, PromptInv, Next, Stop \/ Drained \/ DrainExpires \/ StreamFails, HasPrompt(run)'
  PROVE  IsAnsweredPrompt(run)' \/ IsCovered(run)'
<1>1. /\ phase \in {"top", "stream", "steered", "drain"} /\ run \in Runs /\ run' = run
      /\ (phase = "drain" => responded) /\ history \in Seq(Msgs) /\ turn \in Nat
  BY ListIds, AgentTurnAssumption
  DEF Stop, Drained, DrainExpires, StreamFails, EndRun, StopRun, TypeInv, LoopInv
<1>2. CASE responded
  <2>1. IsAnsweredPrompt(run) BY <1>1, <1>2 DEF PromptInv, AnsweredInv
  <2> QED BY <1>1, <2>1, AnsweredStays
<1>3. CASE IsCovered(run) BY <1>1, <1>3, AnsweredStays
<1>4. CASE ~responded /\ ~IsCovered(run)
  <2>1. IsTop(history, run) BY <1>1, <1>4 DEF PromptInv, OnTopInv
  <2>2. history' # WithoutPrompt(history)
    <3>1. \A m \in ToSet(WithoutPrompt(history)) : ~IsPrompt(m, run) BY <2>1, TopIsTakenBack
    <3> QED BY <1>1, <3>1 DEF HasPrompt
  <2>3. ~(Stop \/ Drained \/ DrainExpires)
    BY <1>1, <1>4, <2>2 DEF Stop, Drained, DrainExpires, RolledBack
  <2>4. PICK tools \in Batches \cup {<<>>} :
          history' = Append(history, Assistant(run, Ids(run, turn, tools)))
    BY <1>4, <2>2, <2>3 DEF StreamFails, RolledBack
  <2>5. tools \in Seq(Tools)
    <3>1. <<>> \in Seq(Tools) OBVIOUS
    <3> QED BY <3>1, AgentTurnAssumption
  <2> DEFINE a == Assistant(run, Ids(run, turn, tools))
  <2>6. Ids(run, turn, tools) \in Seq(CallIds) BY <1>1, <2>5, IdsAre
  <2>7. a \in Msgs /\ a.role = "assistant" /\ a.from = run BY <1>1, <2>6, AssistantIs
  <2>8. history' = Append(history, a) BY <2>4
  <2> HIDE DEF a
  <2>9. ToSet(Append(history, a)) = ToSet(history) \cup {a} BY <1>1, <2>7, ToSets
  <2> QED BY <1>1, <2>7, <2>8, <2>9 DEF IsAnsweredPrompt
<1> QED BY <1>2, <1>3, <1>4

\* The roll-back finds the prompt, or what the exceptions name.
LEMMA TakenBackStep == ASSUME TypeInv, PromptInv, Next PROVE PromptsAreTakenBack'
<1> SUFFICES ASSUME NEW r, r \in stopped', HasPrompt(r)'
             PROVE  IsAnsweredPrompt(r)' \/ IsCovered(r)'
  BY DEF PromptsAreTakenBack
<1>1. CASE r \in stopped
  <2>1. r \in Runs /\ (r = run => phase = "idle")
    BY <1>1, AgentTurnAssumption DEF TypeInv, StoppedInv, LoopInv, Runs
  <2>2. HasPrompt(r) BY <2>1, ListGrows DEF AddPrompt
  <2>3. IsAnsweredPrompt(r) \/ IsCovered(r) BY <1>1, <2>2 DEF PromptInv, PromptsAreTakenBack
  <2> QED BY <2>1, <2>3, AnsweredStays
<1>2. CASE r = run /\ run' = run /\ (Stop \/ Drained \/ DrainExpires \/ StreamFails)
  <2>1. HasPrompt(run)' BY <1>2 DEF HasPrompt
  <2>2. IsAnsweredPrompt(run)' \/ IsCovered(run)' BY <1>2, <2>1, EndTakesBack
  <2> QED BY <1>2, <2>2 DEF IsAnsweredPrompt, IsCovered
<1> QED BY <1>1, <1>2, StopSteps

\* So prompts are always taken back.
LEMMA AlwaysPromptInv == Spec => []PromptInv
<1>1. Init => PromptInv
  BY DEF Init, PromptInv, FreshInv, HasPrompt, OnTopInv, AnsweredInv, PromptsAreTakenBack, ToSet
<1>2. TypeInv /\ PromptInv /\ [Next]_vars => PromptInv'
  <2>1. CASE Next
    BY <2>1, FreshStep, TopStep, AnsweredStep, TakenBackStep DEF PromptInv
  <2>2. CASE UNCHANGED vars
    BY <2>2 DEF vars, loop, PromptInv, FreshInv, OnTopInv, AnsweredInv, PromptsAreTakenBack,
         HasPrompt, IsAnsweredPrompt, IsCovered
  <2> QED BY <2>1, <2>2
<1> QED BY <1>1, <1>2, AlwaysTypeInv, PTL DEF Spec

\* A run that is aborted or fails without a response takes its prompt back, with
\* whatever became part of it, unless something lies on top of it; a run that
\* ends by itself after empty replies is not among them
\* (turn-orchestrator.ts:367-376, context.ts:166-203).
THEOREM PromptsTakenBack == Spec => []PromptsAreTakenBack
<1>1. PromptInv => PromptsAreTakenBack BY DEF PromptInv
<1> QED BY <1>1, AlwaysPromptInv, PTL
=============================================================================
