---------------------------- MODULE ToolHistory ----------------------------
(***************************************************************************)
(* The message list of an agent session (src/agent/context.ts) and the     *)
(* repair every request makes of it (src/context/resume-preflight.ts): a   *)
(* provider rejects a list in which an assistant message with tool calls   *)
(* is not followed at once by one result for each of its calls.            *)
(*                                                                         *)
(* A message is a record: its role, the run it was written for, the ids of *)
(* its tool calls, and for a tool message the call it answers, how, and    *)
(* whether guidance of the user is attached.                               *)
(***************************************************************************)
EXTENDS Integers, SequencesExt

Message(role, from, calls) ==
  [role |-> role, from |-> from, calls |-> calls,
   id |-> <<>>, kind |-> "none", guided |-> FALSE]

Prompt(r)           == Message("user", r, <<>>)
Reminder(r)         == [Prompt(r) EXCEPT !.kind = "reminder"]
Assistant(r, calls) == Message("assistant", r, calls)
ToolResult(id, kind, guided) ==
  [Message("tool", 0, <<>>) EXCEPT !.id = id, !.kind = kind, !.guided = guided]

Answers(h, id) == {i \in DOMAIN h : h[i].role = "tool" /\ h[i].id = id}
IsAnswered(h, id) == Answers(h, id) # {}
\* What the list says about a call: it is read front to back.
FirstAnswer(h, id) == h[CHOOSE i \in Answers(h, id) : \A j \in Answers(h, id) : i <= j]

(***************************************************************************)
(* isToolAdjacencyCleanOai: the tool messages after an assistant message   *)
(* are its calls' answers, one each, and there are no others.              *)
(***************************************************************************)
FollowedByAnswers(h, i) ==
  LET n == Len(h[i].calls) IN
  /\ i + n <= Len(h)
  /\ \A j \in 1..n : h[i + j].role = "tool"
  /\ {h[i + j].id : j \in 1..n} = {h[i].calls[j] : j \in 1..n}
  /\ i + n < Len(h) => h[i + n + 1].role # "tool"

IsClean(h) ==
  \A i \in DOMAIN h :
    /\ h[i].role = "assistant" => FollowedByAnswers(h, i)
    /\ h[i].role = "tool" => i > 1 /\ h[i - 1].role # "user"

(***************************************************************************)
(* runResumePreflightOai: every other message stays in its place, each     *)
(* call is followed by the first answer found anywhere, or by a synthetic  *)
(* one; tool messages left over are dropped.                               *)
(***************************************************************************)
AnswerOrSynthetic(h, id) ==
  IF IsAnswered(h, id) THEN FirstAnswer(h, id) ELSE ToolResult(id, "synthetic", FALSE)

\* What stands in the repaired list for a message of the old one.
Block(h, m) ==
  IF m.role = "tool" THEN <<>>
  ELSE <<m>> \o [j \in DOMAIN m.calls |-> AnswerOrSynthetic(h, m.calls[j])]

Repaired(h) == FlattenSeq([i \in DOMAIN h |-> Block(h, h[i])])

Preflight(h) == IF IsClean(h) THEN h ELSE Repaired(h)

\* syntheticResultsInserted > 0
NeedsSynthetic(h) ==
  \E i \in DOMAIN h : \E j \in DOMAIN h[i].calls : ~IsAnswered(h, h[i].calls[j])
=============================================================================
