---- MODULE MCAgentTurn ----
\* The loop with a tool that reads and one that writes after an approval.
EXTENDS AgentTurn

CONSTANTS read, edit

MCTools == {read, edit}
MCBatches == {<<read, read, edit>>}
\* The second run meets what the first left behind, in two turns.
MCTurns == [r \in 1..MaxRuns |-> IF r = 1 THEN 1 ELSE 2]
====
