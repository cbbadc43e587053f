---------------------------- MODULE MCAgentLoop -----------------------------
(* A turn of two iterations overlapped by a run of one, over a conversation  *)
(* the application operates on twice.                                        *)
EXTENDS AgentLoop

MCSystemPrompt == [role |-> "system", text |-> "prompt"]
MCSummary == [role |-> "system", text |-> "summary"]
MCMaxIterations == [r \in Runs |-> IF r \in Turns THEN 2 ELSE 1]
\* A second operation only where the first was a snapshot; call-llm fails only
\* in the turn.
Bounded == /\ ops = 2 => snapshots # <<>>
           /\ \A l \in Loops : context[l].attempt <= 1
=============================================================================
