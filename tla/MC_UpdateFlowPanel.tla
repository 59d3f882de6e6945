------------------------- MODULE MC_UpdateFlowPanel -------------------------
EXTENDS UpdateFlowPanel, TLC

CONSTANTS a, o1, t1

\* The agent's outgoing flow to o1 (the one the panel creates and updates)
\* and o1's flow to the agent (incoming, which the panel must not match).
MCKeys == {<<t1, a, o1>>, <<t1, o1, a>>}
=============================================================================
