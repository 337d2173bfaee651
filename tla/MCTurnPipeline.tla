--------------------------- MODULE MCTurnPipeline ---------------------------
\* TurnPipeline for TLC.
EXTENDS TurnPipeline
=============================================================================
