------------------------- MODULE MCExecutionExchange -------------------------
EXTENDS ExecutionExchange
CONSTANTS h1, h2, r1, r2
AllModes == {"connected", "handover", "disconnected", "denied"}
=============================================================================
