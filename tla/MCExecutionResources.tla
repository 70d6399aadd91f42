------------------------ MODULE MCExecutionResources ------------------------
(* Finite instances of ExecutionResources for TLC. *)
EXTENDS ExecutionResources

CONSTANTS k1, k2, a1, a2, e1, c1, p1

\* Two action calls and an execution that share one key; the execution has another.
MCNeeds == [t \in Users |-> IF t = a2 THEN {k1, k2} ELSE {k1}]

MCClosedBy == [c \in Closers |-> e1]
=============================================================================
