--------------------------- MODULE MCTaskDAGRuntime ---------------------------
EXTENDS TaskDAGRuntime
CONSTANTS a, b, c, d, e

\* b after the root a; d and e join b with the other root, c, and so share one signal.
TwoJoins ==
    [t \in Tasks |-> CASE t \in {a, c} -> {} [] t = b -> {a} [] t \in {d, e} -> {b, c}]
=============================================================================
