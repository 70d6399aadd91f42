----------------------- MODULE MCTriggerFlowLifecycle -----------------------
(***************************************************************************)
(* Instances of TriggerFlowLifecycle for TLC.                              *)
(***************************************************************************)
EXTENDS TriggerFlowLifecycle, TLC

\* A seal or unseal by the user meets signals, handlers, pauses, closes and the monitor,
\* but not in the same behaviour a start or a failing await of a close as well.
SealsAlone ==
    seals > 0 \/ "reopened" \in history
        => faults = 0 /\ \A x \in Starters : spc[x] = "idle"

=============================================================================
