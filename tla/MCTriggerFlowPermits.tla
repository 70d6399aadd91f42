------------------------ MODULE MCTriggerFlowPermits ------------------------
(***************************************************************************)
(* TLC instances of TriggerFlowPermits: handlers as model values.  Any     *)
(* handler not used yet may be the next, so they are interchangeable, and  *)
(* the safety runs reduce by their symmetry.                               *)
(***************************************************************************)
EXTENDS TriggerFlowPermits, TLC

HandlerSymmetry == Permutations(Handlers)
=============================================================================
