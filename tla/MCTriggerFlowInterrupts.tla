---------------------- MODULE MCTriggerFlowInterrupts ----------------------
(* Finite instances of TriggerFlowInterrupts for TLC. *)
EXTENDS TriggerFlowInterrupts, TLC

CONSTANTS i1, i2, h1, h2, h3, c1, c2, c3, r1, r2, v1, v2

SelfLoop  == [i \in Interrupts |-> "self"]
EventWait == [i \in Interrupts |-> "event"]

\* The callers are alike, and nothing makes one call: every behaviour is one in which c1
\* calls before c2, with the two exchanged or not.
InOrder == cpc[c1] = "idle" => cpc[c2] = "idle"

\* Only a close seals; nothing makes a host seal.
SealedByClose == lifecycle = "sealed" => closer.pc # "idle"

\* The chunks that run past a close's drain are those its callers resume.
DrainedInTime ==
  closer.pc \in {"drained", "refusing", "settled", "frozen", "closed"}
  => \A h \in Handlers : hpc[h] # "idle" => hl[h].parent # Nobody

Symmetry == Permutations(Handlers) \cup Permutations(Callers)
=============================================================================
