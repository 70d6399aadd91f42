-------------------------- MODULE MCModelRequests --------------------------
(* Finite instances of ModelRequests for TLC. *)
EXTENDS ModelRequests

\* Bound: one of the streams yields messages, the other ends, fails or is cancelled without.
\* No step of a slot depends on how many messages its request has yielded.
Talker == CHOOSE s \in Streams : TRUE
OneTalks == \A s \in Streams \ {Talker} : history[s] = 0
=============================================================================
