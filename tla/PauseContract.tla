---------------------------- MODULE PauseContract ----------------------------
(***************************************************************************)
(* What a TriggerFlow execution promises about its waits, whatever the     *)
(* order of the awaits behind it: an interrupt id goes through generations *)
(* (one per pause_for), a generation is resolved once, and the dispatch of *)
(* a resume is the only thing that can be taken back.  The stored entries  *)
(* of ExecutionInterrupts.py are the source of the states and their names. *)
(***************************************************************************)
EXTENDS Naturals

CONSTANTS
  Interrupts,
  Generations  \* numbers of the generations, 0 for none yet

VARIABLES
  wait,        \* the current generation of each interrupt and where it stands
  delivered    \* [id, gen] of the resumes that reached the graph

States == {"absent", "waiting", "claimed", "resumed", "cancelled"}
Settled == {"absent", "resumed", "cancelled"}

contractVars == <<wait, delivered>>

TypeInvariant ==
  /\ wait \in [Interrupts -> [state : States, gen : Generations]]
  /\ delivered \subseteq [id : Interrupts, gen : Generations]

Init ==
  /\ wait = [i \in Interrupts |-> [state |-> "absent", gen |-> 0]]
  /\ delivered = {}

Current(i) == [id |-> i, gen |-> wait[i].gen]

\* pause_for stores a new generation over a settled one.
Open(i) ==
  /\ wait[i].state \in Settled
  /\ \E g \in Generations : g > wait[i].gen /\ wait' = [wait EXCEPT ![i] = [state |-> "waiting", gen |-> g]]
  /\ UNCHANGED delivered

\* A wait that was never claimed is rolled back to the settled one before it.
Withdraw(i) ==
  /\ wait[i].state = "waiting"
  /\ \E s \in Settled, g \in Generations :
       g < wait[i].gen /\ wait' = [wait EXCEPT ![i] = [state |-> s, gen |-> g]]
  /\ UNCHANGED delivered

Claim(i) ==
  /\ wait[i].state = "waiting"
  /\ wait' = [wait EXCEPT ![i].state = "claimed"]
  /\ UNCHANGED delivered

Resume(i) ==
  /\ wait[i].state \in {"waiting", "claimed"}
  /\ wait' = [wait EXCEPT ![i].state = "resumed"]
  /\ UNCHANGED delivered

\* The resumed generation reaches the graph, once.
Deliver(i) ==
  /\ wait[i].state = "resumed" /\ Current(i) \notin delivered
  /\ delivered' = delivered \cup {Current(i)}
  /\ UNCHANGED wait

\* An event resumes and delivers the unclaimed waits that target it.
Answer(S) ==
  /\ S # {} /\ \A i \in S : wait[i].state = "waiting" /\ Current(i) \notin delivered
  /\ wait' = [i \in Interrupts |->
                IF i \in S THEN [wait[i] EXCEPT !.state = "resumed"] ELSE wait[i]]
  /\ delivered' = delivered \cup {Current(i) : i \in S}

\* The delivery failed: the wait is open again, unless it was replaced by now
\* or its caller gave no request id to retry with.
Fail(d) ==
  /\ d \in delivered /\ wait[d.id].gen >= d.gen
  /\ delivered' = delivered \ {d}
  /\ \/ wait[d.id] = [state |-> "resumed", gen |-> d.gen]
        /\ wait' = [wait EXCEPT ![d.id].state = "waiting"]
     \/ UNCHANGED wait

\* Cancelling is all or nothing over the unclaimed waits.
Cancel ==
  /\ \E i \in Interrupts : wait[i].state = "waiting"
  /\ wait' = [i \in Interrupts |->
                IF wait[i].state = "waiting"
                  THEN [wait[i] EXCEPT !.state = "cancelled"] ELSE wait[i]]
  /\ UNCHANGED delivered

Next ==
  \/ \E i \in Interrupts :
       Open(i) \/ Withdraw(i) \/ Claim(i) \/ Resume(i) \/ Deliver(i)
  \/ \E S \in SUBSET Interrupts : Answer(S)
  \/ \E d \in delivered : Fail(d)
  \/ Cancel

Spec == Init /\ [][Next]_contractVars
=============================================================================
