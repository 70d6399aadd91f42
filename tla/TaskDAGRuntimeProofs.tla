------------------------ MODULE TaskDAGRuntimeProofs ------------------------
(***************************************************************************)
(* For any graph, any approvals and any number of runs: the types, that no *)
(* task begins before its dependencies have results, and that a graph that *)
(* rests without an error is complete and has emitted its end.             *)
(*                                                                         *)
(* The argument: who is between reading and writing the results has the    *)
(* lock, so what it has read is still what is there, and the results only  *)
(* grow; a done event is emitted, and kept by a join, only for a recorded  *)
(* result; and only a run that found its dependencies waits for an answer. *)
(*                                                                         *)
(* A graph at rest: nobody returns before the runs it awaits, so a failure *)
(* climbs to a caller that hears it.  Otherwise every task was started     *)
(* when the last of its dependencies emitted, and a paused one was run     *)
(* again by its answer; so the least task without a result cannot exist.   *)
(* The last writer found all other results, since writers take turns.      *)
(***************************************************************************)
EXTENDS TaskDAGRuntime, FiniteSetTheorems, WellFoundedInduction, TLAPS

\* The runs that record a result have the lock, and nobody else.
LockHeld ==
    /\ lock \in Runs \cup {None}
    /\ \A r \in Runs : pc[r] \in {"locked", "written"} <=> lock = r

\* What a recording run has read is what is there, and then its result is there too.
Recording ==
    \A r \in Runs :
        /\ pc[r] = "locked" => copy[r] = results
        /\ pc[r] = "written" => Task(r) \in results

\* Joins keep events of recorded results only.
GateRecorded == \A D \in Whens : gate[D] \subseteq results

\* Only tasks that found their dependencies wait for an answer, or are being answered.
WaitersFound ==
    /\ \A t \in waiting : Deps[t] \subseteq results
    /\ \A a \in Answers : resuming[a] = "running" => Deps[Task(a)] \subseteq results

IInv == TypeOK /\ LockHeld /\ Recording /\ GateRecorded /\ WaitersFound /\ DependenciesFirst

-----------------------------------------------------------------------------
(* Runs *)

\* None is no run, and neither is an answer or kickoff.
LEMMA RunsAreRuns ==
  /\ None \notin Runs /\ Kickoff \notin Runs /\ Kickoff \notin Answers
  /\ \A r \in Runs : Task(r) \in Tasks
  /\ \A a \in Answers : a \notin Runs /\ Task(a) \in Tasks /\ Task(a) \in NeedsApproval
<1>1. MaxRuns \in Nat /\ MaxAnswers \in Nat /\ None \notin Tasks /\ NeedsApproval \subseteq Tasks
  BY GraphAssumption
<1>2. Runs \subseteq Tasks \X Nat  BY <1>1 DEF Runs
<1>3. None \notin Runs  BY <1>2, GraphAssumption
<1>4. Kickoff \notin Runs /\ Kickoff \notin Answers  BY <1>1 DEF Runs, Answers, Kickoff
<1>5. \A r \in Runs : Task(r) \in Tasks  BY DEF Runs, Task
<1>6. \A a \in Answers : Task(a) \in NeedsApproval /\ a \notin Runs  BY <1>1 DEF Runs, Answers, Task
<1> QED  BY <1>1, <1>3, <1>4, <1>5, <1>6

\* Starting tasks whose dependencies have results keeps every run where the invariant
\* wants it; c, if it is a run, stays out of the lock.
LEMMA StartKeeps ==
  ASSUME TypeOK, LockHeld, Recording, DependenciesFirst,
         NEW S \in SUBSET Tasks, NEW c \in Runs \cup {Kickoff} \cup Answers, NEW resumed,
         Started(S, c, resumed),
         \A t \in S : Deps[t] \subseteq results,
         results' = results, copy' = copy,
         \/ c \notin Runs /\ lock' = lock
         \/ c \in Runs /\ pc[c] = "written" /\ lock' = None
  PROVE  /\ pc' \in [Runs -> Steps \cup Over]
         /\ caller' \in [Runs -> Runs \cup {Kickoff} \cup Answers]
         /\ resume' \in [Runs -> BOOLEAN]
         /\ LockHeld' /\ Recording' /\ DependenciesFirst'
         /\ lock' # None => lock' \in Runs /\ pc'[lock'] \in {"locked", "written"}
<1> DEFINE new == {r \in Runs : NextRun(S, r)}
<1>1. /\ pc' = [r \in Runs |-> IF r \in new THEN "ready" ELSE IF r = c THEN "emitting" ELSE pc[r]]
      /\ caller' = [r \in Runs |-> IF r \in new THEN c ELSE caller[r]]
      /\ resume' = [r \in Runs |-> IF r \in new THEN Task(r) \in resumed ELSE resume[r]]
  BY DEF Started
<1>2. \A r \in new : pc[r] = "none" /\ r \in Runs /\ Task(r) \in S  BY DEF NextRun
<1> HIDE DEF new
<1>3. pc' \in [Runs -> Steps \cup Over]  BY <1>1 DEF TypeOK, Steps
<1>4. caller' \in [Runs -> Runs \cup {Kickoff} \cup Answers]
  BY <1>1 DEF TypeOK
<1>5. resume' \in [Runs -> BOOLEAN]
  <2>1. \A r \in Runs : (Task(r) \in resumed) \in BOOLEAN  OBVIOUS
  <2>2. \A r \in Runs : resume[r] \in BOOLEAN  BY DEF TypeOK
  <2>3. \A r \in Runs : (IF r \in new THEN Task(r) \in resumed ELSE resume[r]) \in BOOLEAN
    BY <2>1, <2>2, Zenon
  <2> QED  BY <1>1, <2>3, Zenon
<1>6. \A r \in Runs : pc'[r] \in {"locked", "written"} => pc[r] = pc'[r] /\ r # c
  BY <1>1
<1>7. \A r \in Runs : pc[r] \in {"locked", "written"} /\ r # c => pc'[r] = pc[r]
  BY <1>1, <1>2
<1>8. LockHeld'
  BY <1>6, <1>7, RunsAreRuns DEF LockHeld
<1>9. Recording'  BY <1>6 DEF Recording
<1>10. DependenciesFirst'
  BY <1>1, <1>2 DEF DependenciesFirst
<1>11. lock' # None => lock' \in Runs /\ pc'[lock'] \in {"locked", "written"}
  BY <1>8 DEF LockHeld
<1> QED  BY <1>3, <1>4, <1>5, <1>8, <1>9, <1>10, <1>11

\* A done event of a recorded result starts only tasks that have all their dependencies,
\* and the joins that keep it keep a recorded result.
LEMMA DispatchStarts ==
  ASSUME TypeOK, GateRecorded, NEW t \in results, NEW c, NEW isResume, DispatchDone(t, c, isResume),
         results' = results
  PROVE  /\ \E S \in SUBSET Tasks : \E resumed : /\ Started(S, c, resumed)
                                                 /\ \A d \in S : Deps[d] \subseteq results
         /\ gate' \in [Whens -> SUBSET Tasks]
         /\ \A D \in Whens : gate'[D] \subseteq D
         /\ GateRecorded'
<1> DEFINE events == [D \in Whens |-> IF t \in D THEN gate[D] \cup {t} ELSE gate[D]]
           joined == {j \in Joins : t \in Deps[j] /\ Opened(Deps[j], events[Deps[j]])}
           alone  == {d \in Tasks : Deps[d] = {t}}
<1>1. gate' = events /\ Started(joined \cup alone, c, IF isResume THEN alone ELSE {})
  BY DEF DispatchDone
<1>2. \A D \in Whens : events[D] \subseteq results /\ events[D] \subseteq D
  BY DEF GateRecorded, TypeOK
<1>3. joined \cup alone \subseteq Tasks  BY DEF Joins
<1>4. \A d \in joined \cup alone : Deps[d] \subseteq results
  <2>1. \A d \in joined : Deps[d] \in Whens /\ events[Deps[d]] = Deps[d]  BY DEF Opened, Whens
  <2>2. \A d \in joined : Deps[d] \subseteq results  BY <2>1, <1>2
  <2>3. \A d \in alone : Deps[d] \subseteq results  OBVIOUS
  <2> QED  BY <2>2, <2>3
<1>5. gate' \in [Whens -> SUBSET Tasks]  BY <1>1, <1>2 DEF TypeOK
<1>6. /\ \A D \in Whens : gate'[D] \subseteq D
      /\ GateRecorded'
  BY <1>1, <1>2 DEF GateRecorded
<1>7. \E S \in SUBSET Tasks : \E resumed : Started(S, c, resumed) /\ \A d \in S : Deps[d] \subseteq results
  <2> HIDE DEF events, joined, alone
  <2> QED  BY <1>1, <1>3, <1>4
<1> QED  BY <1>5, <1>6, <1>7

\* Cancelling the others leaves the lock with a run that records, if with anyone.
LEMMA CancelKeeps ==
  ASSUME TypeOK, LockHeld, Recording, DependenciesFirst, NEW c, NEW how \in Over,
         CancelOthers(c, how), results' = results, copy' = copy,
         c \in Runs => pc[c] \notin {"locked", "written"}
  PROVE  /\ pc' \in [Runs -> Steps \cup Over]
         /\ LockHeld' /\ Recording' /\ DependenciesFirst'
         /\ lock' # None => lock' \in Runs /\ pc'[lock'] \in {"locked", "written"}
<1> DEFINE gone == Awaited(c) \ {c}
<1>1. /\ pc' = [r \in Runs |-> IF r \in gone THEN "cancelled" ELSE IF r = c THEN how ELSE pc[r]]
      /\ lock' = IF lock \in gone THEN None ELSE lock
  BY DEF CancelOthers, LockAfter
<1> HIDE DEF gone
<1>2. how \notin {"locked", "written", "ready"}  BY DEF Over
<1>3. pc' \in [Runs -> Steps \cup Over]  BY <1>1 DEF TypeOK, Over
<1>4. \A r \in Runs : pc'[r] \in {"locked", "written", "ready"} => pc'[r] = pc[r] /\ r \notin gone
  BY <1>1, <1>2
<1>5. \A r \in Runs : pc[r] \in {"locked", "written"} /\ r \notin gone => pc'[r] = pc[r]
  BY <1>1
<1>6. \A r \in Runs : pc'[r] \in {"locked", "written"} <=> lock' = r
  <2> TAKE r \in Runs
  <2>1. ASSUME pc'[r] \in {"locked", "written"} PROVE lock' = r
    <3>1. pc[r] \in {"locked", "written"} /\ r \notin gone  BY <1>4, <2>1
    <3> QED  BY <3>1, <1>1 DEF LockHeld
  <2>2. ASSUME lock' = r PROVE pc'[r] \in {"locked", "written"}
    <3>1. r # None  BY RunsAreRuns
    <3>2. lock = r /\ r \notin gone  BY <3>1, <2>2, <1>1
    <3> QED  BY <3>2, <1>5 DEF LockHeld
  <2> QED  BY <2>1, <2>2
<1>7. LockHeld'  BY <1>1, <1>6 DEF LockHeld
<1>8. Recording'  BY <1>4 DEF Recording
<1>9. DependenciesFirst'  BY <1>4 DEF DependenciesFirst
<1>10. lock' # None => lock' \in Runs /\ pc'[lock'] \in {"locked", "written"}
  BY <1>6, <1>7 DEF LockHeld
<1> QED  BY <1>3, <1>7, <1>8, <1>9, <1>10

\* A join forgets its events or keeps them.
LEMMA GateShrinks ==
  ASSUME TypeOK, GateRecorded, NEW r, GateAfter(r), results' = results
  PROVE  /\ gate' \in [Whens -> SUBSET Tasks]
         /\ \A D \in Whens : gate'[D] \subseteq D
         /\ GateRecorded'
<1>1. gate' = gate \/ gate' = [gate EXCEPT ![Deps[Task(r)]] = {}]  BY DEF GateAfter
<1> QED  BY <1>1 DEF TypeOK, GateRecorded

\* A run outside the lock that moves on, still outside of it, disturbs nobody.
LEMMA MoveKeeps ==
  ASSUME TypeOK, LockHeld, Recording, DependenciesFirst,
         NEW r \in Runs, NEW step \in (Steps \cup Over) \ {"locked", "written", "ready"},
         Goes(r, step), pc[r] \notin {"locked", "written"},
         lock' = lock, results' = results, copy' = copy
  PROVE  /\ pc' \in [Runs -> Steps \cup Over]
         /\ LockHeld' /\ Recording' /\ DependenciesFirst'
         /\ lock' # None => lock' \in Runs /\ pc'[lock'] \in {"locked", "written"}
<1>1. pc' = [pc EXCEPT ![r] = step]  BY DEF Goes
<1>2. pc' \in [Runs -> Steps \cup Over]  BY <1>1 DEF TypeOK
<1>3. \A q \in Runs : pc'[q] \in {"locked", "written", "ready"} => pc'[q] = pc[q]
  BY <1>1 DEF TypeOK
<1>4. \A q \in Runs : pc[q] \in {"locked", "written"} => pc'[q] = pc[q]
  BY <1>1 DEF TypeOK
<1>5. LockHeld'  BY <1>3, <1>4 DEF LockHeld
<1>6. Recording'  BY <1>3 DEF Recording
<1>7. DependenciesFirst'  BY <1>3 DEF DependenciesFirst
<1>8. lock' # None => lock' \in Runs /\ pc'[lock'] \in {"locked", "written"}
  BY <1>5 DEF LockHeld
<1> QED  BY <1>2, <1>5, <1>6, <1>7, <1>8

-----------------------------------------------------------------------------
(* The invariant *)

LEMMA InitInv == Init => IInv
<1> SUFFICES ASSUME Init PROVE IInv  OBVIOUS
<1>1. TypeOK  BY DEF Init, TypeOK, Steps
<1>2. LockHeld  BY RunsAreRuns DEF Init, LockHeld
<1>3. Recording  BY DEF Init, Recording
<1>4. GateRecorded /\ WaitersFound  BY DEF Init, GateRecorded, WaitersFound
<1>5. DependenciesFirst  BY DEF Init, DependenciesFirst
<1> QED  BY <1>1, <1>2, <1>3, <1>4, <1>5 DEF IInv

\* The steps of kickoff and of an answer.
LEMMA CallersKeep ==
  ASSUME IInv, Kick \/ KickEnds \/ \E a \in Answers : Answer(a) \/ ResumeEnds(a)
  PROVE  IInv'
<1> USE DEF IInv
<1>1. CASE Kick
  <2>1. /\ Started(Roots, Kickoff, {}) /\ kick' = "running"
        /\ UNCHANGED <<copy, last, results, lock, gate, waiting, resuming, finals>>
    BY <1>1 DEF Kick
  <2>2. Roots \subseteq Tasks /\ \A t \in Roots : Deps[t] \subseteq results  BY DEF Roots
  <2>3. /\ pc' \in [Runs -> Steps \cup Over]
        /\ caller' \in [Runs -> Runs \cup {Kickoff} \cup Answers]
        /\ resume' \in [Runs -> BOOLEAN]
        /\ LockHeld' /\ Recording' /\ DependenciesFirst'
        /\ lock' # None => lock' \in Runs /\ pc'[lock'] \in {"locked", "written"}
    BY <2>1, <2>2, RunsAreRuns, StartKeeps
  <2>4. TypeOK'  BY <2>1, <2>3 DEF TypeOK
  <2> QED  BY <2>1, <2>3, <2>4 DEF GateRecorded, WaitersFound
<1>2. CASE KickEnds
  <2>1. kick' \in {"raised", "done"}
        /\ UNCHANGED <<pc, runVars, results, lock, gate, waiting, resuming, finals>>
    BY <1>2 DEF KickEnds
  <2>2. TypeOK'  BY <2>1 DEF TypeOK, runVars
  <2> QED
    BY <2>1, <2>2 DEF LockHeld, Recording, GateRecorded, WaitersFound, DependenciesFirst, runVars
<1>3. ASSUME NEW a \in Answers, Answer(a) PROVE IInv'
  <2> DEFINE t == Task(a)
  <2>1. /\ t \in waiting /\ waiting' = waiting \ {t}
        /\ resuming' = [resuming EXCEPT ![a] = "running"]
        /\ UNCHANGED <<copy, last, results, lock, kick, finals>>
        /\ \/ \E p \in Deps[t] : DispatchDone(p, a, TRUE)
           \/ Started(Hearers(t), a, Hearers(t)) /\ UNCHANGED gate
    BY <1>3 DEF Answer
  <2>2. t \in Tasks /\ Deps[t] \subseteq results  BY <2>1, RunsAreRuns DEF WaitersFound
  <2> HIDE DEF t
  <2>3. /\ \E S \in SUBSET Tasks : \E resumed : /\ Started(S, a, resumed)
                                                /\ \A d \in S : Deps[d] \subseteq results
        /\ gate' \in [Whens -> SUBSET Tasks]
        /\ \A D \in Whens : gate'[D] \subseteq D
        /\ GateRecorded'
    <3>1. CASE \E p \in Deps[t] : DispatchDone(p, a, TRUE)
      <4>1. PICK p \in Deps[t] : DispatchDone(p, a, TRUE)  BY <3>1
      <4>2. p \in results  BY <2>2
      <4> QED  BY <4>1, <4>2, <2>1, DispatchStarts
    <3>2. CASE Started(Hearers(t), a, Hearers(t)) /\ UNCHANGED gate
      <4>1. Hearers(t) \in SUBSET Tasks /\ \A d \in Hearers(t) : Deps[d] \subseteq results
        BY <2>2 DEF Hearers
      <4> QED  BY <3>2, <4>1, <2>1 DEF TypeOK, GateRecorded
    <3> QED  BY <2>1, <3>1, <3>2
  <2>4. PICK S \in SUBSET Tasks : \E resumed : /\ Started(S, a, resumed)
                                               /\ \A d \in S : Deps[d] \subseteq results
    BY <2>3
  <2>5. PICK resumed : Started(S, a, resumed) /\ \A d \in S : Deps[d] \subseteq results
    BY <2>4
  <2>6. /\ pc' \in [Runs -> Steps \cup Over]
        /\ caller' \in [Runs -> Runs \cup {Kickoff} \cup Answers]
        /\ resume' \in [Runs -> BOOLEAN]
        /\ LockHeld' /\ Recording' /\ DependenciesFirst'
        /\ lock' # None => lock' \in Runs /\ pc'[lock'] \in {"locked", "written"}
    BY <2>1, <2>5, RunsAreRuns, StartKeeps
  <2>7. TypeOK'  BY <2>1, <2>3, <2>6 DEF TypeOK
  <2>8. WaitersFound'  BY <2>1, <2>2 DEF WaitersFound, TypeOK, t
  <2>9. LockHeld' /\ Recording' /\ DependenciesFirst'  BY <2>6
  <2>10. GateRecorded'  BY <2>3
  <2> QED  BY <2>7, <2>8, <2>9, <2>10 DEF IInv
<1>4. ASSUME NEW a \in Answers, ResumeEnds(a) PROVE IInv'
  <2>1. /\ resuming' \in [Answers -> {"none", "running", "done", "raised"}]
        /\ \A u \in Answers : resuming'[u] = "running" => resuming[u] = "running"
        /\ UNCHANGED <<runVars, results, gate, kick, finals>>
    BY <1>4 DEF ResumeEnds, TypeOK
  <2>2. CASE UNCHANGED <<pc, lock, waiting>>
    <3>1. TypeOK'  BY <2>1, <2>2 DEF TypeOK, runVars
    <3> QED
      BY <2>1, <2>2, <3>1 DEF LockHeld, Recording, GateRecorded, WaitersFound, DependenciesFirst, runVars
  <2>3. CASE /\ resuming[a] = "running" /\ waiting' = waiting \cup {Task(a)}
             /\ resuming' = [resuming EXCEPT ![a] = "raised"]
             /\ CancelOthers(a, "raised")
    <3>1. /\ pc' \in [Runs -> Steps \cup Over]
          /\ LockHeld' /\ Recording' /\ DependenciesFirst'
          /\ lock' # None => lock' \in Runs /\ pc'[lock'] \in {"locked", "written"}
      BY <2>1, <2>3, RunsAreRuns, CancelKeeps DEF Over, runVars
    <3>2. Task(a) \in NeedsApproval /\ Deps[Task(a)] \subseteq results
      BY <2>3, RunsAreRuns DEF WaitersFound
    <3>3. TypeOK'  BY <2>1, <2>3, <3>1, <3>2 DEF TypeOK, runVars
    <3>4. WaitersFound'  BY <2>1, <2>3, <3>2 DEF WaitersFound, TypeOK
    <3> QED  BY <2>1, <3>1, <3>3, <3>4 DEF GateRecorded
  <2> QED  BY <1>4, <2>2, <2>3 DEF ResumeEnds
<1> QED  BY <1>1, <1>2, <1>3, <1>4

\* The steps of a run.
LEMMA RunKeeps ==
  ASSUME IInv, NEW r \in Runs, RunStep(r)
  PROVE  IInv'
<1> USE DEF IInv
<1> DEFINE Fine == /\ pc' \in [Runs -> Steps \cup Over]
                   /\ LockHeld' /\ Recording' /\ DependenciesFirst'
                   /\ lock' # None => lock' \in Runs /\ pc'[lock'] \in {"locked", "written"}
<1>1. CASE Begin(r)
  <2>1. UNCHANGED <<runVars, results, lock, resuming, kick, finals>>  BY <1>1 DEF Begin
  <2>2. /\ pc[r] = "ready"
        /\ Goes(r, "raised") \/ Goes(r, "working") \/ Goes(r, "failing") \/ Goes(r, "paused")
    BY <1>1 DEF Begin
  <2>3. Fine  BY <2>1, <2>2, MoveKeeps DEF Steps, Over, runVars
  <2>4. /\ gate' \in [Whens -> SUBSET Tasks] /\ \A D \in Whens : gate'[D] \subseteq D
        /\ GateRecorded'
    <3>1. UNCHANGED gate \/ GateAfter(r)  BY <1>1 DEF Begin
    <3> QED  BY <3>1, <2>1, GateShrinks DEF TypeOK, GateRecorded
  <2>5. \/ waiting' = waiting
        \/ /\ waiting' = waiting \cup {Task(r)}
           /\ Task(r) \in NeedsApproval /\ Deps[Task(r)] \subseteq results
    BY <1>1 DEF Begin
  <2>6. TypeOK'  BY <2>1, <2>3, <2>4, <2>5 DEF TypeOK, runVars
  <2>7. WaitersFound'  BY <2>1, <2>5 DEF WaitersFound
  <2> QED  BY <2>3, <2>4, <2>6, <2>7
<1>2. CASE HandlerReturns(r) \/ HandlerFails(r) \/ RecordFailure(r)
  <2>1. UNCHANGED <<runVars, results, lock, gate, waiting, resuming, kick, finals>>
    BY <1>2 DEF HandlerReturns, HandlerFails, RecordFailure
  <2>2. /\ pc[r] \in {"working", "failing"}
        /\ Goes(r, "recording") \/ Goes(r, "failing") \/ Goes(r, "raised")
    BY <1>2 DEF HandlerReturns, HandlerFails, RecordFailure
  <2>3. Fine  BY <2>1, <2>2, MoveKeeps DEF Steps, Over, runVars
  <2> QED  BY <2>1, <2>3 DEF TypeOK, runVars, GateRecorded, WaitersFound
<1>3. CASE RecordReads(r)
  <2>1. /\ pc[r] = "recording" /\ lock = None /\ lock' = r
        /\ copy' = [copy EXCEPT ![r] = results] /\ pc' = [pc EXCEPT ![r] = "locked"]
        /\ UNCHANGED <<caller, resume, last, results, gate, waiting, resuming, kick, finals>>
    BY <1>3 DEF RecordReads, MayEnter, Goes
  <2>2. \A q \in Runs : pc[q] \notin {"locked", "written"}
    BY <2>1, RunsAreRuns DEF LockHeld
  <2>3. LockHeld'  BY <2>1, <2>2 DEF LockHeld, TypeOK
  <2>4. Recording'  BY <2>1, <2>2 DEF Recording, TypeOK
  <2>5. DependenciesFirst'  BY <2>1 DEF DependenciesFirst, TypeOK
  <2>6. TypeOK'  BY <2>1 DEF TypeOK, Steps
  <2> QED  BY <2>1, <2>3, <2>4, <2>5, <2>6 DEF GateRecorded, WaitersFound
<1>4. CASE RecordWrites(r)
  <2>1. /\ pc[r] = "locked" /\ results' = copy[r] \cup {Task(r)}
        /\ pc' = [pc EXCEPT ![r] = "written"]
        /\ UNCHANGED <<runVars, lock, gate, waiting, resuming, kick, finals>>
    BY <1>4 DEF RecordWrites, Goes
  <2>2. results' = results \cup {Task(r)}  BY <2>1 DEF Recording
  <2>3. \A q \in Runs : q # r => pc[q] \notin {"locked", "written"}
    BY <2>1 DEF LockHeld
  <2>4. LockHeld'  BY <2>1, <2>3 DEF LockHeld, TypeOK
  <2>5. Recording'  BY <2>1, <2>2, <2>3 DEF Recording, TypeOK
  <2>6. DependenciesFirst'  BY <2>1, <2>2 DEF DependenciesFirst, TypeOK
  <2>7. TypeOK'  BY <2>1, <2>2, RunsAreRuns DEF TypeOK, Steps, runVars
  <2> QED  BY <2>1, <2>2, <2>4, <2>5, <2>6, <2>7 DEF GateRecorded, WaitersFound
<1>5. CASE EmitDone(r)
  <2>1. /\ pc[r] = "written" /\ lock' = None
        /\ last' = [last EXCEPT ![r] = copy[r] \cup {Task(r)} = Tasks]
        /\ DispatchDone(Task(r), r, FALSE)
        /\ UNCHANGED <<copy, results, waiting, resuming, kick, finals>>
    BY <1>5 DEF EmitDone
  <2>2. Task(r) \in results  BY <2>1 DEF Recording
  <2>3. /\ \E S \in SUBSET Tasks : \E resumed : /\ Started(S, r, resumed)
                                                /\ \A d \in S : Deps[d] \subseteq results
        /\ gate' \in [Whens -> SUBSET Tasks] /\ \A D \in Whens : gate'[D] \subseteq D
        /\ GateRecorded'
    BY <2>1, <2>2, DispatchStarts
  <2>4. PICK S \in SUBSET Tasks : \E resumed : /\ Started(S, r, resumed)
                                               /\ \A d \in S : Deps[d] \subseteq results
    BY <2>3
  <2>5. PICK resumed : Started(S, r, resumed) /\ \A d \in S : Deps[d] \subseteq results
    BY <2>4
  <2>6. /\ Fine
        /\ caller' \in [Runs -> Runs \cup {Kickoff} \cup Answers]
        /\ resume' \in [Runs -> BOOLEAN]
    BY <2>1, <2>5, StartKeeps
  <2>7. last' \in [Runs -> BOOLEAN]
    <3>1. (copy[r] \cup {Task(r)} = Tasks) \in BOOLEAN  OBVIOUS
    <3> QED  BY <2>1, <3>1 DEF TypeOK
  <2>8. TypeOK'  BY <2>1, <2>3, <2>6, <2>7 DEF TypeOK
  <2> QED  BY <2>1, <2>3, <2>6, <2>8 DEF WaitersFound
<1>6. CASE EmitReturns(r) \/ Finalize(r)
  <2>1. UNCHANGED <<runVars, results, lock, waiting, resuming, kick>>
    BY <1>6 DEF EmitReturns, Finalize
  <2>2. /\ pc[r] \in {"emitting", "ending"}
        /\ Goes(r, "ending") \/ Goes(r, "done")
        /\ UNCHANGED gate \/ GateAfter(r)
    BY <1>6 DEF EmitReturns, Finalize
  <2>3. finals' \in 0 .. 2  BY <1>6 DEF EmitReturns, Finalize, TypeOK
  <2>4. Fine  BY <2>1, <2>2, MoveKeeps DEF Steps, Over, runVars
  <2>5. /\ gate' \in [Whens -> SUBSET Tasks] /\ \A D \in Whens : gate'[D] \subseteq D
        /\ GateRecorded'
    BY <2>1, <2>2, GateShrinks DEF TypeOK, GateRecorded
  <2>6. TypeOK'  BY <2>1, <2>3, <2>4, <2>5 DEF TypeOK, runVars
  <2> QED  BY <2>1, <2>4, <2>5, <2>6 DEF WaitersFound
<1>7. CASE EmitFails(r)
  <2>1. /\ pc[r] = "emitting" /\ CancelOthers(r, "raised")
        /\ UNCHANGED <<runVars, results, gate, waiting, resuming, kick, finals>>
    BY <1>7 DEF EmitFails
  <2>2. Fine  BY <2>1, CancelKeeps DEF Over, runVars
  <2> QED  BY <2>1, <2>2 DEF TypeOK, runVars, GateRecorded, WaitersFound
<1> QED  BY <1>1, <1>2, <1>3, <1>4, <1>5, <1>6, <1>7 DEF RunStep

LEMMA Inductive == IInv /\ [Next]_vars => IInv'
<1> SUFFICES ASSUME IInv, [Next]_vars PROVE IInv'  OBVIOUS
<1>1. CASE Next
  <2>1. \/ Kick \/ KickEnds \/ \E a \in Answers : Answer(a) \/ ResumeEnds(a)
        \/ \E r \in Runs : RunStep(r)
    BY <1>1 DEF Next, Loop
  <2> QED  BY <2>1, CallersKeep, RunKeeps
<1>2. CASE UNCHANGED vars
  BY <1>2 DEF vars, runVars, IInv, TypeOK, LockHeld, Recording, GateRecorded, WaitersFound,
              DependenciesFirst
<1> QED  BY <1>1, <1>2

LEMMA Invariance == Spec => []IInv
<1> QED  BY InitInv, Inductive, PTL DEF Spec

\* Whatever runs at the same time, fails or is cancelled, no result is ever lost
\* (_record_task_success, which writes back a copy of all the results).
THEOREM ResultsStay == Spec => [][results \subseteq results']_results
<1>1. IInv /\ [Next]_vars => [results \subseteq results']_results
  <2> SUFFICES ASSUME IInv, Next, results' # results PROVE results \subseteq results'
    BY DEF vars
  <2>1. PICK r \in Runs : RunStep(r)
    BY DEF Next, Loop, Kick, KickEnds, Answer, ResumeEnds
  <2>2. RecordWrites(r)
    BY <2>1 DEF RunStep, Begin, HandlerReturns, HandlerFails, RecordFailure, RecordReads, EmitDone,
                EmitReturns, EmitFails, Finalize
  <2> QED  BY <2>2 DEF RecordWrites, IInv, Recording
<1> QED  BY <1>1, Invariance, PTL DEF Spec

\* For any graph every variable keeps its type, and the result lock is with a run that
\* records its result, whoever fails or is cancelled (_record_task_success).
THEOREM DAGTypes == Spec => []TypeOK
<1>1. IInv => TypeOK  BY DEF IInv
<1> QED  BY <1>1, Invariance, PTL

\* For any graph, any approvals and any number of runs, no task begins before all its
\* dependencies have results (run_task, _task_trigger).
THEOREM TasksInOrder == Spec => []DependenciesFirst
<1>1. IInv => DependenciesFirst  BY DEF IInv
<1> QED  BY <1>1, Invariance, PTL
-----------------------------------------------------------------------------
(* The graph at rest *)

\* A task's second run comes after its first.
NoGaps == \A r \in Runs : pc[r] # "none" => pc[<<Task(r), 1>>] # "none"

\* Whoever a run returns to has begun, and a run that awaits it is of a task it depends on.
Calling ==
    \A r \in Runs : pc[r] # "none" =>
        \/ caller[r] = Kickoff /\ kick # "none"
        \/ caller[r] \in Answers /\ resuming[caller[r]] # "none"
        \/ /\ caller[r] \in Runs /\ Task(caller[r]) \in Deps[Task(r)]
           /\ pc[caller[r]] \in {"emitting", "ending", "done", "raised", "cancelled"}

\* Who has returned without an error has nobody left below that runs or has failed.
Settled ==
    \A r \in Runs : pc[r] \notin {"none", "done", "paused"} =>
        /\ caller[r] = Kickoff => kick # "done"
        /\ caller[r] \in Answers => resuming[caller[r]] # "done"
        /\ caller[r] \in Runs => pc[caller[r]] \notin {"ending", "done"}

\* A paused task waits for its answer or has been given one, which ran the task again.
Answered ==
    /\ \A r \in Runs : pc[r] = "paused" =>
           Task(r) \in waiting \/ \E a \in Answers : Task(a) = Task(r) /\ resuming[a] # "none"
    /\ \A a \in Answers : resuming[a] # "none" =>
           \E r \in Runs : Task(r) = Task(a) /\ resume[r] /\ pc[r] \notin {"none", "paused"}

Emitted(r) == pc[r] \in {"emitting", "ending", "done"}

\* Kickoff started the roots; a done event started the tasks that wait for it alone, and a
\* join that has not begun keeps every event emitted for it and lacks another.
Reached ==
    /\ kick # "none" => \A t \in Roots : pc[<<t, 1>>] # "none"
    /\ \A r \in Runs : Emitted(r) => \A d \in Tasks : Deps[d] = {Task(r)} => pc[<<d, 1>>] # "none"
    /\ \A j \in Joins : pc[<<j, 1>>] = "none" =>
           /\ gate[Deps[j]] # Deps[j]
           /\ \A r \in Runs : Emitted(r) /\ Task(r) \in Deps[j] => Task(r) \in gate[Deps[j]]

\* Joins that share a signal begin together.
Together ==
    \A j, u \in Joins : Deps[j] = Deps[u] /\ pc[<<j, 1>>] # "none" => pc[<<u, 1>>] # "none"

\* The end of the graph is emitted by the runs that found all other results, and counted.
Ending ==
    /\ \A r \in Runs : Emitted(r) => (last[r] <=> copy[r] \cup {Task(r)} = Tasks)
    /\ \A r \in Runs : pc[r] = "ending" => last[r]
    /\ \A r \in Runs : pc[r] = "done" /\ last[r] => finals >= 1
    /\ finals >= 1 => \E r \in Runs : pc[r] = "done" /\ last[r]
    /\ finals = 2 => \E r, s \in Runs : r # s /\ pc[r] = "done" /\ last[r] /\ pc[s] = "done" /\ last[s]

\* No run has failed.
Clean == \A r \in Runs : pc[r] \notin {"raised", "cancelled"}

Wrote(r) == pc[r] = "written" \/ Emitted(r)
Read(r) == pc[r] = "locked" \/ Wrote(r)

\* Two runs of one task have recorded its result, or one has and another is about to.
Twice == \E p, q \in Runs : p # q /\ Task(p) = Task(q) /\ Read(p) /\ Read(q)

\* While nothing has failed, every result has its writer, the last one found all the others,
\* and of two writers one did not find the other, unless a task ran twice.
Written ==
    Clean =>
        /\ \A t \in results : \E r \in Runs : Wrote(r) /\ Task(r) = t
        /\ \A r \in Runs : Wrote(r) => Task(r) \in results
        /\ \A r \in Runs : Read(r) => copy[r] \subseteq results
        /\ results = Tasks => \E r \in Runs : Wrote(r) /\ copy[r] \cup {Task(r)} = Tasks
        /\ \A r, s \in Runs : Read(r) /\ Wrote(s) /\ r # s
                                /\ Task(r) \in copy[s] /\ Task(s) \in copy[r] => Twice

EInv == IInv /\ NoGaps /\ Calling /\ Settled /\ Answered /\ Reached /\ Together /\ Ending /\ Written

-----------------------------------------------------------------------------
(* Steps *)

\* Who a run that begins will return to, and where that is.
Fresh(r) ==
    \/ caller'[r] = Kickoff /\ kick' = "running"
    \/ caller'[r] \in Answers /\ resuming'[caller'[r]] = "running"
    \/ /\ caller'[r] \in Runs /\ pc'[caller'[r]] = "emitting"
       /\ Task(caller'[r]) \in Deps[Task(r)]

\* Runs begin one after the other, keep their callers and end once.
Moves ==
    /\ \A r \in Runs : pc[r] # "none" =>
           pc'[r] # "none" /\ caller'[r] = caller[r] /\ resume'[r] = resume[r]
    /\ \A r \in Runs : pc[r] \in Over => pc'[r] = pc[r]
    /\ \A r \in Runs : pc[r] \in {"emitting", "ending"} =>
           pc'[r] \in {"emitting", "ending", "done", "raised", "cancelled"}
    /\ \A r \in Runs : pc[r] = "none" /\ pc'[r] # "none" =>
           /\ pc'[r] = "ready" /\ Fresh(r)
           /\ \A k \in 1 .. r[2] - 1 : pc[<<Task(r), k>>] # "none"

\* Callers begin once, and return without an error only if all their runs have.
Returns ==
    /\ kick # "none" => kick' # "none"
    /\ \A a \in Answers : resuming[a] # "none" => resuming'[a] # "none"
    /\ \A r \in Runs : pc[r] \notin {"none", "done", "paused"} =>
           /\ caller[r] = Kickoff /\ kick' = "done" => kick = "done"
           /\ caller[r] \in Answers /\ resuming'[caller[r]] = "done" => resuming[caller[r]] = "done"
           /\ caller[r] \in Runs /\ pc'[caller[r]] \in {"ending", "done"}
                => pc[caller[r]] \in {"ending", "done"}

\* A run that pauses waits, what waits goes on waiting or is answered, and an answer runs
\* the task.
Pauses ==
    /\ \A r \in Runs : pc'[r] = "paused" =>
           pc[r] = "paused" \/ (Task(r) \in waiting' /\ ~resume[r])
    /\ \A t \in waiting : t \in waiting' \/ \E a \in Answers : Task(a) = t /\ resuming'[a] # "none"
    /\ \A a \in Answers : resuming[a] = "none" /\ resuming'[a] # "none" =>
           \E r \in Runs : Task(r) = Task(a) /\ pc'[r] = "ready" /\ resume'[r]

\* Kickoff and done events start what they have to, and joins keep their events.
Starts ==
    /\ kick = "none" /\ kick' # "none" => \A t \in Roots : pc'[<<t, 1>>] # "none"
    /\ \A r \in Runs : Emitted(r)' /\ ~Emitted(r) =>
           /\ \A d \in Tasks : Deps[d] = {Task(r)} => pc'[<<d, 1>>] # "none"
           /\ \A j \in Joins : Task(r) \in Deps[j] => Task(r) \in gate'[Deps[j]]
    /\ \A j \in Joins : pc'[<<j, 1>>] = "none" =>
           \/ gate'[Deps[j]] = gate[Deps[j]]
           \/ gate'[Deps[j]] # Deps[j] /\ gate[Deps[j]] \subseteq gate'[Deps[j]]
    /\ \A j, u \in Joins : Deps[j] = Deps[u] /\ pc[<<j, 1>>] = "none" /\ pc'[<<j, 1>>] # "none" =>
           pc'[<<u, 1>>] # "none"

Shape == Moves /\ Returns /\ Pauses /\ Starts

\* A non-empty set of numbers has a least one.
LEMMA Least ==
  ASSUME NEW S \in SUBSET Nat, S # {}
  PROVE  \E m \in S : \A k \in S : m <= k
<1> DEFINE R == {ss \in Nat \X Nat : ss[1] < ss[2]}
<1>1. IsWellFoundedOn(R, Nat)  BY NatLessThanWellFounded DEF OpToRel
<1>2. \A x, y \in Nat : <<y, x>> \in R <=> y < x  OBVIOUS
<1> HIDE DEF R
<1>3. PICK x \in S : \A y \in S : ~(<<y, x>> \in R)  BY <1>1, WFMin, Zenon
<1>4. ASSUME NEW k \in S PROVE x <= k
  <2>1. x \in Nat /\ k \in Nat  OBVIOUS
  <2>2. ~(k < x)  BY <1>2, <1>3, <2>1
  <2> QED  BY <2>1, <2>2
<1> QED  BY <1>4

\* Runs are pairs of a task and a number.
LEMMA RunPairs ==
  /\ \A t \in Tasks, k \in 1 .. MaxRuns : <<t, k>> \in Runs /\ Task(<<t, k>>) = t
  /\ \A r \in Runs : r = <<Task(r), r[2]>> /\ r[2] \in 1 .. MaxRuns
  /\ \A t \in Tasks : <<t, 1>> \in Runs /\ <<t, MaxRuns>> \in Runs
<1>1. MaxRuns \in Nat /\ MaxRuns # 0  BY GraphAssumption
<1> QED  BY <1>1 DEF Runs, Task

\* What is started for c, and in which state everything else stays.
StartsFor(S, c, resumed) ==
    /\ \A r \in Runs : pc[r] # "none" =>
           /\ pc'[r] = IF r = c THEN "emitting" ELSE pc[r]
           /\ caller'[r] = caller[r] /\ resume'[r] = resume[r]
    /\ \A r \in Runs : pc[r] = "none" /\ pc'[r] # "none" =>
           /\ pc'[r] = "ready" /\ caller'[r] = c /\ Task(r) \in S
           /\ \A k \in 1 .. r[2] - 1 : pc[<<Task(r), k>>] # "none"
    /\ \A t \in S : pc'[<<t, 1>>] # "none"
    /\ \A t \in S \cap resumed : pc[<<t, MaxRuns>>] = "none" =>
           \E r \in Runs : Task(r) = t /\ pc'[r] = "ready" /\ resume'[r]

LEMMA StartShape ==
  ASSUME TypeOK, NEW S \in SUBSET Tasks, NEW c, NEW resumed, Started(S, c, resumed),
         c \in Runs => pc[c] = "written"
  PROVE  StartsFor(S, c, resumed)
<1> DEFINE new == {r \in Runs : NextRun(S, r)}
<1>1. /\ pc' = [r \in Runs |-> IF r \in new THEN "ready" ELSE IF r = c THEN "emitting" ELSE pc[r]]
      /\ caller' = [r \in Runs |-> IF r \in new THEN c ELSE caller[r]]
      /\ resume' = [r \in Runs |-> IF r \in new THEN Task(r) \in resumed ELSE resume[r]]
  BY DEF Started
<1>2. \A r \in Runs : r \in new <=> /\ Task(r) \in S /\ pc[r] = "none"
                                    /\ \A k \in 1 .. r[2] - 1 : pc[<<Task(r), k>>] # "none"
  BY DEF NextRun
<1>3. new \subseteq Runs  OBVIOUS
<1> HIDE DEF new
<1>4. \A r \in Runs : pc[r] # "none" =>
          /\ pc'[r] = IF r = c THEN "emitting" ELSE pc[r]
          /\ caller'[r] = caller[r] /\ resume'[r] = resume[r]
  BY <1>1, <1>2
<1>5. \A r \in Runs : pc[r] = "none" /\ pc'[r] # "none" => r \in new
  BY <1>1
<1>6. \A r \in Runs : pc[r] = "none" /\ pc'[r] # "none" =>
          /\ pc'[r] = "ready" /\ caller'[r] = c /\ Task(r) \in S
          /\ \A k \in 1 .. r[2] - 1 : pc[<<Task(r), k>>] # "none"
  BY <1>1, <1>2, <1>5
<1>7. \A t \in S : pc'[<<t, 1>>] # "none"
  <2> TAKE t \in S
  <2>1. <<t, 1>> \in Runs /\ Task(<<t, 1>>) = t /\ <<t, 1>>[2] = 1  BY RunPairs DEF Task
  <2>2. CASE pc[<<t, 1>>] = "none"
    <3>1. <<t, 1>> \in new  BY <2>1, <2>2, <1>2
    <3> QED  BY <3>1, <2>1, <1>1
  <2>3. CASE pc[<<t, 1>>] # "none"  BY <2>1, <2>3, <1>4
  <2> QED  BY <2>2, <2>3
<1>8. ASSUME NEW t \in S \cap resumed, pc[<<t, MaxRuns>>] = "none"
      PROVE  \E r \in Runs : Task(r) = t /\ pc'[r] = "ready" /\ resume'[r]
  <2> DEFINE free == {k \in 1 .. MaxRuns : pc[<<t, k>>] = "none"}
  <2>1. MaxRuns \in free /\ free \in SUBSET Nat  BY <1>8, GraphAssumption
  <2>2. PICK m \in free : \A k \in free : m <= k  BY <2>1, Least
  <2>3. m \in 1 .. MaxRuns /\ pc[<<t, m>>] = "none"  BY <2>2
  <2>4. \A k \in 1 .. m - 1 : pc[<<t, k>>] # "none"
    <3> TAKE k \in 1 .. m - 1
    <3>1. k \in 1 .. MaxRuns /\ k < m  BY <2>3, GraphAssumption
    <3> QED  BY <3>1, <2>2, <2>3
  <2>5. <<t, m>> \in Runs /\ Task(<<t, m>>) = t /\ <<t, m>>[2] = m  BY <2>3, RunPairs DEF Task
  <2>6. <<t, m>> \in new  BY <2>3, <2>4, <2>5, <1>2
  <2>7. pc'[<<t, m>>] = "ready"  BY <2>5, <2>6, <1>1
  <2>8. resume'[<<t, m>>] = (Task(<<t, m>>) \in resumed)  BY <2>5, <2>6, <1>1, Zenon
  <2> QED  BY <1>8, <2>5, <2>7, <2>8
<1> QED  BY <1>4, <1>6, <1>7, <1>8 DEF StartsFor

\* A done event starts the tasks that wait for it alone and the joins it completes; the
\* other joins keep it.
LEMMA DispatchShape ==
  ASSUME NEW t, NEW c, NEW isResume \in BOOLEAN, DispatchDone(t, c, isResume)
  PROVE  \E S \in SUBSET Tasks :
             /\ \E resumed : /\ Started(S, c, resumed)
                             /\ isResume => \A d \in Tasks : Deps[d] = {t} => d \in resumed
             /\ \A d \in S : t \in Deps[d]
             /\ \A d \in Tasks : Deps[d] = {t} => d \in S
             /\ \A j \in Joins :
                    /\ t \notin Deps[j] => gate'[Deps[j]] = gate[Deps[j]]
                    /\ t \in Deps[j] => gate'[Deps[j]] = gate[Deps[j]] \cup {t}
                    /\ t \in Deps[j] /\ gate'[Deps[j]] = Deps[j] => j \in S
             /\ \A j, u \in Joins : Deps[j] = Deps[u] /\ j \in S => u \in S
<1> DEFINE events == [D \in Whens |-> IF t \in D THEN gate[D] \cup {t} ELSE gate[D]]
           joined == {j \in Joins : t \in Deps[j] /\ Opened(Deps[j], events[Deps[j]])}
           alone  == {d \in Tasks : Deps[d] = {t}}
           S      == joined \cup alone
           resumed == IF isResume THEN alone ELSE {}
<1>1. gate' = events /\ Started(S, c, resumed)  BY DEF DispatchDone
<1>2. S \in SUBSET Tasks  BY DEF Joins
<1>3. \A d \in S : t \in Deps[d]  OBVIOUS
<1>4. \A d \in Tasks : Deps[d] = {t} => d \in S /\ (isResume => d \in resumed)  OBVIOUS
<1>5. \A j \in Joins : /\ t \notin Deps[j] => gate'[Deps[j]] = gate[Deps[j]]
                       /\ t \in Deps[j] => gate'[Deps[j]] = gate[Deps[j]] \cup {t}
                       /\ t \in Deps[j] /\ gate'[Deps[j]] = Deps[j] => j \in S
  BY <1>1 DEF Whens, Opened
<1>6. \A j, u \in Joins : Deps[j] = Deps[u] /\ j \in S => u \in S  BY DEF Joins
<1>7. \E V : Started(S, c, V) /\ (isResume => \A d \in Tasks : Deps[d] = {t} => d \in V)
  BY <1>1, <1>4
<1> HIDE DEF S
<1> QED  BY <1>2, <1>3, <1>4, <1>5, <1>6, <1>7

\* Only runs that live are cancelled.
LEMMA AwaitedLive == \A c : Awaited(c) \subseteq {r \in Runs : Live(r)}
<1> QED  BY DEF Awaited


\* A start moves runs as it should, if who they return to has begun with it.
LEMMA StartMoves ==
  ASSUME TypeOK, NEW S \in SUBSET Tasks, NEW c, NEW resumed, Started(S, c, resumed),
         \/ c = Kickoff /\ kick' = "running"
         \/ c \in Answers /\ resuming'[c] = "running"
         \/ c \in Runs /\ pc[c] = "written" /\ \A d \in S : Task(c) \in Deps[d]
  PROVE  Moves
<1>1. c \in Runs => pc[c] = "written" /\ \A d \in S : Task(c) \in Deps[d]
  BY RunsAreRuns
<1>2. StartsFor(S, c, resumed)  BY <1>1, StartShape
<1>3. c \in Runs => pc'[c] = "emitting"  BY <1>1, <1>2 DEF StartsFor
<1>4. \A r \in Runs : pc[r] = "none" /\ pc'[r] # "none" => Fresh(r)
  BY <1>1, <1>2, <1>3 DEF Fresh, StartsFor
<1> QED  BY <1>1, <1>2, <1>4 DEF Moves, Over, StartsFor

\* So does a run that goes on.
LEMMA GoMoves ==
  ASSUME TypeOK, NEW r \in Runs, NEW step, Goes(r, step), pc[r] \notin Over \cup {"none"}, step # "none",
         pc[r] \in {"emitting", "ending"} => step \in {"ending", "done"},
         caller' = caller, resume' = resume
  PROVE  Moves
<1>1. pc' = [pc EXCEPT ![r] = step]  BY DEF Goes
<1>2. \A q \in Runs : pc'[q] = IF q = r THEN step ELSE pc[q]  BY <1>1 DEF TypeOK
<1> HIDE DEF Goes
<1>3. \A q \in Runs : pc[q] = "none" => pc'[q] = "none"  BY <1>2
<1> QED  BY <1>2, <1>3 DEF Moves

\* So does a cancellation, which makes nobody return without an error.
LEMMA CancelMoves ==
  ASSUME TypeOK, NEW c, CancelOthers(c, "raised"), c \in Runs => pc[c] = "emitting",
         caller' = caller, resume' = resume
  PROVE  /\ Moves
         /\ \A r \in Runs : pc'[r] = pc[r] \/ pc'[r] \in {"raised", "cancelled"}
<1> DEFINE gone == Awaited(c) \ {c}
<1>1. pc' = [r \in Runs |-> IF r \in gone THEN "cancelled" ELSE IF r = c THEN "raised" ELSE pc[r]]
  BY DEF CancelOthers
<1>2. \A r \in gone : pc[r] \notin Over \cup {"none"}  BY AwaitedLive DEF Live
<1> HIDE DEF gone
<1>3. \A r \in Runs : pc'[r] = pc[r] \/ pc'[r] \in {"raised", "cancelled"}  BY <1>1
<1>4. \A r \in Runs : pc[r] = "none" \/ pc[r] \in Over => pc'[r] = pc[r]
  BY <1>1, <1>2 DEF Over
<1> QED  BY <1>3, <1>4 DEF Moves

\* A gate is emptied only when its join has run.
LEMMA GateMoves ==
  ASSUME TypeOK, NoGaps, Together, Moves, NEW r \in Runs, pc[r] # "none", gate' = gate \/ GateAfter(r),
         NEW j \in Joins, pc'[<<j, 1>>] = "none"
  PROVE  gate'[Deps[j]] = gate[Deps[j]]
<1>1. j \in Tasks /\ <<j, 1>> \in Runs /\ Task(r) \in Tasks  BY RunPairs, RunsAreRuns DEF Joins
<1>2. pc[<<j, 1>>] = "none"  BY <1>1 DEF Moves
<1>3. pc[<<Task(r), 1>>] # "none"  BY DEF NoGaps
<1>4. Deps[j] # Deps[Task(r)]  BY <1>1, <1>2, <1>3 DEF Together, Joins
<1> QED  BY <1>4 DEF GateAfter, TypeOK, Whens

\* The steps of a run that only goes on.
LEMMA GoShape ==
  ASSUME TypeOK, NoGaps, Together, NEW r \in Runs, NEW step, Goes(r, step),
         pc[r] \notin Over \cup {"none"}, step \notin {"none", "emitting"},
         pc[r] \in {"emitting", "ending"} => step \in {"ending", "done"},
         step \in {"ending", "done"} =>
             \/ pc[r] = "ending"
             \/ pc[r] = "emitting" /\ \A c \in Called(r) : pc[c] \in {"done", "paused"},
         step = "paused" => Task(r) \in waiting' /\ ~resume[r],
         caller' = caller, resume' = resume, kick' = kick, resuming' = resuming,
         waiting \subseteq waiting', gate' = gate \/ GateAfter(r)
  PROVE  Shape
<1>1. Moves  BY GoMoves
<1>2. \A q \in Runs : pc'[q] = IF q = r THEN step ELSE pc[q]  BY DEF Goes, TypeOK
<1>3. Returns
  <2>1. ASSUME NEW q \in Runs, pc[q] \notin {"none", "done", "paused"},
               caller[q] \in Runs, pc'[caller[q]] \in {"ending", "done"}
        PROVE  pc[caller[q]] \in {"ending", "done"}
    <3>1. CASE caller[q] = r
      <4>1. q \in Called(r)  BY <2>1, <3>1 DEF Called
      <4> QED  BY <4>1, <2>1, <3>1, <1>2
    <3> QED  BY <2>1, <3>1, <1>2
  <2> QED  BY <2>1 DEF Returns
<1>4. Pauses
  <2>1. \A q \in Runs : pc'[q] = "paused" => pc[q] = "paused" \/ (Task(q) \in waiting' /\ ~resume[q])
    BY <1>2
  <2> QED  BY <2>1 DEF Pauses
<1>5. Starts
  <2>1. \A q \in Runs : Emitted(q)' => Emitted(q)  BY <1>2 DEF Emitted
  <2>2. \A j \in Joins : pc'[<<j, 1>>] = "none" => gate'[Deps[j]] = gate[Deps[j]]
    BY <1>1, GateMoves
  <2>3. \A q \in Runs : pc[q] = "none" => pc'[q] = "none"  BY <1>2
  <2> QED  BY <2>1, <2>2, <2>3, RunPairs DEF Starts, Joins
<1> QED  BY <1>1, <1>3, <1>4, <1>5 DEF Shape

\* Kickoff.
LEMMA KickShape ==
  ASSUME TypeOK, NoGaps, Calling, Kick
  PROVE  Shape
<1>1. /\ kick = "none" /\ kick' = "running" /\ Started(Roots, Kickoff, {})
      /\ UNCHANGED <<copy, last, results, lock, gate, waiting, resuming, finals>>
  BY DEF Kick
<1>2. Roots \in SUBSET Tasks  BY DEF Roots
<1>3. Moves  BY <1>1, <1>2, StartMoves
<1>4. StartsFor(Roots, Kickoff, {})
  <2>1. Kickoff \notin Runs  BY RunsAreRuns
  <2> QED  BY <1>1, <1>2, <2>1, StartShape
<1>5. \A r \in Runs : pc'[r] \notin {"none", "ready"} => pc'[r] = pc[r]
  BY <1>4, RunsAreRuns DEF StartsFor
<1>6. Returns  BY <1>1, <1>5 DEF Returns
<1>7. Pauses  BY <1>1, <1>5 DEF Pauses
<1>8. Starts
  <2>1. ASSUME NEW j \in Joins, pc[<<j, 1>>] = "none" PROVE pc'[<<j, 1>>] = "none"
    <3>1. Cardinality({}) = 0  BY FS_EmptySet
    <3>2. j \in Tasks /\ j \notin Roots  BY <3>1 DEF Joins, Roots
    <3>3. <<j, 1>> \in Runs /\ Task(<<j, 1>>) = j  BY <3>2, RunPairs DEF Task
    <3> QED  BY <2>1, <3>2, <3>3, <1>4 DEF StartsFor
  <2> QED  BY <2>1, <1>1, <1>4, <1>5 DEF Starts, Emitted, StartsFor
<1> QED  BY <1>3, <1>6, <1>7, <1>8 DEF Shape

LEMMA KickEndsShape ==
  ASSUME TypeOK, KickEnds
  PROVE  Shape
<1>1. /\ kick = "running" /\ kick' # "none"
      /\ kick' = "done" => \A r \in Called(Kickoff) : pc[r] \in {"done", "paused"}
      /\ UNCHANGED <<pc, runVars, results, lock, gate, waiting, resuming, finals>>
  BY DEF KickEnds
<1>2. Moves  BY <1>1 DEF Moves, runVars
<1>3. Returns  BY <1>1 DEF Returns, Called
<1>4. Pauses /\ Starts  BY <1>1 DEF Pauses, Starts, Emitted
<1> QED  BY <1>2, <1>3, <1>4 DEF Shape

\* An answered approval.
LEMMA AnswerShape ==
  ASSUME TypeOK, NoGaps, Calling, Reached, NEW a \in Answers, Answer(a)
  PROVE  Shape
<1> DEFINE t == Task(a)
<1>1. /\ t \in waiting /\ resuming[a] = "none" /\ \A u \in Hearers(t) : pc[<<u, MaxRuns>>] = "none"
      /\ waiting' = waiting \ {t} /\ resuming' = [resuming EXCEPT ![a] = "running"]
      /\ \/ Cardinality(Deps[t]) = 1 /\ \E p \in Deps[t] : DispatchDone(p, a, TRUE)
         \/ Started(Hearers(t), a, Hearers(t)) /\ UNCHANGED gate
      /\ UNCHANGED <<copy, last, results, lock, kick, finals>>
  BY DEF Answer
<1>2. \A b \in Answers : resuming'[b] = IF b = a THEN "running" ELSE resuming[b]
  BY <1>1 DEF TypeOK
<1>12. t \in Tasks /\ t = Task(a)  BY RunsAreRuns
<1> HIDE DEF t
<1>3. \E S \in SUBSET Tasks : \E resumed :
          /\ Started(S, a, resumed) /\ t \in S \cap resumed
          /\ \A j \in Joins : \/ gate'[Deps[j]] = gate[Deps[j]]
                             \/ /\ gate[Deps[j]] \subseteq gate'[Deps[j]]
                                /\ gate'[Deps[j]] = Deps[j] => j \in S
          /\ \A j, u \in Joins : Deps[j] = Deps[u] /\ j \in S => u \in S
  <2>1. CASE Cardinality(Deps[t]) = 1 /\ \E p \in Deps[t] : DispatchDone(p, a, TRUE)
    <3>1. PICK p \in Deps[t] : DispatchDone(p, a, TRUE)  BY <2>1
    <3>2. Deps[t] = {p}
      <4>1. IsFiniteSet(Deps[t])  BY <1>12, GraphAssumption, FS_Subset
      <4>2. \E x : Deps[t] = {x}  BY <4>1, <2>1, FS_Singleton
      <4> QED  BY <4>2
    <3>3. PICK S \in SUBSET Tasks :
              /\ \E resumed : /\ Started(S, a, resumed)
                              /\ TRUE => \A d \in Tasks : Deps[d] = {p} => d \in resumed
              /\ \A d \in S : p \in Deps[d]
              /\ \A d \in Tasks : Deps[d] = {p} => d \in S
              /\ \A j \in Joins :
                     /\ p \notin Deps[j] => gate'[Deps[j]] = gate[Deps[j]]
                     /\ p \in Deps[j] => gate'[Deps[j]] = gate[Deps[j]] \cup {p}
                     /\ p \in Deps[j] /\ gate'[Deps[j]] = Deps[j] => j \in S
              /\ \A j, u \in Joins : Deps[j] = Deps[u] /\ j \in S => u \in S
      BY <3>1, DispatchShape
    <3>4. PICK resumed : /\ Started(S, a, resumed)
                         /\ \A d \in Tasks : Deps[d] = {p} => d \in resumed
      BY <3>3
    <3>6. \A j \in Joins : \/ gate'[Deps[j]] = gate[Deps[j]]
                          \/ /\ gate[Deps[j]] \subseteq gate'[Deps[j]]
                             /\ gate'[Deps[j]] = Deps[j] => j \in S
      BY <3>3
    <3>7. \A j, u \in Joins : Deps[j] = Deps[u] /\ j \in S => u \in S  BY <3>3
    <3>5. t \in S \cap resumed  BY <1>12, <3>2, <3>3, <3>4
    <3> QED  BY <3>4, <3>5, <3>6, <3>7
  <2>2. CASE Started(Hearers(t), a, Hearers(t)) /\ UNCHANGED gate
    <3>1. Hearers(t) \in SUBSET Tasks /\ t \in Hearers(t) \cap Hearers(t)  BY <1>12 DEF Hearers
    <3>2. \A j, u \in Joins : Deps[j] = Deps[u] /\ j \in Hearers(t) => u \in Hearers(t)
      <4>1. \A j \in Joins : Deps[j] # {}  BY FS_EmptySet DEF Joins
      <4> QED  BY <4>1 DEF Hearers, Joins
    <3> QED  BY <2>2, <3>1, <3>2
  <2> QED  BY <1>1, <2>1, <2>2
<1>4. PICK S \in SUBSET Tasks : \E resumed :
          /\ Started(S, a, resumed) /\ t \in S \cap resumed
          /\ \A j \in Joins : \/ gate'[Deps[j]] = gate[Deps[j]]
                             \/ /\ gate[Deps[j]] \subseteq gate'[Deps[j]]
                                /\ gate'[Deps[j]] = Deps[j] => j \in S
          /\ \A j, u \in Joins : Deps[j] = Deps[u] /\ j \in S => u \in S
  BY <1>3
<1>5. PICK resumed :
          /\ Started(S, a, resumed) /\ t \in S \cap resumed
          /\ \A j \in Joins : \/ gate'[Deps[j]] = gate[Deps[j]]
                             \/ /\ gate[Deps[j]] \subseteq gate'[Deps[j]]
                                /\ gate'[Deps[j]] = Deps[j] => j \in S
          /\ \A j, u \in Joins : Deps[j] = Deps[u] /\ j \in S => u \in S
  BY <1>4
<1>6. Moves  BY <1>2, <1>5, StartMoves
<1>13. a \notin Runs  BY RunsAreRuns
<1>14. StartsFor(S, a, resumed)  BY <1>5, <1>13, StartShape
<1>7. /\ \A r \in Runs : pc[r] # "none" => pc'[r] = pc[r]
      /\ \A r \in Runs : pc[r] = "none" /\ pc'[r] # "none" => pc'[r] = "ready" /\ Task(r) \in S
      /\ \A u \in S : pc'[<<u, 1>>] # "none"
      /\ \E r \in Runs : Task(r) = t /\ pc'[r] = "ready" /\ resume'[r]
  <2>1. pc[<<t, MaxRuns>>] = "none"  BY <1>1, <1>12 DEF Hearers
  <2> QED  BY <2>1, <1>5, <1>13, <1>14 DEF StartsFor
<1>8. \A r \in Runs : pc'[r] \notin {"none", "ready"} => pc'[r] = pc[r]  BY <1>7
<1>9. Returns  BY <1>1, <1>2, <1>8 DEF Returns
<1>10. Pauses
  <2>1. \A u \in waiting : u \in waiting' \/ \E b \in Answers : Task(b) = u /\ resuming'[b] # "none"
    BY <1>1, <1>2, <1>12
  <2>2. \A b \in Answers : resuming[b] = "none" /\ resuming'[b] # "none" =>
            \E r \in Runs : Task(r) = Task(b) /\ pc'[r] = "ready" /\ resume'[r]
    BY <1>2, <1>7, <1>12
  <2>3. \A r \in Runs : pc'[r] = "paused" => pc[r] = "paused"  BY <1>8
  <2> QED  BY <2>1, <2>2, <2>3 DEF Pauses
<1>11. Starts
  <2>1. \A r \in Runs : Emitted(r)' => Emitted(r)  BY <1>8 DEF Emitted
  <2>2. ASSUME NEW j \in Joins, pc'[<<j, 1>>] = "none"
        PROVE  \/ gate'[Deps[j]] = gate[Deps[j]]
               \/ gate'[Deps[j]] # Deps[j] /\ gate[Deps[j]] \subseteq gate'[Deps[j]]
    BY <2>2, <1>5, <1>7
  <2>3. ASSUME NEW j \in Joins, NEW u \in Joins, Deps[j] = Deps[u],
               pc[<<j, 1>>] = "none", pc'[<<j, 1>>] # "none"
        PROVE  pc'[<<u, 1>>] # "none"
    <3>1. <<j, 1>> \in Runs /\ Task(<<j, 1>>) = j  BY RunPairs DEF Joins, Task
    <3>2. j \in S  BY <3>1, <2>3, <1>7
    <3> QED  BY <3>2, <2>3, <1>5, <1>7
  <2> QED  BY <1>1, <2>1, <2>2, <2>3 DEF Starts
<1> QED  BY <1>6, <1>9, <1>10, <1>11 DEF Shape

LEMMA ResumeEndsShape ==
  ASSUME TypeOK, Settled, NEW a \in Answers, ResumeEnds(a)
  PROVE  Shape
<1>1. /\ resuming[a] = "running" /\ waiting \subseteq waiting'
      /\ UNCHANGED <<runVars, results, gate, kick, finals>>
  BY DEF ResumeEnds
<1>2. CASE /\ \A r \in Called(a) : pc[r] \in {"done", "paused"}
           /\ resuming' = [resuming EXCEPT ![a] = "done"]
           /\ UNCHANGED <<pc, lock, waiting>>
  <2>1. \A b \in Answers : resuming'[b] = IF b = a THEN "done" ELSE resuming[b]
    BY <1>2 DEF TypeOK
  <2>2. Moves  BY <1>1, <1>2 DEF Moves, runVars
  <2>3. Returns  BY <1>1, <1>2, <2>1 DEF Returns, Called
  <2>4. Pauses  BY <1>1, <1>2, <2>1 DEF Pauses
  <2>5. Starts  BY <1>1, <1>2 DEF Starts, Emitted
  <2> QED  BY <2>2, <2>3, <2>4, <2>5 DEF Shape
<1>3. CASE resuming' = [resuming EXCEPT ![a] = "raised"] /\ CancelOthers(a, "raised")
  <2>1. \A b \in Answers : resuming'[b] = IF b = a THEN "raised" ELSE resuming[b]
    BY <1>3 DEF TypeOK
  <2>2. /\ Moves
        /\ \A r \in Runs : pc'[r] = pc[r] \/ pc'[r] \in {"raised", "cancelled"}
    BY <1>1, <1>3, RunsAreRuns, CancelMoves DEF runVars
  <2>3. Returns  BY <1>1, <2>1, <2>2 DEF Returns
  <2>4. Pauses  BY <1>1, <2>1, <2>2 DEF Pauses
  <2>5. Starts  BY <1>1, <2>2, RunPairs DEF Starts, Emitted, Moves, Joins
  <2> QED  BY <2>2, <2>3, <2>4, <2>5 DEF Shape
<1> QED  BY <1>2, <1>3 DEF ResumeEnds

\* A done event.
LEMMA EmitDoneShape ==
  ASSUME TypeOK, NEW r \in Runs, EmitDone(r)
  PROVE  Shape
<1>1. /\ pc[r] = "written" /\ DispatchDone(Task(r), r, FALSE)
      /\ UNCHANGED <<copy, results, waiting, resuming, kick, finals>>
  BY DEF EmitDone
<1>2. PICK S \in SUBSET Tasks :
          /\ \E resumed : /\ Started(S, r, resumed)
                          /\ FALSE => \A d \in Tasks : Deps[d] = {Task(r)} => d \in resumed
          /\ \A d \in S : Task(r) \in Deps[d]
          /\ \A d \in Tasks : Deps[d] = {Task(r)} => d \in S
          /\ \A j \in Joins :
                 /\ Task(r) \notin Deps[j] => gate'[Deps[j]] = gate[Deps[j]]
                 /\ Task(r) \in Deps[j] => gate'[Deps[j]] = gate[Deps[j]] \cup {Task(r)}
                 /\ Task(r) \in Deps[j] /\ gate'[Deps[j]] = Deps[j] => j \in S
          /\ \A j, u \in Joins : Deps[j] = Deps[u] /\ j \in S => u \in S
  BY <1>1, DispatchShape
<1>3. PICK resumed : Started(S, r, resumed)  BY <1>2
<1>4. Moves  BY <1>1, <1>2, <1>3, StartMoves
<1>5. StartsFor(S, r, resumed)  BY <1>1, <1>3, StartShape
<1>6. \A q \in Runs : pc'[q] \notin {"none", "ready"} =>
          (q = r /\ pc'[q] = "emitting") \/ pc'[q] = pc[q]
  BY <1>5 DEF StartsFor
<1>7. Returns  BY <1>1, <1>6 DEF Returns
<1>8. Pauses  BY <1>1, <1>6 DEF Pauses
<1>9. Starts
  <2>1. \A q \in Runs : Emitted(q)' /\ ~Emitted(q) => q = r  BY <1>6 DEF Emitted
  <2>2. \A d \in Tasks : Deps[d] = {Task(r)} => pc'[<<d, 1>>] # "none"  BY <1>2, <1>5 DEF StartsFor
  <2>3. \A j \in Joins : Task(r) \in Deps[j] => Task(r) \in gate'[Deps[j]]  BY <1>2
  <2>4. ASSUME NEW j \in Joins, pc'[<<j, 1>>] = "none"
        PROVE  \/ gate'[Deps[j]] = gate[Deps[j]]
               \/ gate'[Deps[j]] # Deps[j] /\ gate[Deps[j]] \subseteq gate'[Deps[j]]
    BY <2>4, <1>2, <1>5 DEF StartsFor
  <2>5. ASSUME NEW j \in Joins, NEW u \in Joins, Deps[j] = Deps[u],
               pc[<<j, 1>>] = "none", pc'[<<j, 1>>] # "none"
        PROVE  pc'[<<u, 1>>] # "none"
    <3>1. <<j, 1>> \in Runs /\ Task(<<j, 1>>) = j  BY RunPairs DEF Joins, Task
    <3>2. j \in S  BY <3>1, <2>5, <1>5 DEF StartsFor
    <3> QED  BY <3>2, <2>5, <1>2, <1>5 DEF StartsFor
  <2> QED  BY <1>1, <2>1, <2>2, <2>3, <2>4, <2>5 DEF Starts
<1> QED  BY <1>4, <1>7, <1>8, <1>9 DEF Shape

\* The steps of a run.
LEMMA RunShape ==
  ASSUME TypeOK, NoGaps, Together, Ending, NEW r \in Runs, RunStep(r)
  PROVE  Shape
<1>1. CASE Begin(r)
  <2>1. /\ pc[r] = "ready" /\ UNCHANGED <<runVars, resuming, kick>> /\ waiting \subseteq waiting'
        /\ gate' = gate \/ GateAfter(r)
        /\ \E step \in {"raised", "working", "failing", "paused"} :
               Goes(r, step) /\ (step = "paused" => Task(r) \in waiting' /\ ~resume[r])
    BY <1>1 DEF Begin
  <2>2. PICK step \in {"raised", "working", "failing", "paused"} :
            Goes(r, step) /\ (step = "paused" => Task(r) \in waiting' /\ ~resume[r])
    BY <2>1
  <2> QED  BY <2>1, <2>2, GoShape DEF Over, runVars
<1>2. CASE HandlerReturns(r) \/ HandlerFails(r) \/ RecordFailure(r)
  <2>1. /\ pc[r] \in {"working", "failing"} /\ UNCHANGED <<runVars, gate, waiting, resuming, kick>>
        /\ \E step \in {"recording", "failing", "raised"} : Goes(r, step)
    BY <1>2 DEF HandlerReturns, HandlerFails, RecordFailure
  <2> QED  BY <2>1, GoShape DEF Over, runVars
<1>3. CASE RecordReads(r) \/ RecordWrites(r)
  <2>1. /\ pc[r] \in {"recording", "locked"} /\ UNCHANGED <<caller, resume, gate, waiting, resuming, kick>>
        /\ \E step \in {"locked", "written"} : Goes(r, step)
    BY <1>3 DEF RecordReads, RecordWrites, runVars
  <2> QED  BY <2>1, GoShape DEF Over
<1>4. CASE EmitDone(r)  BY <1>4, EmitDoneShape
<1>5. CASE EmitReturns(r) \/ Finalize(r)
  <2>1. /\ \/ pc[r] = "ending"
           \/ pc[r] = "emitting" /\ \A c \in Called(r) : pc[c] \in {"done", "paused"}
        /\ UNCHANGED <<runVars, waiting, resuming, kick>> /\ (gate' = gate \/ GateAfter(r))
        /\ \E step \in {"ending", "done"} : Goes(r, step)
    BY <1>5 DEF EmitReturns, Finalize
  <2> QED  BY <2>1, GoShape DEF Over, runVars
<1>6. CASE EmitFails(r)
  <2>1. /\ pc[r] = "emitting" /\ CancelOthers(r, "raised")
        /\ UNCHANGED <<runVars, gate, waiting, resuming, kick>>
    BY <1>6 DEF EmitFails
  <2>2. /\ Moves
        /\ \A q \in Runs : pc'[q] = pc[q] \/ pc'[q] \in {"raised", "cancelled"}
    BY <2>1, CancelMoves DEF runVars
  <2>3. Returns  BY <2>1, <2>2 DEF Returns
  <2>4. Pauses  BY <2>1, <2>2 DEF Pauses
  <2>5. Starts  BY <2>1, <2>2, RunPairs DEF Starts, Emitted, Moves, Joins
  <2> QED  BY <2>2, <2>3, <2>4, <2>5 DEF Shape
<1> QED  BY <1>1, <1>2, <1>3, <1>4, <1>5, <1>6 DEF RunStep

LEMMA StepShape ==
  ASSUME EInv, Next
  PROVE  Shape
<1>1. Kick \/ KickEnds \/ (\E a \in Answers : Answer(a) \/ ResumeEnds(a)) \/ \E r \in Runs : RunStep(r)
  BY DEF Next, Loop
<1> QED
  BY <1>1, KickShape, KickEndsShape, AnswerShape, ResumeEndsShape, RunShape DEF EInv, IInv

-----------------------------------------------------------------------------
(* The invariant of the graph at rest *)

LEMMA CallsKeep ==
  ASSUME EInv, TypeOK', Shape
  PROVE  NoGaps' /\ Calling' /\ Settled' /\ Answered' /\ Reached' /\ Together'
<1> USE DEF EInv
<1>1. Moves /\ Returns /\ Pauses /\ Starts  BY DEF Shape
<1>2. NoGaps'
  <2> SUFFICES ASSUME NEW r \in Runs, pc'[r] # "none" PROVE pc'[<<Task(r), 1>>] # "none"
    BY DEF NoGaps
  <2>1. Task(r) \in Tasks /\ <<Task(r), 1>> \in Runs  BY RunsAreRuns, RunPairs
  <2>2. CASE pc[r] # "none"
    <3>1. pc[<<Task(r), 1>>] # "none"  BY <2>2 DEF NoGaps
    <3> QED  BY <3>1, <2>1, <1>1 DEF Moves
  <2>3. CASE pc[r] = "none" /\ r[2] = 1
    <3>1. r = <<Task(r), 1>>  BY <2>3, RunPairs
    <3> QED  BY <3>1
  <2>4. CASE pc[r] = "none" /\ r[2] # 1
    <3>1. \A k \in 1 .. r[2] - 1 : pc[<<Task(r), k>>] # "none"  BY <1>1, <2>4 DEF Moves
    <3>2. 1 \in 1 .. r[2] - 1  BY <2>4, RunPairs, GraphAssumption
    <3>3. pc[<<Task(r), 1>>] # "none"  BY <3>1, <3>2
    <3> QED  BY <3>3, <2>1, <1>1 DEF Moves
  <2> QED  BY <2>2, <2>3, <2>4
<1>3. Calling'
  <2> SUFFICES ASSUME NEW r \in Runs, pc'[r] # "none"
               PROVE  \/ caller'[r] = Kickoff /\ kick' # "none"
                      \/ caller'[r] \in Answers /\ resuming'[caller'[r]] # "none"
                      \/ /\ caller'[r] \in Runs /\ Task(caller'[r]) \in Deps[Task(r)]
                         /\ pc'[caller'[r]] \in {"emitting", "ending", "done", "raised", "cancelled"}
    BY DEF Calling
  <2>1. CASE pc[r] # "none"
    <3>1. caller'[r] = caller[r]  BY <1>1, <2>1 DEF Moves
    <3>2. \A q \in Runs : pc[q] \in {"emitting", "ending", "done", "raised", "cancelled"} =>
                          pc'[q] \in {"emitting", "ending", "done", "raised", "cancelled"}
      BY <1>1 DEF Moves, Over
    <3> QED  BY <3>1, <3>2, <2>1, <1>1 DEF Calling, Returns
  <2>2. CASE pc[r] = "none"
    <3>1. Fresh(r)  BY <1>1, <2>2 DEF Moves
    <3> QED  BY <3>1 DEF Fresh
  <2> QED  BY <2>1, <2>2
<1>4. Settled'
  <2> SUFFICES ASSUME NEW r \in Runs, pc'[r] \notin {"none", "done", "paused"}
               PROVE  /\ caller'[r] = Kickoff => kick' # "done"
                      /\ caller'[r] \in Answers => resuming'[caller'[r]] # "done"
                      /\ caller'[r] \in Runs => pc'[caller'[r]] \notin {"ending", "done"}
    BY DEF Settled
  <2>1. CASE pc[r] # "none"
    <3>1. caller'[r] = caller[r]  BY <1>1, <2>1 DEF Moves
    <3>2. pc[r] \notin {"none", "done", "paused"}  BY <1>1, <2>1 DEF Moves, Over
    <3> QED  BY <3>1, <3>2, <1>1 DEF Settled, Returns
  <2>2. CASE pc[r] = "none"
    <3>1. Fresh(r)  BY <1>1, <2>2 DEF Moves
    <3> QED  BY <3>1, RunPairs, RunsAreRuns DEF Fresh
  <2> QED  BY <2>1, <2>2
<1>5. Answered'
  <2>1. ASSUME NEW r \in Runs, pc'[r] = "paused"
        PROVE  Task(r) \in waiting' \/ \E a \in Answers : Task(a) = Task(r) /\ resuming'[a] # "none"
    <3>1. CASE pc[r] = "paused"
      <4>1. CASE Task(r) \in waiting  BY <4>1, <1>1 DEF Pauses
      <4>2. CASE \E a \in Answers : Task(a) = Task(r) /\ resuming[a] # "none"
        BY <4>2, <1>1 DEF Returns
      <4> QED  BY <3>1, <4>1, <4>2 DEF Answered
    <3> QED  BY <3>1, <2>1, <1>1 DEF Pauses
  <2>2. ASSUME NEW a \in Answers, resuming'[a] # "none"
        PROVE  \E r \in Runs : Task(r) = Task(a) /\ resume'[r] /\ pc'[r] \notin {"none", "paused"}
    <3>1. CASE resuming[a] = "none"
      BY <3>1, <2>2, <1>1 DEF Pauses
    <3>2. CASE resuming[a] # "none"
      <4>1. PICK r \in Runs : Task(r) = Task(a) /\ resume[r] /\ pc[r] \notin {"none", "paused"}
        BY <3>2 DEF Answered
      <4>2. pc'[r] # "none" /\ resume'[r] = resume[r]  BY <4>1, <1>1 DEF Moves
      <4>3. pc'[r] # "paused"  BY <4>1, <1>1 DEF Pauses
      <4> QED  BY <4>1, <4>2, <4>3
    <3> QED  BY <3>1, <3>2
  <2> QED  BY <2>1, <2>2 DEF Answered
<1>6. Reached'
  <2>1. \A t \in Tasks : pc[<<t, 1>>] # "none" => pc'[<<t, 1>>] # "none"
    BY <1>1, RunPairs DEF Moves
  <2>2. ASSUME kick' # "none", NEW t \in Roots PROVE pc'[<<t, 1>>] # "none"
    BY <2>1, <2>2, <1>1 DEF Reached, Starts, Roots
  <2>3. ASSUME NEW r \in Runs, Emitted(r)', NEW d \in Tasks, Deps[d] = {Task(r)}
        PROVE  pc'[<<d, 1>>] # "none"
    BY <2>1, <2>3, <1>1 DEF Reached, Starts
  <2>4. ASSUME NEW j \in Joins, pc'[<<j, 1>>] = "none"
        PROVE  /\ gate'[Deps[j]] # Deps[j]
               /\ \A r \in Runs : Emitted(r)' /\ Task(r) \in Deps[j] => Task(r) \in gate'[Deps[j]]
    <3>1. pc[<<j, 1>>] = "none"  BY <2>1, <2>4 DEF Joins
    <3>2. gate'[Deps[j]] = gate[Deps[j]] \/ (gate'[Deps[j]] # Deps[j] /\ gate[Deps[j]] \subseteq gate'[Deps[j]])
      BY <1>1, <2>4 DEF Starts
    <3>3. gate'[Deps[j]] # Deps[j]  BY <3>1, <3>2 DEF Reached
    <3>4. ASSUME NEW r \in Runs, Emitted(r)', Task(r) \in Deps[j] PROVE Task(r) \in gate'[Deps[j]]
      <4>1. CASE Emitted(r)  BY <4>1, <3>1, <3>2, <3>4 DEF Reached
      <4>2. CASE ~Emitted(r)  BY <4>2, <3>4, <1>1 DEF Starts
      <4> QED  BY <4>1, <4>2
    <3> QED  BY <3>3, <3>4
  <2> QED  BY <2>2, <2>3, <2>4 DEF Reached, Emitted
<1>7. Together'
  <2>1. ASSUME NEW j \in Joins, NEW u \in Joins, Deps[j] = Deps[u], pc'[<<j, 1>>] # "none"
        PROVE  pc'[<<u, 1>>] # "none"
    <3>1. CASE pc[<<j, 1>>] = "none"  BY <2>1, <3>1, <1>1 DEF Starts
    <3>2. CASE pc[<<j, 1>>] # "none"
      <4>1. pc[<<u, 1>>] # "none"  BY <2>1, <3>2 DEF Together
      <4>2. <<u, 1>> \in Runs  BY RunPairs DEF Joins
      <4> QED  BY <4>1, <4>2, <1>1 DEF Moves
    <3> QED  BY <3>1, <3>2
  <2> QED  BY <2>1 DEF Together
<1> QED  BY <1>2, <1>3, <1>4, <1>5, <1>6, <1>7


\* How runs come to read, to write, to emit and to end the graph.
Advances ==
    /\ \A r \in Runs : /\ pc[r] # "recording" => copy'[r] = copy[r]
                       /\ last'[r] = last[r] \/ EmitDone(r)
    /\ \A r \in Runs :
           /\ Read(r)' => Read(r) \/ RecordReads(r)
           /\ Wrote(r)' => Wrote(r) \/ RecordWrites(r)
           /\ Emitted(r)' => Emitted(r) \/ EmitDone(r)
           /\ pc'[r] = "ending" => pc[r] = "ending" \/ (pc[r] = "emitting" /\ last[r])
           /\ pc'[r] = "done" => pc[r] = "done" \/ (pc[r] = "emitting" /\ ~last[r]) \/ Finalize(r)
    /\ \A r \in Runs :
           /\ pc[r] = "locked" => pc'[r] \in {"locked", "written", "raised", "cancelled"}
           /\ pc[r] = "written" => pc'[r] \in {"written", "emitting", "raised", "cancelled"}
    /\ results' = results \/ \E r \in Runs : RecordWrites(r)
    /\ finals' = finals \/ \E r \in Runs : Finalize(r)

\* Steps that read, write and emit nothing.
LEMMA OthersAdvance ==
  ASSUME \A r \in Runs : pc'[r] \in {pc[r], "ready", "working", "failing", "recording", "paused",
                                     "raised", "cancelled"},
         \A r \in Runs : pc[r] \in {"locked", "written"} =>
             pc'[r] \in {pc[r], "raised", "cancelled"},
         copy' = copy, last' = last, results' = results, finals' = finals
  PROVE  Advances
<1> QED  BY DEF Advances, Read, Wrote, Emitted

LEMMA StepAdvances ==
  ASSUME TypeOK, Next
  PROVE  Advances
<1>1. CASE Kick
  <2>1. UNCHANGED <<copy, last, results, finals>> /\ Started(Roots, Kickoff, {})  BY <1>1 DEF Kick
  <2>2. \A r \in Runs : pc'[r] \in {pc[r], "ready"} /\ (pc[r] # "none" => pc'[r] = pc[r])
    BY <2>1, RunsAreRuns DEF Started, NextRun
  <2> QED  BY <2>1, <2>2, OthersAdvance
<1>2. CASE KickEnds
  BY <1>2, OthersAdvance DEF KickEnds, runVars
<1>3. ASSUME NEW a \in Answers, Answer(a) PROVE Advances
  <2>1. /\ UNCHANGED <<copy, last, results, finals>>
        /\ \E S, resumed : Started(S, a, resumed)
    BY <1>3 DEF Answer, DispatchDone
  <2>2. PICK S, resumed : Started(S, a, resumed)  BY <2>1
  <2>3. \A r \in Runs : pc'[r] \in {pc[r], "ready"} /\ (pc[r] # "none" => pc'[r] = pc[r])
    BY <2>2, RunsAreRuns DEF Started, NextRun
  <2> QED  BY <2>1, <2>3, OthersAdvance
<1>4. ASSUME NEW a \in Answers, ResumeEnds(a) PROVE Advances
  <2>1. /\ UNCHANGED <<copy, last, results, finals>>
        /\ pc' = pc \/ CancelOthers(a, "raised")
    BY <1>4 DEF ResumeEnds, runVars
  <2>2. \A r \in Runs : pc'[r] \in {pc[r], "raised", "cancelled"}
    BY <2>1 DEF CancelOthers
  <2> QED  BY <2>1, <2>2, OthersAdvance
<1>5. ASSUME NEW r \in Runs, RunStep(r) PROVE Advances
  <2>1. CASE Begin(r) \/ HandlerReturns(r) \/ HandlerFails(r) \/ RecordFailure(r)
    <3>1. /\ UNCHANGED <<copy, last, results, finals>> /\ pc[r] \in {"ready", "working", "failing"}
          /\ \E step \in {"raised", "working", "failing", "paused", "recording"} : Goes(r, step)
      BY <2>1 DEF Begin, HandlerReturns, HandlerFails, RecordFailure, runVars
    <3>2. PICK step \in {"raised", "working", "failing", "paused", "recording"} : Goes(r, step)  BY <3>1
    <3>3. \A q \in Runs : pc'[q] = IF q = r THEN step ELSE pc[q]  BY <3>2 DEF Goes, TypeOK
    <3> QED  BY <3>1, <3>3, OthersAdvance
  <2>2. CASE RecordReads(r)
    <3>1. /\ pc[r] = "recording" /\ UNCHANGED <<last, results, finals>>
          /\ \A q \in Runs : pc'[q] = IF q = r THEN "locked" ELSE pc[q]
          /\ \A q \in Runs : q # r => copy'[q] = copy[q]
      BY <2>2 DEF RecordReads, Goes, TypeOK
    <3> QED  BY <3>1, <2>2 DEF Advances, Read, Wrote, Emitted
  <2>3. CASE RecordWrites(r)
    <3>1. /\ pc[r] = "locked" /\ UNCHANGED <<copy, last, finals>>
          /\ \A q \in Runs : pc'[q] = IF q = r THEN "written" ELSE pc[q]
      BY <2>3 DEF RecordWrites, Goes, TypeOK, runVars
    <3> QED  BY <3>1, <2>3 DEF Advances, Read, Wrote, Emitted
  <2>4. CASE EmitDone(r)
    <3>1. /\ pc[r] = "written" /\ UNCHANGED <<copy, results, finals>>
          /\ \A q \in Runs : q # r => last'[q] = last[q]
          /\ \E S, resumed : Started(S, r, resumed)
      BY <2>4 DEF EmitDone, DispatchDone, TypeOK
    <3>2. PICK S, resumed : Started(S, r, resumed)  BY <3>1
    <3>3. \A q \in Runs : IF q = r THEN pc'[q] = "emitting"
                          ELSE pc'[q] \in {pc[q], "ready"} /\ (pc[q] # "none" => pc'[q] = pc[q])
      BY <3>1, <3>2 DEF Started, NextRun
    <3> QED  BY <3>1, <3>3, <2>4 DEF Advances, Read, Wrote, Emitted
  <2>5. CASE EmitReturns(r)
    <3>1. /\ pc[r] = "emitting" /\ UNCHANGED <<copy, last, results, finals>>
          /\ \A q \in Runs : pc'[q] = IF q = r THEN (IF last[r] THEN "ending" ELSE "done") ELSE pc[q]
      BY <2>5 DEF EmitReturns, Goes, TypeOK, runVars
    <3> QED  BY <3>1 DEF Advances, Read, Wrote, Emitted
  <2>6. CASE EmitFails(r)
    <3>1. /\ UNCHANGED <<copy, last, results, finals>> /\ CancelOthers(r, "raised")
      BY <2>6 DEF EmitFails, runVars
    <3>2. \A q \in Runs : pc'[q] \in {pc[q], "raised", "cancelled"}
      BY <3>1 DEF CancelOthers
    <3> QED  BY <3>1, <3>2, OthersAdvance
  <2>7. CASE Finalize(r)
    <3>1. /\ pc[r] = "ending" /\ UNCHANGED <<copy, last, results>>
          /\ \A q \in Runs : pc'[q] = IF q = r THEN "done" ELSE pc[q]
      BY <2>7 DEF Finalize, Goes, TypeOK, runVars
    <3> QED  BY <3>1, <2>7 DEF Advances, Read, Wrote, Emitted
  <2> QED  BY <1>5, <2>1, <2>2, <2>3, <2>4, <2>5, <2>6, <2>7 DEF RunStep
<1> QED  BY <1>1, <1>2, <1>3, <1>4, <1>5 DEF Next, Loop

LEMMA EndingKeeps ==
  ASSUME EInv, Moves, Advances
  PROVE  Ending'
<1> USE DEF EInv, IInv
<1>1. ASSUME NEW r \in Runs, Emitted(r)' PROVE last'[r] <=> copy'[r] \cup {Task(r)} = Tasks
  <2>1. CASE Emitted(r)
    <3>1. ~EmitDone(r) /\ pc[r] # "recording"  BY <2>1 DEF Emitted, EmitDone
    <3> QED  BY <3>1, <2>1 DEF Advances, Ending
  <2>2. CASE EmitDone(r)
    <3>1. last'[r] = (copy[r] \cup {Task(r)} = Tasks) /\ copy' = copy
      BY <2>2 DEF EmitDone, TypeOK
    <3> QED  BY <3>1
  <2> QED  BY <1>1, <2>1, <2>2 DEF Advances
<1>2. ASSUME NEW r \in Runs, pc[r] \in {"emitting", "ending", "done"} PROVE last'[r] = last[r]
  BY <1>2 DEF Advances, EmitDone
<1>3. \A r \in Runs : pc'[r] = "ending" => last'[r]
  BY <1>2 DEF Advances, Ending
<1>4. ASSUME NEW r \in Runs, Finalize(r)
      PROVE  /\ pc[r] = "ending" /\ pc'[r] = "done" /\ last[r] /\ last'[r]
             /\ finals' = IF finals = 2 THEN 2 ELSE finals + 1
  <2>1. pc[r] = "ending" /\ pc'[r] = "done" /\ finals' = IF finals = 2 THEN 2 ELSE finals + 1
    BY <1>4 DEF Finalize, Goes, TypeOK
  <2> QED  BY <2>1, <1>2 DEF Ending
<1>5. finals \in 0 .. 2  BY DEF TypeOK
<1>6. finals >= 1 => finals' >= 1  BY <1>4, <1>5 DEF Advances
<1>7. ASSUME NEW r \in Runs, pc'[r] = "done", last'[r] PROVE finals' >= 1
  <2>1. CASE Finalize(r)  BY <2>1, <1>4, <1>5
  <2>2. CASE pc[r] = "done"
    <3>1. finals >= 1  BY <2>2, <1>2, <1>7 DEF Ending
    <3> QED  BY <3>1, <1>6
  <2>3. ~(pc[r] = "emitting" /\ ~last[r])  BY <1>2, <1>7
  <2> QED  BY <1>7, <2>1, <2>2, <2>3 DEF Advances
<1>8. \A r \in Runs : pc[r] = "done" /\ last[r] => pc'[r] = "done" /\ last'[r]
  BY <1>2 DEF Moves, Over
<1>9. ASSUME finals' >= 1 PROVE \E r \in Runs : pc'[r] = "done" /\ last'[r]
  <2>1. CASE finals' = finals  BY <2>1, <1>8, <1>9 DEF Ending
  <2> QED  BY <2>1, <1>4 DEF Advances
<1>10. ASSUME finals' = 2
       PROVE  \E r, s \in Runs : r # s /\ pc'[r] = "done" /\ last'[r] /\ pc'[s] = "done" /\ last'[s]
  <2>1. CASE finals = 2  BY <2>1, <1>8 DEF Ending
  <2>2. CASE finals # 2
    <3>1. PICK r \in Runs : Finalize(r)  BY <2>2, <1>10 DEF Advances
    <3>2. finals >= 1  BY <3>1, <1>4, <1>5, <1>10
    <3>3. PICK s \in Runs : pc[s] = "done" /\ last[s]  BY <3>2 DEF Ending
    <3> QED  BY <3>1, <3>3, <1>4, <1>8
  <2> QED  BY <2>1, <2>2
<1> QED  BY <1>1, <1>3, <1>7, <1>9, <1>10 DEF Ending, Emitted

LEMMA WrittenKeeps ==
  ASSUME EInv, IInv', Moves, Advances
  PROVE  Written'
<1> USE DEF EInv, IInv
<1> SUFFICES ASSUME Clean' PROVE Written'  BY DEF Written
<1>1. Clean  BY DEF Clean, Moves, Over
<1>2. \A r \in Runs : /\ Wrote(r) => Wrote(r)' /\ copy'[r] = copy[r]
                      /\ Read(r) => Read(r)' /\ copy'[r] = copy[r]
  BY DEF Advances, Moves, Over, Clean, Read, Wrote, Emitted
<1>3. ASSUME NEW r \in Runs, RecordWrites(r)
      PROVE  /\ pc[r] = "locked" /\ copy[r] = results /\ results' = results \cup {Task(r)}
             /\ pc'[r] = "written" /\ copy' = copy
  BY <1>3 DEF RecordWrites, Goes, TypeOK, runVars, Recording
<1>4. ASSUME NEW t \in results' PROVE \E r \in Runs : Wrote(r)' /\ Task(r) = t
  <2>1. CASE t \in results  BY <2>1, <1>1, <1>2 DEF Written
  <2>2. CASE t \notin results
    <3>1. PICK r \in Runs : RecordWrites(r)  BY <2>2, <1>4 DEF Advances
    <3> QED  BY <3>1, <1>3, <1>4, <2>2 DEF Wrote
  <2> QED  BY <2>1, <2>2
<1>5. ASSUME results' = Tasks PROVE \E r \in Runs : Wrote(r)' /\ copy'[r] \cup {Task(r)} = Tasks
  <2>1. CASE results' = results  BY <2>1, <1>1, <1>2, <1>5 DEF Written
  <2>2. CASE \E r \in Runs : RecordWrites(r)  BY <2>2, <1>3, <1>5 DEF Wrote
  <2> QED  BY <2>1, <2>2 DEF Advances
<1>8. ASSUME NEW r \in Runs, Read(r)' PROVE copy'[r] \subseteq results'
  <2>1. results \subseteq results'  BY <1>3 DEF Advances
  <2>2. CASE Read(r)  BY <2>1, <2>2, <1>1, <1>2 DEF Written
  <2>3. CASE RecordReads(r)  BY <2>3 DEF RecordReads, TypeOK
  <2> QED  BY <1>8, <2>2, <2>3 DEF Advances
<1>9. ASSUME NEW r \in Runs, Wrote(r)' PROVE Task(r) \in results'
  <2>1. results \subseteq results'  BY <1>3 DEF Advances
  <2>2. CASE Wrote(r)  BY <2>1, <2>2, <1>1 DEF Written
  <2>3. CASE RecordWrites(r)  BY <2>3, <1>3
  <2> QED  BY <1>9, <2>2, <2>3 DEF Advances
<1>6. Twice => Twice'  BY <1>2 DEF Twice, Read, Wrote, Emitted
<1>7. ASSUME NEW r \in Runs, NEW s \in Runs, Read(r)', Wrote(s)', r # s,
             Task(r) \in copy'[s], Task(s) \in copy'[r]
      PROVE  Twice'
  <2>1. CASE Read(r) /\ Wrote(s)  BY <2>1, <1>1, <1>2, <1>6, <1>7 DEF Written
  <2>2. CASE RecordWrites(s)
    <3>1. pc[s] = "locked" /\ copy'[r] = copy[r] /\ copy'[s] = copy[s]  BY <2>2, <1>3
    <3>2. Read(r)
      <4>1. lock # None  BY <3>1, RunsAreRuns DEF LockHeld
      <4> QED  BY <4>1, <1>7 DEF Advances, RecordReads, MayEnter
    <3>3. pc[r] \notin {"locked", "written"}  BY <3>1, <1>7 DEF LockHeld
    <3>4. Wrote(r) /\ Read(s)  BY <3>1, <3>2, <3>3 DEF Read, Wrote
    <3> QED  BY <3>1, <3>4, <1>1, <1>6, <1>7 DEF Written
  <2>3. CASE RecordReads(r) /\ Wrote(s)
    <3>1. pc[r] = "recording" /\ pc'[r] = "locked"  BY <2>3 DEF RecordReads, Goes, TypeOK
    <3>2. Task(r) \in copy[s]  BY <2>3, <1>2, <1>7
    <3>3. Task(r) \in results  BY <2>3, <3>2, <1>1 DEF Written, Read
    <3>4. PICK p \in Runs : Wrote(p) /\ Task(p) = Task(r)  BY <3>3, <1>1 DEF Written
    <3>5. p # r  BY <3>1, <3>4 DEF Wrote, Emitted
    <3>6. Read(p)'  BY <3>4, <1>2 DEF Read
    <3> QED  BY <3>4, <3>5, <3>6, <1>7 DEF Twice, Read, Wrote, Emitted
  <2> QED  BY <1>7, <2>1, <2>2, <2>3 DEF Advances
<1> QED  BY <1>4, <1>5, <1>7, <1>8, <1>9 DEF Written, Read, Wrote, Emitted

LEMMA InitEnds == Init => EInv
<1> SUFFICES ASSUME Init PROVE EInv  OBVIOUS
<1>1. IInv  BY InitInv
<1>2. \A r \in Runs : pc[r] = "none"  BY DEF Init
<1>3. NoGaps /\ Calling /\ Settled  BY <1>2 DEF NoGaps, Calling, Settled
<1>8. Together  BY <1>2, RunPairs DEF Together, Joins
<1>4. Answered  BY <1>2 DEF Init, Answered
<1>5. Reached
  <2>1. \A j \in Joins : gate[Deps[j]] # Deps[j]
    <3> TAKE j \in Joins
    <3>1. Deps[j] # {}  BY FS_EmptySet DEF Joins
    <3> QED  BY <3>1 DEF Init, Whens
  <2> QED  BY <1>2, <2>1 DEF Init, Reached, Emitted
<1>6. Ending  BY <1>2 DEF Init, Ending, Emitted
<1>7. Written
  <2>1. results = {} /\ Tasks # {}  BY GraphAssumption DEF Init
  <2> QED  BY <1>2, <2>1 DEF Written, Wrote, Read, Emitted
<1> QED  BY <1>1, <1>3, <1>4, <1>5, <1>6, <1>7, <1>8 DEF EInv

LEMMA EndsInductive == EInv /\ [Next]_vars => EInv'
<1> SUFFICES ASSUME EInv, [Next]_vars PROVE EInv'  OBVIOUS
<1>1. IInv'  BY Inductive DEF EInv
<1>2. CASE Next
  <2>1. Shape /\ Advances  BY <1>2, StepShape, StepAdvances DEF EInv, IInv
  <2>2. NoGaps' /\ Calling' /\ Settled' /\ Answered' /\ Reached' /\ Together'
    BY <1>1, <2>1, CallsKeep DEF IInv
  <2>3. Ending' /\ Written'
    BY <1>1, <2>1, EndingKeeps, WrittenKeeps DEF Shape
  <2> QED  BY <1>1, <2>2, <2>3 DEF EInv
<1>3. CASE UNCHANGED vars
  <2>1. NoGaps' /\ Calling' /\ Settled'
    BY <1>3 DEF vars, runVars, EInv, NoGaps, Calling, Settled
  <2>2. Answered' /\ Reached' /\ Together'
    BY <1>3 DEF vars, runVars, EInv, Answered, Reached, Together, Emitted
  <2>3. Ending' /\ Written'
    BY <1>3 DEF vars, runVars, EInv, Ending, Written, Emitted, Wrote, Read, Twice, Clean
  <2> QED  BY <1>1, <2>1, <2>2, <2>3 DEF EInv
<1> QED  BY <1>2, <1>3

\* At rest, what has failed was heard: the least task with a failed run would have been
\* run by a task below it that failed too.
LEMMA FailuresHeard ==
  ASSUME EInv, Quiet, ~Heard
  PROVE  \A r \in Runs : pc[r] \in {"none", "done", "paused"}
<1> USE DEF EInv, IInv
<1> DEFINE failed == {t \in Tasks : \E r \in Runs : Task(r) = t /\ pc[r] \notin {"none", "done", "paused"}}
<1>1. failed # {} => \E t \in failed : Deps[t] \cap failed = {}
  <2>1. failed \in SUBSET Tasks  OBVIOUS
  <2> QED  BY <2>1, GraphAssumption DEF Acyclic
<1>2. ASSUME NEW t \in failed, Deps[t] \cap failed = {} PROVE FALSE
  <2>1. PICK r \in Runs : Task(r) = t /\ pc[r] \notin {"none", "done", "paused"}  OBVIOUS
  <2>2. /\ caller[r] = Kickoff => kick # "done"
        /\ caller[r] \in Answers => resuming[caller[r]] # "done"
        /\ caller[r] \in Runs => pc[caller[r]] \notin {"ending", "done"}
    BY <2>1 DEF Settled
  <2>3. /\ kick = "done"
        /\ \A a \in Answers : resuming[a] \in {"none", "done"}
    BY DEF Quiet, Heard, TypeOK
  <2>4. /\ caller[r] \in Runs /\ Task(caller[r]) \in Deps[t]
        /\ pc[caller[r]] \in {"emitting", "ending", "done", "raised", "cancelled"}
    BY <2>1, <2>2, <2>3 DEF Calling
  <2>5. pc[caller[r]] \notin {"none", "done", "paused"}  BY <2>2, <2>4
  <2>6. Task(caller[r]) \in failed  BY <2>4, <2>5, RunsAreRuns
  <2> QED  BY <2>4, <2>6, <1>2
<1>3. failed = {}  BY <1>1, <1>2
<1>4. \A r \in Runs : Task(r) \in Tasks  BY RunsAreRuns
<1> QED  BY <1>3, <1>4

\* At rest and without a failure every task has its result: the least one without would
\* have been started, and would have recorded it or still wait.
LEMMA AllRecorded ==
  ASSUME EInv, Quiet, ~Heard
  PROVE  results = Tasks
<1> USE DEF EInv, IInv
<1> DEFINE missing == Tasks \ results
<1>1. missing # {} => \E t \in missing : Deps[t] \cap missing = {}
  <2>1. missing \in SUBSET Tasks  OBVIOUS
  <2> QED  BY <2>1, GraphAssumption DEF Acyclic
<1>2. \A r \in Runs : pc[r] \in {"none", "done", "paused"}  BY FailuresHeard
<1>3. Clean  BY <1>2 DEF Clean
<1>4. \A t \in results : \E r \in Runs : Emitted(r) /\ Task(r) = t
  BY <1>2, <1>3 DEF Written, Wrote, Emitted
<1>5. ASSUME NEW t \in missing, Deps[t] \cap missing = {} PROVE FALSE
  <2>1. t \in Tasks /\ Deps[t] \subseteq results
    BY <1>5, GraphAssumption
  <2>2. pc[<<t, 1>>] # "none"
    <3>1. CASE Deps[t] = {}
      BY <3>1, <2>1 DEF Quiet, Reached, Roots
    <3>2. CASE t \in Joins
      <4>1. SUFFICES ASSUME pc[<<t, 1>>] = "none" PROVE FALSE  OBVIOUS
      <4>2. Deps[t] \subseteq gate[Deps[t]]  BY <1>4, <2>1, <3>2, <4>1 DEF Reached
      <4>3. gate[Deps[t]] \subseteq Deps[t]  BY <3>2 DEF TypeOK, Whens
      <4>4. gate[Deps[t]] = Deps[t]  BY <4>2, <4>3
      <4> QED  BY <3>2, <4>1, <4>4 DEF Reached
    <3>3. CASE Deps[t] # {} /\ t \notin Joins
      <4>1. IsFiniteSet(Deps[t])  BY <2>1, GraphAssumption, FS_Subset
      <4>2. Cardinality(Deps[t]) \in Nat /\ Cardinality(Deps[t]) # 0
        BY <4>1, <3>3, FS_CardinalityType, FS_EmptySet
      <4>3. Cardinality(Deps[t]) = 1  BY <4>2, <3>3, <2>1 DEF Joins
      <4>4. PICK d : Deps[t] = {d}  BY <4>1, <4>3, FS_Singleton
      <4>5. PICK r \in Runs : Emitted(r) /\ Task(r) = d  BY <4>4, <2>1, <1>4
      <4> QED  BY <4>4, <4>5, <2>1 DEF Reached
    <3> QED  BY <3>1, <3>2, <3>3
  <2>3. \A r \in Runs : Task(r) = t => pc[r] # "done"
    BY <1>3, <1>5 DEF Written, Wrote, Emitted
  <2>4. <<t, 1>> \in Runs /\ Task(<<t, 1>>) = t  BY <2>1, RunPairs, GraphAssumption
  <2>5. pc[<<t, 1>>] = "paused"  BY <2>2, <2>3, <2>4, <1>2
  <2>6. PICK a \in Answers : Task(a) = t /\ resuming[a] # "none"  BY <2>4, <2>5 DEF Answered, Quiet
  <2>7. \E r \in Runs : Task(r) = t /\ pc[r] \notin {"none", "paused"}
    BY <2>1, <2>6 DEF Answered
  <2> QED  BY <2>3, <2>7, <1>2
<1>6. missing = {}  BY <1>1, <1>5
<1> QED  BY <1>6 DEF TypeOK

\* At rest and without a failure a run has found all other results and emitted the end; two
\* of them would each have found the other's result, and so have run twice.
LEMMA EndEmitted ==
  ASSUME EInv, Quiet, ~Heard
  PROVE  /\ finals >= 1
         /\ (\A r, s \in Runs : pc[r] = "done" /\ pc[s] = "done" /\ Task(r) = Task(s) => r = s)
              => finals = 1
<1> USE DEF EInv, IInv
<1>1. \A r \in Runs : pc[r] \in {"none", "done", "paused"}  BY FailuresHeard
<1>2. Clean /\ results = Tasks  BY <1>1, AllRecorded DEF Clean
<1>3. \A r \in Runs : Read(r) => pc[r] = "done"  BY <1>1 DEF Read, Wrote, Emitted
<1>4. finals >= 1
  <2>1. PICK r \in Runs : Wrote(r) /\ copy[r] \cup {Task(r)} = Tasks  BY <1>2 DEF Written
  <2>2. pc[r] = "done" /\ Emitted(r)  BY <2>1, <1>3 DEF Read, Emitted
  <2>3. last[r]  BY <2>1, <2>2 DEF Ending
  <2> QED  BY <2>2, <2>3 DEF Ending
<1>5. ASSUME \A r, s \in Runs : pc[r] = "done" /\ pc[s] = "done" /\ Task(r) = Task(s) => r = s,
             finals = 2
      PROVE  FALSE
  <2>1. PICK r \in Runs, s \in Runs :
            r # s /\ pc[r] = "done" /\ last[r] /\ pc[s] = "done" /\ last[s]
    BY <1>5 DEF Ending
  <2>2. /\ copy[r] \cup {Task(r)} = Tasks /\ copy[s] \cup {Task(s)} = Tasks
        /\ Read(r) /\ Wrote(s)
    BY <2>1 DEF Ending, Read, Wrote, Emitted
  <2>3. Task(r) # Task(s) /\ Task(r) \in Tasks /\ Task(s) \in Tasks  BY <2>1, <1>5, RunsAreRuns
  <2>4. Task(r) \in copy[s] /\ Task(s) \in copy[r]  BY <2>2, <2>3
  <2>5. Twice  BY <1>2, <2>1, <2>2, <2>4 DEF Written
  <2> QED  BY <2>5, <1>3, <1>5 DEF Twice
<1>6. finals \in 0 .. 2  BY DEF TypeOK
<1> QED  BY <1>4, <1>5, <1>6

\* For any graph that validate_task_dag accepts, any approvals and any number of runs: when
\* the graph rests and no caller has seen an error, every task has its result and the end
\* was emitted, once unless a task finished twice (_record_task_success, finalize).
THEOREM GraphsEnd == Spec => []GraphEnds
<1>1. EInv => GraphEnds
  <2> SUFFICES ASSUME EInv, Quiet, ~Heard
               PROVE  /\ results = Tasks /\ finals >= 1
                      /\ (\A r, s \in Runs : pc[r] = "done" /\ pc[s] = "done" /\ Task(r) = Task(s) => r = s)
                           => finals = 1
    BY DEF GraphEnds
  <2> QED  BY AllRecorded, EndEmitted
<1> QED  BY <1>1, InitEnds, EndsInductive, PTL DEF Spec
=============================================================================
