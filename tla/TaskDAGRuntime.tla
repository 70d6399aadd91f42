---------------------------- MODULE TaskDAGRuntime ----------------------------
(***************************************************************************)
(* A compiled TaskDAG on one TriggerFlow execution: kickoff starts the      *)
(* roots, every task records its result and emits its done event, which     *)
(* runs its dependents inside the emit, joins wait for the done events of   *)
(* all their dependencies, and the task that records the last result emits  *)
(* the end of the graph.  A dispatch whose handler raises cancels the other *)
(* handlers and raises itself; an answered approval dispatches the signal   *)
(* of the paused task again, to all its handlers.                           *)
(*                                                                         *)
(* A task may run more than once, so each run has a number.                 *)
(***************************************************************************)
EXTENDS Naturals, FiniteSets

CONSTANTS
    Tasks, Deps,   \* the graph: the dependencies of each task
    NeedsApproval, \* _approval_required
    Skips,         \* tasks with the fallback skip
    MayFail,       \* tasks that may raise: an input that cannot be resolved, or the handler, after
                   \* all its attempts
    MaxRuns,       \* bound: runs of one task; an approval without a run left stays unanswered
    MaxAnswers,    \* bound: answers to the approval of one task
    None

\* validate_task_dag sorts the tasks: of any tasks, one has all its dependencies elsewhere.
Acyclic == \A S \in SUBSET Tasks : S # {} => \E t \in S : Deps[t] \cap S = {}

ASSUME GraphAssumption ==
    /\ IsFiniteSet(Tasks) /\ Tasks # {} /\ Acyclic
    /\ MaxRuns \in Nat \ {0} /\ MaxAnswers \in Nat
    /\ None \notin Tasks /\ None \notin Tasks \X Nat
    /\ Deps \in [Tasks -> SUBSET Tasks]
    /\ NeedsApproval \subseteq Tasks /\ Skips \subseteq Tasks /\ MayFail \subseteq Tasks

VARIABLES
    pc,       \* the step of each run
    caller,   \* who awaits it: the run that emitted, kickoff, or a resume
    resume,   \* data.is_resume of the run
    copy,     \* the results a run has read under the lock
    last,     \* emit_done_graph of the run
    results,  \* the tasks in task_results
    lock,     \* result_lock
    gate,     \* when_states: the events seen for each set of dependencies that joins wait for
    waiting,  \* tasks whose interrupt waits
    resuming, \* continue_with: the answers to each task's interrupt
    kick,     \* kickoff
    finals    \* runs of finalize, up to two

runVars == <<caller, resume, copy, last>>
vars == <<pc, runVars, results, lock, gate, waiting, resuming, kick, finals>>

Runs == Tasks \X (1 .. MaxRuns)
Kickoff == <<None, 0>>
Answers == NeedsApproval \X (MaxRuns + 1 .. MaxRuns + MaxAnswers)
Task(r) == r[1]

Roots == {t \in Tasks : Deps[t] = {}}
Joins == {t \in Tasks : Cardinality(Deps[t]) > 1}

\* The joins of the same tasks share one signal, whose name is made from theirs.
Whens == {Deps[j] : j \in Joins}

\* The tasks that the signal of t starts.
Hearers(t) == {u \in Tasks : u = t \/ (Deps[t] # {} /\ Deps[u] = Deps[t])}

Init ==
    /\ pc = [r \in Runs |-> "none"]
    /\ caller = [r \in Runs |-> Kickoff]
    /\ resume = [r \in Runs |-> FALSE]
    /\ copy = [r \in Runs |-> {}]
    /\ last = [r \in Runs |-> FALSE]
    /\ results = {} /\ lock = None
    /\ gate = [D \in Whens |-> {}]
    /\ waiting = {}
    /\ resuming = [a \in Answers |-> "none"]
    /\ kick = "none" /\ finals = 0

Over == {"done", "paused", "raised", "cancelled"}
Live(r) == pc[r] \notin Over \cup {"none"}

Called(c) == {r \in Runs : pc[r] # "none" /\ caller[r] = c}

Goes(r, step) == pc' = [pc EXCEPT ![r] = step]

-----------------------------------------------------------------------------
(* Signals *)

\* Mutant of Opened: the join does not wait for the others.
OpenedByAny(D, events) == events # {}

\* The "and" of a join: have all its events come?
Opened(D, events) == events = D

\* The next run of a task of S.
NextRun(S, r) ==
    Task(r) \in S /\ pc[r] = "none" /\ \A k \in 1 .. r[2] - 1 : pc[<<Task(r), k>>] # "none"

\* A run of each task of S begins, for c; those in resumed see is_resume.
Started(S, c, resumed) ==
    /\ pc' = [r \in Runs |-> IF NextRun(S, r) THEN "ready" ELSE IF r = c THEN "emitting" ELSE pc[r]]
    /\ caller' = [r \in Runs |-> IF NextRun(S, r) THEN c ELSE caller[r]]
    /\ resume' = [r \in Runs |-> IF NextRun(S, r) THEN Task(r) \in resumed ELSE resume[r]]

\* done:t is dispatched: to the tasks that depend on t alone, and to the joins, which
\* dispatch a signal of their own once all their events have come.
DispatchDone(t, c, isResume) ==
    LET events == [D \in Whens |-> IF t \in D THEN gate[D] \cup {t} ELSE gate[D]]
        joined == {j \in Joins : t \in Deps[j] /\ Opened(Deps[j], events[Deps[j]])}
        alone  == {d \in Tasks : Deps[d] = {t}}
    IN  /\ gate' = events
        /\ Started(joined \cup alone, c, IF isResume THEN alone ELSE {})

\* Mutant of LockAfter: a cancelled run keeps the lock.
LockKept(gone) == lock

\* async with result_lock: a cancelled run lets go of it.
LockAfter(gone) == IF lock \in gone THEN None ELSE lock

\* Does c await r, directly or through other runs?
Awaits(c, r) ==
    LET above[n \in 0 .. Cardinality(Tasks), q \in Runs] ==
            caller[q] = c \/ (n > 0 /\ caller[q] \in Runs /\ above[n - 1, caller[q]])
    IN  above[Cardinality(Tasks), r]

Awaited(c) == {r \in Runs : Live(r) /\ Awaits(c, r)}

\* A handler of a dispatch of c raised: the other handlers are cancelled, with what they await.
CancelOthers(c, how) ==
    LET gone == Awaited(c) \ {c}
    IN  /\ pc' = [r \in Runs |-> IF r \in gone THEN "cancelled" ELSE IF r = c THEN how ELSE pc[r]]
        /\ lock' = LockAfter(gone)

\* The joins' signal forgets its events when the last of its runs has returned to it; an
\* answer dispatches the signal of a paused join itself.
GateAfter(r) ==
    LET D == Deps[Task(r)]
        mates == {q \in Called(caller[r]) : Deps[Task(q)] = D /\ q # r}
    IN  gate' = IF /\ D \in Whens
                   /\ caller[r] \in Answers => Deps[Task(caller[r])] # D
                   /\ \A q \in mates : pc[q] \in {"done", "paused"}
                  THEN [gate EXCEPT ![D] = {}] ELSE gate

-----------------------------------------------------------------------------
(* kickoff *)

Kick ==
    /\ kick = "none"
    /\ kick' = "running"
    /\ Started(Roots, Kickoff, {})
    /\ UNCHANGED <<copy, last, results, lock, gate, waiting, resuming, finals>>

\* gather(*root_tasks): the first error ends it, and the other roots go on.
KickEnds ==
    /\ kick = "running"
    /\ \/ /\ \E r \in Called(Kickoff) : pc[r] = "raised"
          /\ kick' = "raised"
       \/ /\ \A r \in Called(Kickoff) : pc[r] \in {"done", "paused"}
          /\ kick' = "done"
    /\ UNCHANGED <<pc, runVars, results, lock, gate, waiting, resuming, finals>>

-----------------------------------------------------------------------------
(* run_task *)

\* The results of the dependencies are read and the inputs resolved, outside the try: a
\* task that fails here is not recorded as failed, and not skipped.  The gate of a task that
\* needs an approval decides at once or pauses it.  A resumed run does not ask.
Begin(r) ==
    /\ pc[r] = "ready"
    /\ \/ /\ Task(r) \in MayFail \/ ~(Deps[Task(r)] \subseteq results)
          /\ Goes(r, "raised") /\ UNCHANGED <<waiting, gate>>
       \/ /\ Deps[Task(r)] \subseteq results
          /\ Goes(r, "working") /\ UNCHANGED <<waiting, gate>>
       \/ /\ Deps[Task(r)] \subseteq results
          /\ Task(r) \in NeedsApproval /\ ~resume[r]
          /\ Goes(r, "failing") /\ UNCHANGED <<waiting, gate>>
       \/ /\ Deps[Task(r)] \subseteq results
          /\ Task(r) \in NeedsApproval /\ ~resume[r]
          /\ Goes(r, "paused") /\ waiting' = waiting \cup {Task(r)}
          /\ GateAfter(r)
    /\ UNCHANGED <<runVars, results, lock, resuming, kick, finals>>

HandlerReturns(r) ==
    /\ pc[r] = "working"
    /\ Goes(r, "recording")
    /\ UNCHANGED <<runVars, results, lock, gate, waiting, resuming, kick, finals>>

\* _execute_node_handler gives up.
HandlerFails(r) ==
    /\ pc[r] = "working" /\ Task(r) \in MayFail
    /\ Goes(r, "failing")
    /\ UNCHANGED <<runVars, results, lock, gate, waiting, resuming, kick, finals>>

\* _record_task_failure, under the lock; then the skip is recorded as a result, or the
\* error goes on.
RecordFailure(r) ==
    /\ pc[r] = "failing" /\ lock = None
    /\ Goes(r, IF Task(r) \in Skips THEN "recording" ELSE "raised")
    /\ UNCHANGED <<runVars, results, lock, gate, waiting, resuming, kick, finals>>

\* Mutant of MayEnter: the results are read and written without the lock.
MayAlwaysEnter(r) == TRUE

MayEnter(r) == lock = None

\* _record_task_success reads the results ...
RecordReads(r) ==
    /\ pc[r] = "recording" /\ MayEnter(r)
    /\ lock' = r
    /\ copy' = [copy EXCEPT ![r] = results]
    /\ Goes(r, "locked")
    /\ UNCHANGED <<caller, resume, last, results, gate, waiting, resuming, kick, finals>>

\* ... and writes them with its own, then the statuses.
RecordWrites(r) ==
    /\ pc[r] = "locked"
    /\ results' = copy[r] \cup {Task(r)}
    /\ Goes(r, "written")
    /\ UNCHANGED <<runVars, lock, gate, waiting, resuming, kick, finals>>

\* The lock is given back and the done event emitted.
EmitDone(r) ==
    /\ pc[r] = "written"
    /\ lock' = None
    /\ last' = [last EXCEPT ![r] = copy[r] \cup {Task(r)} = Tasks]
    /\ DispatchDone(Task(r), r, FALSE)
    /\ UNCHANGED <<copy, results, waiting, resuming, kick, finals>>

\* The dependents have returned; the one with the last result emits the end.
EmitReturns(r) ==
    /\ pc[r] = "emitting"
    /\ \A c \in Called(r) : pc[c] \in {"done", "paused"}
    /\ IF last[r] THEN Goes(r, "ending") /\ UNCHANGED gate
                  ELSE Goes(r, "done") /\ GateAfter(r)
    /\ UNCHANGED <<runVars, results, lock, waiting, resuming, kick, finals>>

EmitFails(r) ==
    /\ pc[r] = "emitting"
    /\ \E c \in Called(r) : pc[c] = "raised"
    /\ CancelOthers(r, "raised")
    /\ UNCHANGED <<runVars, results, gate, waiting, resuming, kick, finals>>

\* finalize, dispatched by the done event of the graph.
Finalize(r) ==
    /\ pc[r] = "ending"
    /\ finals' = IF finals = 2 THEN 2 ELSE finals + 1
    /\ Goes(r, "done")
    /\ GateAfter(r)
    /\ UNCHANGED <<runVars, results, lock, waiting, resuming, kick>>

-----------------------------------------------------------------------------
(* continue_with: the signal of the paused run is dispatched again *)

Answer(a) ==
    LET t == Task(a)
    IN  /\ t \in waiting /\ resuming[a] = "none"
        /\ \A b \in Answers : Task(b) = t /\ b[2] < a[2] => resuming[b] # "none"
        /\ \A u \in Hearers(t) : pc[<<u, MaxRuns>>] = "none"
        /\ waiting' = waiting \ {t}
        /\ resuming' = [resuming EXCEPT ![a] = "running"]
        /\ \/ /\ Cardinality(Deps[t]) = 1
              /\ \E p \in Deps[t] : DispatchDone(p, a, TRUE)
           \/ /\ Cardinality(Deps[t]) # 1
              /\ Started(Hearers(t), a, Hearers(t)) /\ UNCHANGED gate
        /\ UNCHANGED <<copy, last, results, lock, kick, finals>>

\* A dispatch that raises puts the interrupt back: it may be answered again.
ResumeEnds(a) ==
    /\ resuming[a] = "running"
    /\ \/ /\ \A r \in Called(a) : pc[r] \in {"done", "paused"}
          /\ resuming' = [resuming EXCEPT ![a] = "done"]
          /\ UNCHANGED <<pc, lock, waiting>>
       \/ /\ \E r \in Called(a) : pc[r] = "raised"
          /\ resuming' = [resuming EXCEPT ![a] = "raised"]
          /\ waiting' = waiting \cup {Task(a)}
          /\ CancelOthers(a, "raised")
    /\ UNCHANGED <<runVars, results, gate, kick, finals>>

-----------------------------------------------------------------------------
RunStep(r) ==
    \/ Begin(r) \/ HandlerReturns(r) \/ HandlerFails(r) \/ RecordFailure(r)
    \/ RecordReads(r) \/ RecordWrites(r)
    \/ EmitDone(r) \/ EmitReturns(r) \/ EmitFails(r) \/ Finalize(r)

Loop == Kick \/ KickEnds \/ (\E r \in Runs : RunStep(r)) \/ \E a \in Answers : ResumeEnds(a)

Next == Loop \/ \E a \in Answers : Answer(a)

Spec == Init /\ [][Next]_vars

\* The event loop goes on as long as a task is ready, and handlers end; nothing makes
\* anybody answer an approval.
Fairness == WF_vars(Loop)

FairSpec == Spec /\ Fairness

-----------------------------------------------------------------------------
(* Properties *)

Steps == {"none", "ready", "working", "failing", "recording", "locked", "written", "emitting", "ending"}

\* Every variable keeps its type, and the lock is held by a run that records its result.
TypeOK ==
    /\ pc \in [Runs -> Steps \cup Over]
    /\ caller \in [Runs -> Runs \cup {Kickoff} \cup Answers]
    /\ resume \in [Runs -> BOOLEAN] /\ last \in [Runs -> BOOLEAN]
    /\ copy \in [Runs -> SUBSET Tasks] /\ results \subseteq Tasks
    /\ lock # None => lock \in Runs /\ pc[lock] \in {"locked", "written"}
    /\ gate \in [Whens -> SUBSET Tasks] /\ \A D \in Whens : gate[D] \subseteq D
    /\ waiting \subseteq NeedsApproval
    /\ resuming \in [Answers -> {"none", "running", "done", "raised"}]
    /\ kick \in {"none", "running", "done", "raised"} /\ finals \in 0 .. 2

\* _task_trigger, run_task: a run begins only when the results of all its dependencies
\* are recorded, whichever event, join or resume it comes from.
DependenciesFirst == \A r \in Runs : pc[r] = "ready" => Deps[Task(r)] \subseteq results

Quiet ==
    /\ kick \in {"done", "raised"} /\ waiting = {}
    /\ \A r \in Runs : ~Live(r)
    /\ \A a \in Answers : resuming[a] # "running"

Heard == kick = "raised" \/ \E a \in Answers : resuming[a] = "raised"

\* _record_task_success: when the graph has come to rest and no caller has seen an error,
\* every task has its result and the end of the graph has been emitted, once unless a
\* resume made a finished task finish again.
GraphEnds ==
    Quiet /\ ~Heard =>
        /\ results = Tasks /\ finals >= 1
        /\ (\A r, s \in Runs : pc[r] = "done" /\ pc[s] = "done" /\ Task(r) = Task(s) => r = s)
             => finals = 1

\* kickoff, continue_with: whatever fails, pauses or is cancelled, no caller waits for ever.
CallersReturn ==
    /\ kick = "running" ~> kick \in {"done", "raised"}
    /\ \A a \in Answers : resuming[a] = "running" ~> resuming[a] \in {"done", "raised"}
=============================================================================
