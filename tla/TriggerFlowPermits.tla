------------------------- MODULE TriggerFlowPermits -------------------------
(***************************************************************************)
(* The execution-wide concurrency limit of TriggerFlow                     *)
(* (core/orchestration/TriggerFlow/Execution.py, _concurrency_semaphore    *)
(* and the context variable _concurrency_permit_held).                     *)
(*                                                                         *)
(* Every handler task takes a permit of one asyncio.Semaphore before it    *)
(* runs its chunk and gives it back in a `finally`.  A handler that awaits *)
(* an internal dispatch (data.async_emit, a chunk continuation) gives its  *)
(* permit back for the time of the dispatch and takes one again, in a      *)
(* `finally`, before it goes on.  batch() and for_each() await several     *)
(* such dispatches at once, each in a task of its own whose context is a   *)
(* copy of the handler's.  A handler can be cancelled by a failing         *)
(* sibling or by the drain of close() whose timeout ran out.               *)
(*                                                                         *)
(* Abstracted: values, events, which chunk a signal reaches (any handler   *)
(* not yet used may be the one a dispatch runs).                           *)
(***************************************************************************)
EXTENDS Integers, FiniteSets

CONSTANTS
    Handlers,   \* handler invocations (tasks created by run_handler)
    NoHandler,  \* the parent of a handler no handler is waiting for
    Permits,    \* the argument of set_concurrency
    MaxFanOut,  \* bound: branches one handler awaits at once
    MayRaise,   \* whether handlers may raise
    MaxDrains   \* bound: how often a close runs out of time and cancels

ASSUME PermitsAssumption ==
    /\ IsFiniteSet(Handlers)
    /\ NoHandler \notin Handlers
    /\ Permits \in Nat \ {0}
    /\ MaxFanOut \in Nat \ {0}
    /\ MayRaise \in BOOLEAN
    /\ MaxDrains \in Nat

VARIABLES
    pc,       \* where each handler task is
    parent,   \* the handler that awaits this handler's dispatch
    branch,   \* where that awaiting branch is in the yielding dispatch
    doomed,   \* handler tasks with a cancellation not delivered yet
    permits,  \* the value of the semaphore
    drains,   \* closes that ran out of time so far
    plain     \* history: no fan-out to several branches, error or cancellation yet

vars == <<pc, parent, branch, doomed, permits, drains, plain>>

Places == {"unborn", "waiting", "running", "fanned", "cancelling", "done", "failed", "cancelled"}

BranchPlaces == {"none", "ready", "inside", "regain", "back", "lost"}

TypeOK ==
    /\ pc \in [Handlers -> Places]
    /\ parent \in [Handlers -> Handlers \cup {NoHandler}]
    /\ branch \in [Handlers -> BranchPlaces]
    /\ doomed \subseteq Handlers
    /\ permits \in Nat
    /\ drains \in Nat
    /\ plain \in BOOLEAN

Unborn == {h \in Handlers : pc[h] = "unborn"}
Running == {h \in Handlers : pc[h] = "running"}
Live == {h \in Handlers : pc[h] \in {"waiting", "running", "fanned", "cancelling"}}
Children(p) == {b \in Handlers : parent[b] = p}
BranchesOver(p) == \A b \in Children(p) : branch[b] \in {"back", "lost"}

Init ==
    /\ pc = [h \in Handlers |-> "unborn"]
    /\ parent = [h \in Handlers |-> NoHandler]
    /\ branch = [h \in Handlers |-> "none"]
    /\ doomed = {}
    /\ permits = Permits
    /\ drains = 0
    /\ plain = TRUE

-----------------------------------------------------------------------------
(* Entering and leaving a handler *)

\* A dispatch that no handler awaits: a direct emit or START from outside, or
\* the task of emit_nowait, which a running handler too may create: its context
\* says that no permit is held, so nothing is given back.
Emit(h) ==
    /\ pc[h] = "unborn"
    /\ pc' = [pc EXCEPT ![h] = "waiting"]
    /\ UNCHANGED <<parent, branch, doomed, permits, drains, plain>>

\* mutant of Acquire: a handler runs without waiting until a permit is free
AcquireAtOnce(h) ==
    /\ pc[h] = "waiting" /\ h \notin doomed
    /\ permits' = permits - 1
    /\ pc' = [pc EXCEPT ![h] = "running"]
    /\ UNCHANGED <<parent, branch, doomed, drains, plain>>

Acquire(h) ==
    /\ pc[h] = "waiting" /\ h \notin doomed
    /\ permits > 0
    /\ permits' = permits - 1
    /\ pc' = [pc EXCEPT ![h] = "running"]
    /\ UNCHANGED <<parent, branch, doomed, drains, plain>>

\* The dispatch of a handler that ended is over: the branch that awaits it, if
\* there is one, goes on to the acquire of its `finally`.
DispatchOver(h) ==
    branch' = [branch EXCEPT ![h] = IF @ = "inside" THEN "regain" ELSE @]

\* A handler ends and its `finally` releases the permit.
Leave(h, how) ==
    /\ pc' = [pc EXCEPT ![h] = how]
    /\ permits' = permits + 1
    /\ DispatchOver(h)

HandlerReturns(h) ==
    /\ pc[h] = "running" /\ h \notin doomed
    /\ Leave(h, "done")
    /\ UNCHANGED <<parent, doomed, drains, plain>>

-----------------------------------------------------------------------------
(* A handler that awaits dispatches *)

\* The handler creates the branches it will await: one for a continuation or an
\* async_emit, several for batch and for_each.
FanOut(p, B) ==
    /\ pc[p] = "running" /\ p \notin doomed
    /\ pc' = [pc EXCEPT ![p] = "fanned"]
    /\ parent' = [b \in Handlers |-> IF b \in B THEN p ELSE parent[b]]
    /\ branch' = [b \in Handlers |-> IF b \in B THEN "ready" ELSE branch[b]]
    /\ plain' = (plain /\ Cardinality(B) = 1)
    /\ UNCHANGED <<doomed, permits, drains>>

\* mutant of YieldPermit: the handler keeps its permit while it awaits a dispatch
KeepPermit(b) ==
    /\ branch[b] = "ready" /\ pc[b] = "unborn"
    /\ branch' = [branch EXCEPT ![b] = "inside"]
    /\ pc' = [pc EXCEPT ![b] = "waiting"]
    /\ UNCHANGED <<parent, doomed, permits, drains, plain>>

\* The branch finds the context variable set (its own copy of it), releases
\* the permit and dispatches; the handler of the dispatch waits for a permit.
YieldPermit(b) ==
    /\ branch[b] = "ready" /\ pc[b] = "unborn"
    /\ permits' = permits + 1
    /\ branch' = [branch EXCEPT ![b] = "inside"]
    /\ pc' = [pc EXCEPT ![b] = "waiting"]
    /\ UNCHANGED <<parent, doomed, drains, plain>>

\* Branches are cancelled: one that did not start yet never yields, one that
\* waits in `await semaphore.acquire()` leaves it without a permit, and one whose
\* handler is at work has that handler cancelled.
CancelledBranches(S, at) ==
    [b \in Handlers |->
        IF b \notin S THEN at[b]
        ELSE CASE at[b] = "ready"  -> "back"
               [] at[b] = "regain" -> "lost"
               [] OTHER            -> at[b]]

\* mutant of Regain: the `finally` of the yielding dispatch only resets the token
RegainForFree(b) ==
    /\ branch[b] = "regain"
    /\ branch' = [branch EXCEPT ![b] = "back"]
    /\ UNCHANGED <<pc, parent, doomed, permits, drains, plain>>

\* mutant of Regain: of several branches only the first to return takes a permit
RegainOnce(b) ==
    /\ branch[b] = "regain"
    /\ permits > 0
    /\ permits' = IF \E s \in Children(parent[b]) : branch[s] = "back"
                     THEN permits ELSE permits - 1
    /\ branch' = [branch EXCEPT ![b] = "back"]
    /\ UNCHANGED <<pc, parent, doomed, drains, plain>>

\* The branch is over its acquire.  If its dispatch failed, the error reaches the
\* gather: the other branches are cancelled and the handler unwinds when all are over.
Regain(b) ==
    /\ branch[b] = "regain"
    /\ permits > 0
    /\ permits' = permits - 1
    /\ LET p == parent[b]
           others == Children(p) \ {b}
       IN  \/ /\ pc[b] = "done"
              /\ branch' = [branch EXCEPT ![b] = "back"]
              /\ UNCHANGED <<pc, doomed>>
           \/ /\ pc[b] \in {"failed", "cancelled"}
              /\ pc' = [pc EXCEPT ![p] = "cancelling"]
              /\ branch' = CancelledBranches(others, [branch EXCEPT ![b] = "back"])
              /\ doomed' = doomed \cup {s \in others : branch[s] = "inside"}
    /\ UNCHANGED <<parent, drains, plain>>

\* Every branch is back: the handler goes on with its chunk.
GoOn(p) ==
    /\ pc[p] = "fanned" /\ p \notin doomed
    /\ BranchesOver(p)
    /\ pc' = [pc EXCEPT ![p] = "running"]
    /\ parent' = [b \in Handlers |-> IF parent[b] = p THEN NoHandler ELSE parent[b]]
    /\ branch' = [b \in Handlers |-> IF parent[b] = p THEN "none" ELSE branch[b]]
    /\ UNCHANGED <<doomed, permits, drains, plain>>

-----------------------------------------------------------------------------
(* Errors and cancellation *)

\* A handler raises: the other handlers of the same dispatch are cancelled.
HandlerRaises(h) ==
    /\ MayRaise
    /\ pc[h] = "running" /\ h \notin doomed
    /\ Leave(h, "failed")
    /\ \E D \in SUBSET {s \in Live \ {h} : branch[h] = "none" /\ branch[s] = "none"} :
          doomed' = doomed \cup D
    /\ plain' = FALSE
    /\ UNCHANGED <<parent, drains>>

\* The drain of async_close runs out of time and cancels every pending task.
DrainTimesOut ==
    /\ drains < MaxDrains
    /\ Live # {}
    /\ doomed' = doomed \cup Live
    /\ drains' = drains + 1
    /\ plain' = FALSE
    /\ UNCHANGED <<pc, parent, branch, permits>>

\* A handler that still waits for its permit ends without having held one.
CancelWaiting(h) ==
    /\ h \in doomed /\ pc[h] = "waiting"
    /\ pc' = [pc EXCEPT ![h] = "cancelled"]
    /\ doomed' = doomed \ {h}
    /\ DispatchOver(h)
    /\ UNCHANGED <<parent, permits, drains, plain>>

CancelRunning(h) ==
    /\ h \in doomed /\ pc[h] = "running"
    /\ Leave(h, "cancelled")
    /\ doomed' = doomed \ {h}
    /\ UNCHANGED <<parent, drains, plain>>

\* A handler that awaits branches passes the cancellation on to them.
CancelFanned(h) ==
    /\ h \in doomed /\ pc[h] \in {"fanned", "cancelling"}
    /\ pc' = [pc EXCEPT ![h] = "cancelling"]
    /\ branch' = CancelledBranches(Children(h), branch)
    /\ doomed' = (doomed \ {h}) \cup {b \in Children(h) : branch[b] = "inside"}
    /\ UNCHANGED <<parent, permits, drains, plain>>

\* All branches are over: the handler leaves, and its `finally` releases a
\* permit, whether or not a branch brought one back.
Unwind(h) ==
    /\ pc[h] = "cancelling" /\ h \notin doomed
    /\ BranchesOver(h)
    /\ Leave(h, "cancelled")
    /\ UNCHANGED <<parent, doomed, drains, plain>>

Step(h) ==
    \/ Acquire(h)
    \/ HandlerReturns(h)
    \/ YieldPermit(h)
    \/ Regain(h)
    \/ GoOn(h)
    \/ CancelWaiting(h)
    \/ CancelRunning(h)
    \/ CancelFanned(h)
    \/ Unwind(h)

\* The ready branches of a fan-out are handlers not used yet.
Free == {h \in Unborn : branch[h] = "none"}

Next ==
    \/ \E h \in Free : Emit(h)
    \/ \E p \in Handlers : \E B \in SUBSET Free :
          B # {} /\ Cardinality(B) <= MaxFanOut /\ FanOut(p, B)
    \/ \E h \in Handlers : HandlerRaises(h)
    \/ DrainTimesOut
    \/ \E h \in Handlers : Step(h)

Spec == Init /\ [][Next]_vars

\* The event loop runs every task that is ready, a handler ends, and
\* asyncio.Semaphore serves its waiters in order, so that a waiter for whom
\* permits come up again and again gets one: strong fairness for the two acquires.
Fairness ==
    \A h \in Handlers :
        /\ WF_vars(Step(h))
        /\ SF_vars(Acquire(h))
        /\ SF_vars(Regain(h))
        /\ WF_vars(HandlerReturns(h))

FairSpec == Spec /\ Fairness

-----------------------------------------------------------------------------
(* Properties *)

\* The limit patterns.md promises of create_execution(concurrency = ...), "a
\* global handler-dispatch limit for that execution": never more handlers at work
\* than permits.
LimitKept == Cardinality(Running) <= Permits

\* It is kept across any nesting of chunk continuations and internal emits, as
\* long as no handler fans out, raises or is cancelled.
ChainsWithinLimit == plain => LimitKept

\* The releases and acquires of run_handler and of the yielding dispatch pair up,
\* for fan-outs and failed dispatches too: when every handler ended and no branch
\* still owes an acquire, the semaphore is back at the value it started with,
\* unless a branch was cancelled while it waited to take the permit again.
PermitsComeBack ==
    /\ Live = {}
    /\ \A b \in Handlers : branch[b] \notin {"regain", "lost"}
    => permits = Permits

\* "ordinary chains do not deadlock at concurrency=1" (patterns.md): a handler that
\* waits for a permit, or for the dispatches it awaits, ends.
ChainsEnd ==
    \A h \in Handlers :
        pc[h] \in {"waiting", "fanned"} ~> pc[h] \in {"done", "failed", "cancelled"}

=============================================================================
