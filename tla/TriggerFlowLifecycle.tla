------------------------ MODULE TriggerFlowLifecycle ------------------------
(***************************************************************************)
(* The life of one TriggerFlow execution                                   *)
(* (core/orchestration/TriggerFlow/Execution.py): signals and the handlers *)
(* they dispatch, start, seal and unseal, async_close with its drain,      *)
(* freeze and retry, and the monitor of auto_close.                        *)
(*                                                                         *)
(* asyncio: the code between two awaits is one action.  Between the awaits *)
(* of a close or of a dispatch, every other coroutine may run.             *)
(*                                                                         *)
(* Abstracted: values and event names; a signal reaches no handler or one; *)
(* the state is the number of changes made to it; the time that has passed *)
(* (the idle timeout and the drain's deadline may run out at any moment).  *)
(* The pending interrupts, which TriggerFlowInterrupts models, are here    *)
(* only the handlers that paused, and the concurrency limit, which         *)
(* TriggerFlowPermits models, is not set.  skip_exceptions has its default.*)
(***************************************************************************)
EXTENDS Integers, FiniteSets

CONSTANTS
    MaxSignals,  \* bound: signals built in the life of the execution
    Starters,    \* coroutines that call async_start, once each
    Closers,     \* coroutines that call async_close, once each
    Monitor,     \* the auto-close monitor, as a caller of async_close
    Nobody,      \* no signal, no closer
    AutoClose,   \* whether the execution closes itself when idle
    Pausing,     \* whether handlers may pause
    MaxSeals,    \* bound: calls of async_seal by the user, and of async_close(seal=False)
    MaxFaults    \* bound: awaits of a close that raise

ASSUME LifecycleAssumption ==
    /\ MaxSignals \in Nat
    /\ Nobody \notin Closers \cup {Monitor} \cup Starters \cup 1 .. MaxSignals
    /\ Starters \cap 1 .. MaxSignals = {}
    /\ Monitor \notin Closers
    /\ {AutoClose, Pausing} \subseteq BOOLEAN
    /\ MaxSeals \in Nat
    /\ MaxFaults \in Nat

VARIABLES
    lifecycle,     \* _lifecycle_state
    status,        \* _status
    data,          \* changes made to _runtime_data
    terminal,      \* data as of the close snapshot in _terminal_retention, or -1
    closeStarted,  \* _close_started
    phase,         \* where the dispatch of each signal is
    via,           \* how a signal was emitted
    by,            \* the handler or the async_start that awaits its dispatch
    late,          \* history: dispatches the last drain could not wait for, and
                   \* what their handlers emitted
    changed,       \* handlers that made their change of the state
    watched,       \* _retained_managed_tasks
    failures,      \* _retained_task_failures
    waiting,       \* handlers whose interrupt is pending
    resuming,      \* those whose interrupt is resumed, its signal not yet dispatched
    started,       \* _started
    spc,           \* where each async_start is
    lock,          \* the closer that holds _close_lock
    cpc,           \* where each async_close is
    seals,         \* calls counted by MaxSeals
    sealedFor,     \* sealed_for_close of each async_close
    monitor,       \* _auto_close_task
    faults,        \* awaits of closes that raised so far
    awaited,       \* the tasks the drain under way waits for
    cancelling,    \* cancelled tasks that have not ended yet
    history        \* history: "reopened" while a close ran, "timedOut", "paused",
                   \* "refused": the monitor's close

signalVars  == <<phase, via, by, late>>
workVars    == <<changed, watched, failures, cancelling>>
pauseVars   == <<waiting, resuming>>
closeVars   == <<closeStarted, lock, cpc, sealedFor, faults, awaited, seals>>
startVars   == <<started, spc>>
stateVars   == <<data, terminal>>
vars == <<lifecycle, status, stateVars, signalVars, workVars, pauseVars, startVars,
          closeVars, monitor, history>>

Signals == 1 .. MaxSignals
AllClosers == Closers \cup {Monitor}
NotFrozen == -1
Terminals == {"completed", "failed", "cancelled"}

\* begun: accepted and not yet at its handler; handling: its handler runs; nested:
\* its handler awaits the dispatch of a signal it emitted.
Alive == {"queued", "begun", "handling", "nested"}
\* ended: returned, rejected or cancelled.
Ended == {"ended", "failed"}

StarterPC == {"idle", "resources", "announcing", "dispatching", "done"}
\* refusing: it announces why it will raise; unsealing: it raises and announces the unseal
CloserPC == {"idle", "lock", "cancelling", "sealing", "draining", "drained", "settled",
             "frozen", "closed", "refusing", "unsealing", "done", "raised"}

TypeOK ==
    /\ lifecycle \in {"open", "sealed", "closed"}
    /\ status \in {"created", "running", "waiting"} \cup Terminals
    /\ data \in Nat
    /\ terminal \in Nat \cup {NotFrozen}
    /\ closeStarted \in BOOLEAN
    /\ phase \in [Signals -> Alive \cup Ended \cup {"free"}]
    /\ via \in [Signals -> {"none", "start", "direct", "nowait", "resume"}]
    /\ by \in [Signals -> Signals \cup Starters \cup {Nobody}]
    /\ late \subseteq Signals
    /\ changed \subseteq Signals
    /\ watched \subseteq Signals
    /\ failures \subseteq Signals
    /\ waiting \subseteq Signals
    /\ resuming \subseteq Signals
    /\ started \in BOOLEAN
    /\ spc \in [Starters -> StarterPC]
    /\ lock \in AllClosers \cup {Nobody}
    /\ cpc \in [AllClosers -> CloserPC]
    /\ sealedFor \in [AllClosers -> BOOLEAN]
    /\ monitor \in {"off", "watching", "firing", "closing"}
    /\ faults \in 0 .. MaxFaults
    /\ seals \in 0 .. MaxSeals
    /\ awaited \subseteq Signals
    /\ cancelling \subseteq Signals
    /\ history \subseteq {"reopened", "timedOut", "paused", "refused"}

Init ==
    /\ lifecycle = "open" /\ status = "created"
    /\ data = 0 /\ terminal = NotFrozen
    /\ closeStarted = FALSE
    /\ phase = [s \in Signals |-> "free"]
    /\ via = [s \in Signals |-> "none"]
    /\ by = [s \in Signals |-> Nobody]
    /\ late = {}
    /\ changed = {} /\ watched = {} /\ failures = {}
    /\ waiting = {} /\ resuming = {}
    /\ started = FALSE
    /\ spc = [x \in Starters |-> "idle"]
    /\ lock = Nobody
    /\ cpc = [c \in AllClosers |-> "idle"]
    /\ sealedFor = [c \in AllClosers |-> FALSE]
    /\ monitor = "off"
    /\ faults = 0 /\ seals = 0
    /\ awaited = {} /\ cancelling = {}
    /\ history = {}

-----------------------------------------------------------------------------
(* State predicates of the code *)

\* The tasks the execution adopted and that are not done: those of emit_nowait
\* and the handlers.  A dispatch awaited by an outside caller is not one of them.
Pending ==
    {s \in Signals : phase[s] \in {"handling", "nested"}
                     \/ (via[s] = "nowait" /\ phase[s] \in Alive)}

\* history: what a drain has no task of, the dispatches that have not reached their
\* handler and the answers whose signal is not dispatched yet.
Unseen == resuming \cup {s \in Signals : phase[s] = "begun" /\ via[s] # "nowait"}

\* Mutant of Idle: a start that returned is still counted as an operation.
IdleLeaks ==
    /\ \A s \in Signals : phase[s] \notin Alive
    /\ \A x \in Starters : spc[x] = "idle"

\* is_idle
Idle ==
    /\ \A s \in Signals : phase[s] \notin Alive
    /\ \A x \in Starters : spc[x] \in {"idle", "done"}

\* _accepts_signal_in_current_lifecycle; internal: emitted by a chunk or resuming one
Accepts(internal) == lifecycle = "open" \/ (closeStarted /\ internal)

\* Mutant of Mutable: the state is never protected.
MutableAlways == TRUE

\* _ensure_terminal_state_mutable
Mutable == terminal = NotFrozen \/ lifecycle = "closed"

\* _mark_activity, in the lifecycle state that is current when it runs
Activity(life) ==
    monitor' = IF AutoClose /\ life # "closed" /\ monitor = "off" THEN "watching" ELSE monitor

Fresh == {s \in Signals : phase[s] = "free"}
NextSignal == CHOOSE s \in Fresh : \A t \in Fresh : s <= t

\* A signal is built, and accepted into phase "where"; a rejected one is no more.  Its
\* dispatch is awaited by "parent"; it is emitted by, or answers, "origin".
Emitted(s, how, parent, origin, internal, where) ==
    LET in == Accepts(internal) IN
    /\ via' = [via EXCEPT ![s] = IF in THEN how ELSE @]
    /\ by' = [by EXCEPT ![s] = IF in \/ parent \in Starters THEN parent ELSE @]
    /\ late' = IF in /\ origin \in late THEN late \cup {s} ELSE late
    /\ phase' = [t \in Signals |->
                   IF t = s THEN IF in THEN where ELSE "ended"
                   ELSE IF t = parent /\ in THEN "nested" ELSE phase[t]]

-----------------------------------------------------------------------------
(* Emitting *)

\* async_emit_nowait, _emit_nowait: accepted at once, dispatched by a task.
EmitNowait(internal, origin) ==
    /\ Fresh # {}
    /\ Emitted(NextSignal, "nowait", Nobody, origin, internal, "queued")
    /\ IF Accepts(internal)
         THEN /\ watched' = watched \cup {NextSignal}
              /\ Activity(lifecycle)
         ELSE UNCHANGED <<watched, monitor>>
    /\ UNCHANGED <<lifecycle, status, stateVars, changed, failures, cancelling, pauseVars, startVars, closeVars, history>>

EmitNowaitOutside == EmitNowait(FALSE, Nobody)

EmitNowaitInside(p) == phase[p] = "handling" /\ EmitNowait(TRUE, p)

\* async_emit: acceptance is the first thing the dispatch decides.
EmitOutside ==
    /\ Fresh # {}
    /\ Emitted(NextSignal, "direct", Nobody, Nobody, FALSE, "begun")
    /\ Activity(lifecycle)
    /\ UNCHANGED <<lifecycle, status, stateVars, workVars, pauseVars, startVars, closeVars, history>>

\* A handler awaits the signal it emits; a rejected one returns None at once.
EmitInside(p) ==
    /\ phase[p] = "handling" /\ Fresh # {}
    /\ Emitted(NextSignal, "direct", p, p, TRUE, "begun")
    /\ Activity(lifecycle)
    /\ UNCHANGED <<lifecycle, status, stateVars, workVars, pauseVars, startVars, closeVars, history>>

\* continue_with on the pending interrupt of p, ignored unless the execution is open.
Answer(p) ==
    /\ p \in waiting /\ lifecycle = "open"
    /\ waiting' = waiting \ {p}
    /\ resuming' = resuming \cup {p}
    /\ status' = "running"
    /\ Activity(lifecycle)
    /\ UNCHANGED <<lifecycle, stateVars, signalVars, workVars, startVars, closeVars, history>>

\* refresh_waiting_status
Refreshed ==
    IF waiting # {} THEN "waiting" ELSE IF status = "waiting" THEN "running" ELSE status

\* The resume is announced: its signal, internal, is dispatched or dropped.
Resume(p) ==
    /\ p \in resuming /\ Fresh # {}
    /\ resuming' = resuming \ {p}
    /\ Emitted(NextSignal, "resume", Nobody, p, TRUE, "begun")
    /\ status' = IF Accepts(TRUE) THEN status ELSE Refreshed
    /\ Activity(lifecycle)
    /\ UNCHANGED <<lifecycle, stateVars, workVars, waiting, startVars, closeVars, history>>

-----------------------------------------------------------------------------
(* Dispatching *)

\* The task of emit_nowait runs; its signal was accepted when it was emitted.
Begin(s) ==
    /\ phase[s] = "queued"
    /\ phase' = [phase EXCEPT ![s] = "begun"]
    /\ Activity(lifecycle)
    /\ UNCHANGED <<lifecycle, status, stateVars, via, by, late, workVars, pauseVars, startVars, closeVars, history>>

\* Nothing refers any more to the tasks of T, unless an async_start awaits them.
Forget(T) ==
    /\ changed' = changed \ T
    /\ via' = [s \in Signals |-> IF s \in T THEN "none" ELSE via[s]]
    /\ by' = [s \in Signals |-> IF s \in T /\ by[s] \notin Starters THEN Nobody ELSE by[s]]
    /\ late' = late \ T

\* The dispatch of s is over, a handler that awaited it goes on, and the tasks are gone.
Over(s, how) ==
    /\ phase' = [t \in Signals |->
                   IF t = s THEN how
                   ELSE IF t = by[s] /\ phase[t] = "nested" THEN "handling" ELSE phase[t]]
    /\ Forget({s})
    /\ watched' = watched \ {s}
    /\ cancelling' = cancelling \ {s}
    /\ Activity(lifecycle)

\* A continue_with refreshes the status when its dispatch returns.
StatusAfter(s) == IF via[s] = "resume" THEN Refreshed ELSE status

DispatchHandler(s) ==
    /\ phase[s] = "begun"
    /\ phase' = [phase EXCEPT ![s] = "handling"]
    /\ Activity(lifecycle)
    /\ UNCHANGED <<lifecycle, status, stateVars, via, by, late, workVars, pauseVars, startVars, closeVars, history>>

DispatchNothing(s) ==
    /\ phase[s] = "begun"
    /\ Over(s, "ended")
    /\ status' = StatusAfter(s)
    /\ UNCHANGED <<lifecycle, stateVars, failures, pauseVars, startVars, closeVars, history>>

HandlerReturns(s) ==
    /\ phase[s] = "handling"
    /\ Over(s, "ended")
    /\ status' = StatusAfter(s)
    /\ UNCHANGED <<lifecycle, stateVars, failures, pauseVars, startVars, closeVars, history>>

\* The handler raises: its dispatch marks the execution failed and raises too; the
\* error of an emit_nowait task is kept for the close.
Raise(s) ==
    /\ Over(s, "failed")
    /\ status' = "failed"
    /\ failures' = IF s \in watched THEN failures \cup {s} ELSE failures
    /\ UNCHANGED <<lifecycle, stateVars, pauseVars, startVars, closeVars, history>>

HandlerRaises(s) == phase[s] = "handling" /\ Raise(s)

\* A handler changes the state, once; a frozen state makes that call raise.
ChangeState(s) ==
    /\ phase[s] = "handling" /\ s \notin changed
    /\ Mutable
    /\ data' = data + 1
    /\ changed' = changed \cup {s}
    /\ UNCHANGED <<lifecycle, status, terminal, signalVars, watched, failures, cancelling, pauseVars, startVars, closeVars, monitor, history>>

ChangeRefused(s) ==
    /\ phase[s] = "handling" /\ s \notin changed
    /\ ~Mutable
    /\ Raise(s)

\* pause_for stores a pending interrupt, and the handler ends.
HandlerPauses(s) ==
    /\ Pausing
    /\ phase[s] = "handling"
    /\ waiting' = waiting \cup {s}
    /\ status' = "waiting"
    /\ history' = history \cup {"paused"}
    /\ Over(s, "ended")
    /\ UNCHANGED <<lifecycle, stateVars, failures, resuming, startVars, closeVars>>

\* A cancelled task that had not ended when the drain gave up on it ends.
CancelledLate(s) ==
    /\ s \in cancelling /\ phase[s] \in Alive
    /\ \A t \in Signals : by[t] = s => phase[t] \notin Alive
    /\ Over(s, "ended")
    /\ UNCHANGED <<lifecycle, status, stateVars, failures, pauseVars, startVars, closeVars, history>>

-----------------------------------------------------------------------------
(* Starting *)

Start(x, where) == spc' = [spc EXCEPT ![x] = where]

StartBegin(x) ==
    /\ spc[x] = "idle"
    /\ Start(x, IF lifecycle # "open" \/ started THEN "done" ELSE "resources")
    /\ Activity(lifecycle)
    /\ UNCHANGED <<lifecycle, status, stateVars, signalVars, workVars, pauseVars, started, closeVars, history>>

\* Mutant of StartProceed: the status is set to running, whatever it was.
StartRunsAnyway(x) ==
    /\ spc[x] = "resources"
    /\ Start(x, "announcing")
    /\ started' = TRUE
    /\ status' = "running"
    /\ Activity(lifecycle)
    /\ UNCHANGED <<lifecycle, stateVars, signalVars, workVars, pauseVars, closeVars, history>>

\* The execution resources are ready.
StartProceed(x) ==
    /\ spc[x] = "resources"
    /\ Start(x, "announcing")
    /\ started' = TRUE
    /\ status' = IF status \in Terminals THEN status ELSE "running"
    /\ Activity(lifecycle)
    /\ UNCHANGED <<lifecycle, stateVars, signalVars, workVars, pauseVars, closeVars, history>>

\* The start is announced: START is dispatched, or rejected if the execution was
\* sealed meanwhile.
StartDispatch(x) ==
    /\ spc[x] = "announcing" /\ Fresh # {}
    /\ Emitted(NextSignal, "start", x, Nobody, FALSE, "begun")
    /\ Activity(lifecycle)
    /\ Start(x, "dispatching")
    /\ UNCHANGED <<lifecycle, status, stateVars, workVars, pauseVars, started, closeVars, history>>

StartReturns(x) ==
    /\ spc[x] = "dispatching"
    /\ \E s \in Signals : by[s] = x /\ phase[s] \in Ended
    /\ Start(x, "done")
    /\ Activity(lifecycle)
    /\ UNCHANGED <<lifecycle, status, stateVars, signalVars, workVars, pauseVars, started, closeVars, history>>

-----------------------------------------------------------------------------
(* Sealing by the user *)

UserSeals == seals < MaxSeals /\ seals' = seals + 1

Seal ==
    /\ lifecycle = "open"
    /\ UserSeals
    /\ lifecycle' = "sealed"
    /\ UNCHANGED <<status, stateVars, signalVars, workVars, pauseVars, startVars, closeStarted,
                   lock, cpc, sealedFor, faults, awaited, monitor, history>>

Closing == \E c \in AllClosers : cpc[c] \notin {"idle", "lock", "done", "raised"}

Unseal ==
    /\ MaxSeals > 0
    /\ lifecycle = "sealed" /\ Mutable
    /\ lifecycle' = "open"
    /\ history' = IF Closing THEN history \cup {"reopened"} ELSE history
    /\ Activity("open")
    /\ UNCHANGED <<status, stateVars, signalVars, workVars, pauseVars, startVars, closeVars>>

-----------------------------------------------------------------------------
(* Closing *)

Goes(c, where) == cpc' = [cpc EXCEPT ![c] = where]

\* Mutant of Leave: an error leaves the lock taken.
LeaveLocked(c) ==
    /\ cpc' = [cpc EXCEPT ![c] = IF c = Monitor THEN "idle" ELSE "raised"]
    /\ lock' = c
    /\ monitor' = IF c = Monitor THEN "off" ELSE monitor

\* The error leaves async_close: the lock is released, and a monitor's task is done.
Leave(c) ==
    /\ cpc' = [cpc EXCEPT ![c] = IF c = Monitor THEN "idle" ELSE "raised"]
    /\ lock' = Nobody
    /\ monitor' = IF c = Monitor THEN "off" ELSE monitor

\* Mutant of Fail: it unseals only for a close that had already prepared the end.
FailKeepsSeal(c) ==
    /\ closeStarted' = FALSE
    /\ sealedFor' = [sealedFor EXCEPT ![c] = FALSE]
    /\ awaited' = {}
    /\ IF sealedFor[c] /\ terminal # NotFrozen /\ lifecycle = "sealed"
         THEN /\ lifecycle' = "open"
              /\ Goes(c, "unsealing")
              /\ Activity("open")
              /\ UNCHANGED lock
         ELSE Leave(c) /\ UNCHANGED lifecycle

\* A close meets an error: the next may try again.  It unseals what it sealed, unless
\* its terminal state is prepared, and announces that before the error leaves it; the
\* monitor's task is not done until then, so this activity starts no other.
Fail(c) ==
    /\ closeStarted' = FALSE
    /\ sealedFor' = [sealedFor EXCEPT ![c] = FALSE]
    /\ awaited' = {}
    /\ IF sealedFor[c] /\ terminal = NotFrozen /\ lifecycle = "sealed"
         THEN /\ lifecycle' = "open"
              /\ Goes(c, "unsealing")
              /\ Activity("open")
              /\ UNCHANGED lock
         ELSE Leave(c) /\ UNCHANGED lifecycle

\* The error is announced: the lock is still held, and the close is still under way.
Refused(c) ==
    /\ cpc[c] = "refusing"
    /\ Fail(c)
    /\ UNCHANGED <<status, stateVars, signalVars, workVars, pauseVars, startVars, faults, seals, history>>

Unsealed(c) ==
    /\ cpc[c] = "unsealing"
    /\ Leave(c)
    /\ UNCHANGED <<lifecycle, status, stateVars, signalVars, workVars, pauseVars, startVars,
                   closeStarted, sealedFor, faults, awaited, seals, history>>

CloseCall(c) ==
    /\ cpc[c] = "idle"
    /\ Goes(c, IF lifecycle = "closed" THEN "done" ELSE "lock")
    /\ UNCHANGED <<lifecycle, status, stateVars, signalVars, workVars, pauseVars, startVars,
                   closeStarted, lock, sealedFor, faults, awaited, seals, monitor, history>>

\* _handle_pending_interrupts_before_close: what pends is cancelled, or the close is
\* refused; the monitor's policy is to refuse.
CancelPauses(c) ==
    /\ waiting # {} /\ c # Monitor
    /\ waiting' = {}
    /\ status' = "cancelled"
    /\ Activity(lifecycle)
    /\ UNCHANGED <<resuming, history>>

RefusePauses(c) ==
    /\ waiting # {}
    /\ Goes(c, "refusing")
    /\ history' = IF c = Monitor THEN history \cup {"refused"} ELSE history
    /\ UNCHANGED <<pauseVars, status, monitor>>

\* The execution was closed while this close waited for the lock.
AlreadyClosed(c) ==
    /\ cpc[c] = "lock" /\ lock = Nobody /\ lifecycle = "closed"
    /\ Goes(c, "done")
    /\ monitor' = IF c = Monitor THEN "off" ELSE monitor
    /\ UNCHANGED <<lifecycle, status, stateVars, signalVars, workVars, pauseVars, startVars,
                   closeStarted, lock, sealedFor, faults, awaited, seals, history>>

\* async_seal, if it is asked for: a sealed execution is not announced again.
SealFor(c) ==
    \/ /\ lifecycle = "open"
       /\ lifecycle' = "sealed"
       /\ Goes(c, "sealing")
       /\ UNCHANGED <<sealedFor, seals, history>>
    \/ /\ lifecycle = "sealed"
       /\ Goes(c, "draining")
       /\ sealedFor' = [sealedFor EXCEPT ![c] = TRUE]
       /\ UNCHANGED <<lifecycle, seals, history>>
    \/ /\ UserSeals /\ c # Monitor   \* seal=False
       /\ Goes(c, "draining")
       /\ history' = IF lifecycle = "open" THEN history \cup {"reopened"} ELSE history
       /\ UNCHANGED <<lifecycle, sealedFor>>

AcquireLock(c) ==
    /\ cpc[c] = "lock" /\ lock = Nobody /\ lifecycle # "closed"
    /\ lock' = c
    /\ closeStarted' = TRUE
    /\ \/ RefusePauses(c) /\ UNCHANGED <<lifecycle, sealedFor, seals>>
       \/ CancelPauses(c) /\ Goes(c, "cancelling") /\ UNCHANGED <<lifecycle, sealedFor, seals>>
       \/ waiting = {} /\ SealFor(c) /\ UNCHANGED <<pauseVars, status, monitor>>
    /\ UNCHANGED <<stateVars, signalVars, workVars, startVars, faults, awaited>>

\* The cancellation is announced.
Cancelled(c) ==
    /\ cpc[c] = "cancelling"
    /\ SealFor(c)
    /\ UNCHANGED <<status, stateVars, signalVars, workVars, pauseVars, startVars,
                   closeStarted, lock, faults, awaited, monitor>>

\* The seal is announced.
Sealed(c) ==
    /\ cpc[c] = "sealing"
    /\ Goes(c, "draining")
    /\ sealedFor' = [sealedFor EXCEPT ![c] = TRUE]
    /\ UNCHANGED <<lifecycle, status, stateVars, signalVars, workVars, pauseVars, startVars,
                   closeStarted, lock, faults, awaited, seals, monitor, history>>

\* Mutant of DrainRound: the drain does not look again after what it waited for.
DrainOnce(c) ==
    /\ cpc[c] = "draining"
    /\ awaited \cap Pending = {}
    /\ awaited' = IF awaited = {} THEN Pending ELSE {}
    /\ IF awaited' = {} THEN Goes(c, "drained") /\ late' = Unseen ELSE UNCHANGED <<cpc, late>>
    /\ UNCHANGED <<lifecycle, status, stateVars, phase, via, by, workVars, pauseVars, startVars,
                   closeStarted, lock, sealedFor, faults, seals, monitor, history>>

\* A round of the drain: what it waited for is done, and it looks again.
DrainRound(c) ==
    /\ cpc[c] = "draining"
    /\ awaited \cap Pending = {}
    /\ awaited' = Pending
    /\ IF Pending = {} THEN Goes(c, "drained") /\ late' = Unseen ELSE UNCHANGED <<cpc, late>>
    /\ UNCHANGED <<lifecycle, status, stateVars, phase, via, by, workVars, pauseVars, startVars,
                   closeStarted, lock, sealedFor, faults, seals, monitor, history>>

\* The dispatches that the cancellation of the tasks T reaches: those T awaits.
Reached(T) ==
    {s \in Signals : /\ phase[s] \in Alive
                     /\ \A C \in SUBSET Signals :
                          T \subseteq C /\ (\A t \in Signals : by[t] \in C => t \in C) => s \in C}

\* Cancelled tasks that wait for a cancelled task need more than one turn of the loop
\* to end: those of emit_nowait with a handler, and handlers that await a dispatch.
Slow(T) == {s \in T : phase[s] = "nested" \/ (phase[s] = "handling" /\ via[s] = "nowait")}

\* The deadline passes: the drain cancels what it waits for, lets the loop run once,
\* and raises TimeoutError when a task has not ended by then.  It does not look again.
\* The monitor's close has no deadline.
DrainTimesOut(c) ==
    /\ cpc[c] = "draining"
    /\ awaited # {}
    /\ history' = history \cup {"timedOut"}
    /\ LET Hit == Reached(awaited \cap Pending) IN \E Late \in SUBSET Hit :
         /\ Slow(Hit) \subseteq Late
         /\ phase' = [s \in Signals |->
                        IF s \in Hit \ Late THEN "ended"
                        ELSE IF \E t \in Hit \ Late : by[t] = s THEN "handling"
                        ELSE phase[s]]
         /\ Forget(Hit \ Late)
         /\ watched' = watched \ Hit
         /\ cancelling' = cancelling \cup Late
         /\ IF Late = {}
              THEN /\ Goes(c, "drained")
                   /\ Activity(lifecycle)
                   /\ UNCHANGED <<lifecycle, failures, closeStarted, lock, sealedFor, awaited>>
              ELSE /\ Fail(c)
                   /\ failures' = {}
    /\ UNCHANGED <<status, stateVars, pauseVars, startVars, faults, seals>>

\* The drain returns: the first error kept from an emit_nowait task is raised, then
\* the pending interrupts are looked at again, and the interventions expire.
Drained(c) ==
    /\ cpc[c] = "drained"
    /\ failures' = {}
    /\ \/ /\ failures # {}
          /\ status' = "failed"
          /\ Goes(c, "refusing")
          /\ UNCHANGED <<pauseVars, monitor, history>>
       \/ failures = {} /\ RefusePauses(c)
       \/ failures = {} /\ CancelPauses(c) /\ Goes(c, "settled")
       \/ /\ failures = {} /\ waiting = {}
          /\ Goes(c, "settled")
          /\ UNCHANGED <<pauseVars, status, monitor, history>>
    /\ UNCHANGED <<lifecycle, stateVars, signalVars, changed, watched, cancelling, startVars,
                   closeStarted, lock, sealedFor, faults, awaited, seals>>

\* Mutant of Freeze: the status takes the name of the lifecycle state.
FreezeAsClosed(c) ==
    /\ cpc[c] = "settled"
    /\ terminal' = IF terminal = NotFrozen THEN data ELSE terminal
    /\ status' = IF status \in {"failed", "cancelled"} THEN status ELSE "closed"
    /\ Goes(c, "frozen")
    /\ UNCHANGED <<lifecycle, data, signalVars, workVars, pauseVars, startVars, closeStarted,
                   lock, sealedFor, faults, awaited, seals, monitor, history>>

\* The terminal state: the snapshot of the first close that gets here is kept.  What
\* prepares its retention awaits nothing, so that this is one step.
Freeze(c) ==
    /\ cpc[c] = "settled"
    /\ terminal' = IF terminal = NotFrozen THEN data ELSE terminal
    /\ status' = IF status \in {"failed", "cancelled"} THEN status ELSE "completed"
    /\ Goes(c, "frozen")
    /\ UNCHANGED <<lifecycle, data, signalVars, workVars, pauseVars, startVars, closeStarted,
                   lock, sealedFor, faults, awaited, seals, monitor, history>>

\* The stream is closed, the resources are released and the close is announced.
CloseCommit(c) ==
    /\ cpc[c] = "frozen"
    /\ lifecycle' = "closed"
    /\ Goes(c, "closed")
    /\ UNCHANGED <<status, stateVars, signalVars, workVars, pauseVars, startVars, closeStarted,
                   lock, sealedFor, faults, awaited, seals, monitor, history>>

\* After the retention the monitor is cancelled and the lock released.
Finish(c) ==
    /\ cpc[c] = "closed"
    /\ cpc' = [d \in AllClosers |->
                 IF d = c \/ (d = Monitor /\ cpc[d] = "lock") THEN "done" ELSE cpc[d]]
    /\ lock' = Nobody
    /\ monitor' = "off"
    /\ UNCHANGED <<lifecycle, status, stateVars, signalVars, workVars, pauseVars, startVars,
                   closeStarted, sealedFor, faults, awaited, seals, history>>

\* An await of a close raises: announcing the cancellation or the seal, expiring interventions, closing
\* the stream, releasing the resources.
Fault(c) ==
    /\ cpc[c] \in {"cancelling", "sealing", "settled", "frozen"}
    /\ faults < MaxFaults
    /\ faults' = faults + 1
    /\ Fail(c)
    /\ UNCHANGED <<status, stateVars, signalVars, workVars, pauseVars, startVars, seals, history>>

-----------------------------------------------------------------------------
(* The auto-close monitor *)

\* The execution has been idle for the timeout.
MonitorFires ==
    /\ monitor = "watching"
    /\ lifecycle = "open" /\ status # "waiting" /\ Idle
    /\ monitor' = "firing"
    /\ UNCHANGED <<lifecycle, status, stateVars, signalVars, workVars, pauseVars, startVars, closeVars, history>>

MonitorCloses ==
    /\ monitor = "firing"
    /\ IF lifecycle = "closed"
         THEN monitor' = "off" /\ UNCHANGED cpc
         ELSE monitor' = "closing" /\ Goes(Monitor, "lock")
    /\ UNCHANGED <<lifecycle, status, stateVars, signalVars, workVars, pauseVars, startVars,
                   closeStarted, lock, sealedFor, faults, awaited, seals, history>>

-----------------------------------------------------------------------------
Emitting ==
    \/ EmitNowaitOutside \/ EmitOutside
    \/ \E s \in Signals : EmitNowaitInside(s) \/ EmitInside(s) \/ Answer(s) \/ Resume(s)

DispatchStep(s) == DispatchHandler(s) \/ DispatchNothing(s)

HandlerStep(s) ==
    \/ HandlerReturns(s) \/ HandlerRaises(s) \/ HandlerPauses(s)
    \/ ChangeState(s) \/ ChangeRefused(s)

StartStep(x) == StartProceed(x) \/ StartDispatch(x) \/ StartReturns(x)

LockStep(c) == AcquireLock(c) \/ AlreadyClosed(c)

\* Steps of a close that come as soon as the loop runs it.
CloseStep(c) ==
    \/ Cancelled(c) \/ Sealed(c) \/ DrainRound(c) \/ Drained(c) \/ Freeze(c) \/ CloseCommit(c)
    \/ Finish(c) \/ Refused(c) \/ Unsealed(c)

MonitorStep == MonitorFires \/ MonitorCloses

Next ==
    \/ Emitting
    \/ \E s \in Signals : Begin(s) \/ DispatchStep(s) \/ HandlerStep(s) \/ CancelledLate(s)
    \/ \E x \in Starters : StartBegin(x) \/ StartStep(x)
    \/ Seal \/ Unseal
    \/ \E c \in Closers : CloseCall(c) \/ DrainTimesOut(c)
    \/ \E c \in AllClosers : LockStep(c) \/ CloseStep(c) \/ Fault(c)
    \/ MonitorStep

Spec == Init /\ [][Next]_vars

\* The event loop runs every task that is ready and every lock has its waiters in
\* order; the handlers are assumed to return.
Fairness ==
    /\ \A s \in Signals : WF_vars(Begin(s)) /\ WF_vars(DispatchStep(s)) /\ WF_vars(HandlerReturns(s))
                            /\ WF_vars(Resume(s))
    /\ \A x \in Starters : WF_vars(StartStep(x))
    /\ \A c \in AllClosers : SF_vars(LockStep(c)) /\ WF_vars(CloseStep(c))
    /\ WF_vars(MonitorStep)

FairSpec == Spec /\ Fairness

-----------------------------------------------------------------------------
(* Properties *)

\* async_close: until the execution is closed, its state stays what the snapshot of
\* the close says, whatever a handler that outlived the drain, a failed close or the
\* next close does (_ensure_terminal_state_mutable).
SnapshotCurrent == terminal # NotFrozen /\ lifecycle # "closed" => terminal = data

\* _drain_pending_tasks: when the state is frozen by a close whose deadline did not pass
\* and that was not reopened, the work still alive is late: it comes from a dispatch
\* (START, an emit, an answer) that had not reached its handler when the drain ended.
\* Every emit_nowait, and whatever a handler reached before emitted, has ended, also
\* what tasks emitted to each other while the drain ran.
OnlyLateWorkLeft ==
    terminal # NotFrozen /\ history \cap {"reopened", "timedOut"} = {}
        => resuming \cup {s \in Signals : phase[s] \in Alive} \subseteq late

\* async_close: when every close has returned or raised, the execution is not left
\* sealed, whatever the order in which closes, pauses and deadlines met, unless its
\* terminal state is prepared, an await of a close raised or the user sealed it.
FailedCloseReopens ==
    /\ \A c \in AllClosers : cpc[c] \in {"idle", "done", "raised"}
    /\ terminal = NotFrozen /\ faults = 0 /\ seals = 0
    => lifecycle = "open"

\* A handler that raised shows in the status of the execution to its end, through
\* later starts, closes and retries, unless a later pause overwrote it.
FailureReported ==
    (\E s \in Signals : phase[s] = "failed") /\ "paused" \notin history => status = "failed"

\* _close_lock: a close that waits for another one is never left waiting.
ClosesEnd == \A c \in Closers : cpc[c] = "lock" ~> cpc[c] \in {"done", "raised"}

\* The idle execution that auto_close should close.
Resting ==
    /\ AutoClose
    /\ \E s \in Signals : phase[s] # "free"
    /\ lifecycle = "open" /\ waiting = {} /\ resuming = {}
    /\ \A s \in Signals : phase[s] \in Ended \cup {"free"}
    /\ \A x \in Starters : spc[x] \in {"idle", "done"}

NoTrouble ==
    /\ faults = 0 /\ "timedOut" \notin history
    /\ \A s \in Signals : phase[s] # "failed"

\* pause-and-resume.md: when the last pending interrupt is answered and the execution
\* is idle again, the auto-close timer starts again, so that an execution in which
\* nothing failed does not stay open and idle for ever.
AutoCloses == []<>~(Resting /\ NoTrouble)

\* _auto_close_monitor: it does close the idle execution, through starts, other
\* closes that are refused and unseal, and answers, if its own close was never refused.
AutoClosesUnrefused == []<>~(Resting /\ NoTrouble /\ "refused" \notin history)
=============================================================================
