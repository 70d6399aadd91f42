--------------------- MODULE TriggerFlowLifecycleProofs ---------------------
(***************************************************************************)
(* What holds of the life of an execution for any number of signals,       *)
(* starters and closers, faults and seals.                                 *)
(*                                                                         *)
(* SnapshotCurrent is inductive together with the type of the data: the    *)
(* state changes only while no snapshot is kept, or after the close, and   *)
(* nothing leaves the closed state.  FailureReported needs to know that an *)
(* interrupt is pending only after a handler paused, since answering or    *)
(* cancelling one writes the status.                                       *)
(*                                                                         *)
(* FailedCloseReopens rests on the lock: it has one holder, and a sealed   *)
(* execution whose end is not prepared was sealed by that holder or by the *)
(* user (LockInv).  OnlyLateWorkLeft rests on the lock, on what the        *)
(* lifecycle refuses while a close is past its seal, and on what is left   *)
(* when a round of the drain finds no task (Guarded, Settled, Quieted).    *)
(***************************************************************************)
EXTENDS TriggerFlowLifecycle, WellFoundedInduction, TLAPS

SnapshotInv == data \in Nat /\ SnapshotCurrent

PausesRecorded == waiting \cup resuming # {} => "paused" \in history

FailureInv == FailureReported /\ PausesRecorded

Phases == Alive \cup Ended \cup {"free"}

-----------------------------------------------------------------------------
(* Types *)

\* The next signal is the least of the signals that were not built yet.
LEMMA NextSignalFresh ==
  ASSUME Fresh # {}
  PROVE  NextSignal \in Fresh
<1>1. Fresh \subseteq Nat
  BY LifecycleAssumption DEF Fresh, Signals
<1>2. PICK s \in Fresh : \A t \in Fresh : ~ (<<t, s>> \in OpToRel(<, Nat))
  BY <1>1, NatLessThanWellFounded, WFMin
<1>3. ASSUME NEW t \in Fresh
      PROVE  s <= t
  <2>1. s \in Nat /\ t \in Nat
    BY <1>1
  <2>2. t < s => <<t, s>> \in OpToRel(<, Nat)
    BY <2>1 DEF OpToRel
  <2>3. ~ (t < s)
    BY <1>2, <2>2, Zenon
  <2> QED  BY <2>1, <2>3
<1> QED  BY <1>3 DEF NextSignal

\* The parts of the types that the steps of signals and handlers touch.
SignalTypes ==
    /\ phase \in [Signals -> Phases]
    /\ via \in [Signals -> {"none", "start", "direct", "nowait", "resume"}]
    /\ by \in [Signals -> Signals \cup Starters \cup {Nobody}]
    /\ late \subseteq Signals

\* A signal enters the maps of the signals at its own place.
LEMMA EmittedTyped ==
  ASSUME SignalTypes, NEW s \in Signals, NEW how \in {"start", "direct", "nowait", "resume"},
         NEW parent \in Signals \cup Starters \cup {Nobody}, NEW origin,
         NEW internal \in BOOLEAN, NEW where \in {"queued", "begun"},
         Emitted(s, how, parent, origin, internal, where)
  PROVE  SignalTypes'
<1>1. phase' \in [Signals -> Phases]
  BY DEF Emitted, SignalTypes, Phases, Alive, Ended
<1>2. via' \in [Signals -> {"none", "start", "direct", "nowait", "resume"}]
  BY DEF Emitted, SignalTypes
<1>3. by' \in [Signals -> Signals \cup Starters \cup {Nobody}]
  BY DEF Emitted, SignalTypes
<1>4. late' \subseteq Signals
  BY DEF Emitted, SignalTypes
<1> QED  BY <1>1, <1>2, <1>3, <1>4 DEF SignalTypes

\* The end of dispatches leaves every map a map.
LEMMA ForgetTyped ==
  ASSUME SignalTypes, NEW T, Forget(T)
  PROVE  /\ via' \in [Signals -> {"none", "start", "direct", "nowait", "resume"}]
         /\ by' \in [Signals -> Signals \cup Starters \cup {Nobody}]
         /\ late' \subseteq Signals
<1>1. via' \in [Signals -> {"none", "start", "direct", "nowait", "resume"}]
  BY DEF Forget, SignalTypes
<1>2. by' \in [Signals -> Signals \cup Starters \cup {Nobody}]
  BY DEF Forget, SignalTypes
<1>3. late' \subseteq Signals
  BY DEF Forget, SignalTypes
<1> QED  BY <1>1, <1>2, <1>3

LEMMA OverTyped ==
  ASSUME SignalTypes, NEW s \in Signals, NEW how \in Ended, Over(s, how)
  PROVE  SignalTypes'
<1>1. phase' \in [Signals -> Phases]
  BY DEF Over, SignalTypes, Phases, Alive
<1> QED  BY <1>1, ForgetTyped DEF Over, SignalTypes

\* The rest of the types, as the close and the start see them.
RestTypes ==
    /\ lifecycle \in {"open", "sealed", "closed"}
    /\ status \in {"created", "running", "waiting"} \cup Terminals
    /\ data \in Nat
    /\ terminal \in Nat \cup {NotFrozen}
    /\ changed \subseteq Signals
    /\ watched \subseteq Signals
    /\ failures \subseteq Signals
    /\ cancelling \subseteq Signals
    /\ waiting \subseteq Signals
    /\ resuming \subseteq Signals
    /\ started \in BOOLEAN
    /\ spc \in [Starters -> StarterPC]
    /\ monitor \in {"off", "watching", "firing", "closing"}
    /\ history \subseteq {"reopened", "timedOut", "paused", "refused"}

CloseTypes ==
    /\ closeStarted \in BOOLEAN
    /\ lock \in AllClosers \cup {Nobody}
    /\ cpc \in [AllClosers -> CloserPC]
    /\ sealedFor \in [AllClosers -> BOOLEAN]
    /\ faults \in 0 .. MaxFaults
    /\ seals \in 0 .. MaxSeals
    /\ awaited \subseteq Signals

LEMMA TypeParts ==
  /\ TypeOK <=> SignalTypes /\ RestTypes /\ CloseTypes
  /\ TypeOK' <=> SignalTypes' /\ RestTypes' /\ CloseTypes'
BY DEF TypeOK, SignalTypes, RestTypes, CloseTypes, Phases

\* The marking of an activity leaves the monitor in a known place.
LEMMA ActivityTyped ==
  ASSUME monitor \in {"off", "watching", "firing", "closing"}, NEW life, Activity(life)
  PROVE  monitor' \in {"off", "watching", "firing", "closing"}
BY DEF Activity

LEMMA EmittingTyped ==
  ASSUME TypeOK, Emitting
  PROVE  TypeOK'
<1> USE TypeParts DEF stateVars, startVars, closeVars, workVars, signalVars, pauseVars
<1>1. ASSUME NEW internal \in BOOLEAN, NEW origin, EmitNowait(internal, origin)
      PROVE  TypeOK'
  <2>1. NextSignal \in Signals
    BY <1>1, NextSignalFresh DEF EmitNowait, Fresh
  <2>2. SignalTypes'
    BY <1>1, <2>1, EmittedTyped DEF EmitNowait
  <2>3. CloseTypes'
    BY <1>1 DEF EmitNowait, CloseTypes
  <2>4. RestTypes'
    BY <1>1, <2>1, ActivityTyped DEF EmitNowait, RestTypes
  <2> QED  BY <2>2, <2>3, <2>4
<1>2. CASE EmitOutside
  <2>1. NextSignal \in Signals
    BY <1>2, NextSignalFresh DEF EmitOutside, Fresh
  <2>2. SignalTypes'
    BY <1>2, <2>1, EmittedTyped DEF EmitOutside
  <2>3. CloseTypes' /\ RestTypes'
    BY <1>2, ActivityTyped DEF EmitOutside, CloseTypes, RestTypes
  <2> QED  BY <2>2, <2>3
<1>3. ASSUME NEW p \in Signals, EmitInside(p)
      PROVE  TypeOK'
  <2>1. NextSignal \in Signals
    BY <1>3, NextSignalFresh DEF EmitInside, Fresh
  <2>2. SignalTypes'
    BY <1>3, <2>1, EmittedTyped DEF EmitInside
  <2>3. CloseTypes' /\ RestTypes'
    BY <1>3, ActivityTyped DEF EmitInside, CloseTypes, RestTypes
  <2> QED  BY <2>2, <2>3
<1>4. ASSUME NEW p \in Signals, Answer(p)
      PROVE  TypeOK'
  <2>1. SignalTypes' /\ CloseTypes'
    BY <1>4 DEF Answer, SignalTypes, CloseTypes
  <2>2. RestTypes'
    BY <1>4, ActivityTyped DEF Answer, RestTypes
  <2> QED  BY <2>1, <2>2
<1>5. ASSUME NEW p \in Signals, Resume(p)
      PROVE  TypeOK'
  <2>1. NextSignal \in Signals
    BY <1>5, NextSignalFresh DEF Resume, Fresh
  <2>2. SignalTypes'
    BY <1>5, <2>1, EmittedTyped DEF Resume
  <2>3. CloseTypes' /\ RestTypes'
    BY <1>5, ActivityTyped DEF Resume, Refreshed, CloseTypes, RestTypes
  <2> QED  BY <2>2, <2>3
<1> QED
  BY <1>1, <1>2, <1>3, <1>4, <1>5 DEF Emitting, EmitNowaitOutside, EmitNowaitInside

LEMMA HandlingTyped ==
  ASSUME TypeOK, NEW s \in Signals,
         Begin(s) \/ DispatchStep(s) \/ HandlerStep(s) \/ CancelledLate(s)
  PROVE  TypeOK'
<1> USE TypeParts DEF stateVars, startVars, closeVars, workVars, signalVars, pauseVars
<1>1. CASE Begin(s) \/ DispatchHandler(s)
  <2>1. SignalTypes'
    BY <1>1 DEF Begin, DispatchHandler, SignalTypes, Phases, Alive
  <2>2. CloseTypes' /\ RestTypes'
    BY <1>1, ActivityTyped DEF Begin, DispatchHandler, CloseTypes, RestTypes
  <2> QED  BY <2>1, <2>2
<1>2. ASSUME NEW how \in Ended, Over(s, how), UNCHANGED <<lifecycle, stateVars, startVars, closeVars>>,
             status' \in {"created", "running", "waiting"} \cup Terminals, waiting' \subseteq Signals,
             resuming' \subseteq Signals, failures' \subseteq Signals,
             history' \subseteq {"reopened", "timedOut", "paused", "refused"}
      PROVE  TypeOK'
  <2>1. SignalTypes'
    BY <1>2, OverTyped
  <2>2. CloseTypes'
    BY <1>2 DEF CloseTypes
  <2>3. RestTypes'
    BY <1>2, ActivityTyped DEF Over, Forget, RestTypes
  <2> QED  BY <2>1, <2>2, <2>3
<1>3. CASE DispatchNothing(s) \/ HandlerReturns(s) \/ CancelledLate(s)
  BY <1>2, <1>3 DEF DispatchNothing, HandlerReturns, CancelledLate, StatusAfter, Refreshed, Ended, RestTypes
<1>4. CASE HandlerRaises(s) \/ ChangeRefused(s)
  BY <1>2, <1>4 DEF HandlerRaises, ChangeRefused, Raise, Ended, RestTypes, Terminals
<1>5. CASE HandlerPauses(s)
  BY <1>2, <1>5 DEF HandlerPauses, Ended, RestTypes
<1>6. CASE ChangeState(s)
  BY <1>6 DEF ChangeState, SignalTypes, CloseTypes, RestTypes
<1> QED  BY <1>1, <1>3, <1>4, <1>5, <1>6 DEF DispatchStep, HandlerStep

LEMMA StartingTyped ==
  ASSUME TypeOK, NEW x \in Starters, StartBegin(x) \/ StartStep(x)
  PROVE  TypeOK'
<1> USE TypeParts DEF stateVars, startVars, closeVars, workVars, signalVars, pauseVars
<1>1. CASE StartDispatch(x)
  <2>1. NextSignal \in Signals
    BY <1>1, NextSignalFresh DEF StartDispatch, Fresh
  <2>2. SignalTypes'
    BY <1>1, <2>1, EmittedTyped DEF StartDispatch
  <2>3. CloseTypes' /\ RestTypes'
    BY <1>1, ActivityTyped DEF StartDispatch, Start, StarterPC, CloseTypes, RestTypes
  <2> QED  BY <2>2, <2>3
<1>2. CASE StartBegin(x) \/ StartProceed(x) \/ StartReturns(x)
  <2>1. SignalTypes' /\ CloseTypes'
    BY <1>2 DEF StartBegin, StartProceed, StartReturns, SignalTypes, CloseTypes
  <2>2. RestTypes'
    BY <1>2, ActivityTyped DEF StartBegin, StartProceed, StartReturns, Start, StarterPC, RestTypes
  <2> QED  BY <2>1, <2>2
<1> QED  BY <1>1, <1>2 DEF StartStep

LEMMA FailTyped ==
  ASSUME TypeOK, NEW c \in AllClosers, Fail(c), UNCHANGED <<seals>>, faults' \in 0 .. MaxFaults
  PROVE  /\ CloseTypes'
         /\ lifecycle' \in {"open", "sealed", "closed"}
         /\ monitor' \in {"off", "watching", "firing", "closing"}
<1>1. CloseTypes'
  BY TypeParts DEF Fail, Leave, Goes, CloseTypes, CloserPC
<1>2. lifecycle' \in {"open", "sealed", "closed"} /\ monitor' \in {"off", "watching", "firing", "closing"}
  BY TypeParts, ActivityTyped DEF Fail, Leave, RestTypes
<1> QED  BY <1>1, <1>2

LEMMA ClosingTyped ==
  ASSUME TypeOK, NEW c \in AllClosers,
         CloseCall(c) \/ DrainTimesOut(c) \/ LockStep(c) \/ CloseStep(c) \/ Fault(c)
  PROVE  TypeOK'
<1> USE TypeParts DEF stateVars, startVars, workVars, signalVars, pauseVars
<1>1. CASE CloseCall(c) \/ AlreadyClosed(c) \/ Sealed(c) \/ Unsealed(c)
  <2>1. SignalTypes'
    BY <1>1 DEF CloseCall, AlreadyClosed, Sealed, Unsealed, Leave, SignalTypes
  <2>2. CloseTypes'
    BY <1>1 DEF CloseCall, AlreadyClosed, Sealed, Unsealed, Leave, Goes, CloserPC, CloseTypes
  <2>3. RestTypes'
    BY <1>1 DEF CloseCall, AlreadyClosed, Sealed, Unsealed, Leave, RestTypes
  <2> QED  BY <2>1, <2>2, <2>3
<1>2. CASE Freeze(c) \/ CloseCommit(c) \/ Finish(c)
  <2>1. SignalTypes'
    BY <1>2 DEF Freeze, CloseCommit, Finish, SignalTypes
  <2>2. CloseTypes'
    BY <1>2 DEF Freeze, CloseCommit, Finish, Goes, CloserPC, CloseTypes
  <2>3. RestTypes'
    BY <1>2 DEF Freeze, CloseCommit, Finish, RestTypes, Terminals
  <2> QED  BY <2>1, <2>2, <2>3
<1>3. CASE DrainRound(c)
  <2>1. SignalTypes' /\ RestTypes'
    BY <1>3 DEF DrainRound, Unseen, SignalTypes, RestTypes
  <2>2. CloseTypes'
    BY <1>3 DEF DrainRound, Goes, CloserPC, CloseTypes, Pending
  <2> QED  BY <2>1, <2>2
<1>4. ASSUME SealFor(c)
      PROVE  /\ lifecycle' \in {"open", "sealed", "closed"}
             /\ cpc' \in [AllClosers -> CloserPC]
             /\ sealedFor' \in [AllClosers -> BOOLEAN]
             /\ seals' \in 0 .. MaxSeals
             /\ history' \subseteq {"reopened", "timedOut", "paused", "refused"}
  <2>1. UserSeals => seals' \in 0 .. MaxSeals
    BY LifecycleAssumption DEF UserSeals, CloseTypes
  <2>2. cpc' \in [AllClosers -> CloserPC]
    BY <1>4 DEF SealFor, Goes, CloserPC, CloseTypes
  <2> QED  BY <1>4, <2>1, <2>2 DEF SealFor, CloseTypes, RestTypes
<1>5. ASSUME RefusePauses(c)
      PROVE  /\ cpc' \in [AllClosers -> CloserPC]
             /\ history' \subseteq {"reopened", "timedOut", "paused", "refused"}
  BY <1>5 DEF RefusePauses, Goes, CloserPC, CloseTypes, RestTypes
<1>8. CASE AcquireLock(c)
  <2>1. SignalTypes'
    BY <1>8 DEF AcquireLock, SignalTypes
  <2>2. CloseTypes'
    <3>1. cpc' \in [AllClosers -> CloserPC]
      BY <1>4, <1>5, <1>8 DEF AcquireLock, Goes, CloserPC, CloseTypes
    <3>2. sealedFor' \in [AllClosers -> BOOLEAN] /\ seals' \in 0 .. MaxSeals
      BY <1>4, <1>8 DEF AcquireLock, CloseTypes
    <3> QED  BY <1>8, <3>1, <3>2 DEF AcquireLock, CloseTypes
  <2>3. RestTypes'
    <3>1. CASE RefusePauses(c) /\ UNCHANGED lifecycle
      BY <1>5, <1>8, <3>1 DEF AcquireLock, RefusePauses, RestTypes
    <3>2. CASE CancelPauses(c) /\ UNCHANGED lifecycle
      BY <1>8, <3>2, ActivityTyped DEF AcquireLock, CancelPauses, RestTypes, Terminals
    <3>3. CASE SealFor(c) /\ UNCHANGED <<pauseVars, status, monitor>>
      BY <1>4, <1>8, <3>3 DEF AcquireLock, RestTypes
    <3> QED  BY <1>8, <3>1, <3>2, <3>3 DEF AcquireLock
  <2> QED  BY <2>1, <2>2, <2>3
<1>9. CASE Cancelled(c)
  <2>1. SignalTypes'
    BY <1>9 DEF Cancelled, SignalTypes
  <2>2. CloseTypes'
    BY <1>4, <1>9 DEF Cancelled, CloseTypes
  <2>3. RestTypes'
    BY <1>4, <1>9 DEF Cancelled, RestTypes
  <2> QED  BY <2>1, <2>2, <2>3
<1>10. CASE Drained(c)
  <2>1. SignalTypes'
    BY <1>10 DEF Drained, SignalTypes
  <2>2. CloseTypes'
    <3>1. cpc' \in [AllClosers -> CloserPC]
      BY <1>5, <1>10 DEF Drained, Goes, CloserPC, CloseTypes
    <3> QED  BY <1>10, <3>1 DEF Drained, CloseTypes
  <2>3. RestTypes'
    <3>1. CASE RefusePauses(c)
      BY <1>5, <1>10, <3>1 DEF Drained, RefusePauses, RestTypes, Terminals
    <3>2. CASE CancelPauses(c)
      BY <1>10, <3>2, ActivityTyped DEF Drained, CancelPauses, RestTypes, Terminals
    <3>3. CASE /\ UNCHANGED <<pauseVars, monitor, history>>
               /\ status' = "failed" \/ UNCHANGED status
      BY <1>10, <3>3 DEF Drained, RestTypes, Terminals
    <3> QED  BY <1>10, <3>1, <3>2, <3>3 DEF Drained
  <2> QED  BY <2>1, <2>2, <2>3
<1>11. CASE Refused(c)
  <2>1. SignalTypes'
    BY <1>11 DEF Refused, SignalTypes
  <2>2. faults' \in 0 .. MaxFaults
    BY <1>11 DEF Refused, CloseTypes
  <2>3. CloseTypes' /\ RestTypes'
    BY <1>11, <2>2, FailTyped DEF Refused, RestTypes, CloseTypes
  <2> QED  BY <2>1, <2>3
<1>6. CASE DrainTimesOut(c)
  <2> DEFINE Hit == Reached(awaited \cap Pending)
  <2>1. PICK Late \in SUBSET Hit :
          /\ phase' = [s \in Signals |->
                         IF s \in Hit \ Late THEN "ended"
                         ELSE IF \E t \in Hit \ Late : by[t] = s THEN "handling"
                         ELSE phase[s]]
          /\ Forget(Hit \ Late)
          /\ watched' = watched \ Hit
          /\ cancelling' = cancelling \cup Late
          /\ IF Late = {}
               THEN /\ Goes(c, "drained")
                    /\ Activity(lifecycle)
                    /\ UNCHANGED <<lifecycle, failures, closeStarted, lock, sealedFor, awaited>>
               ELSE /\ Fail(c)
                    /\ failures' = {}
    BY <1>6 DEF DrainTimesOut
  <2>2. Hit \subseteq Signals
    BY DEF Reached
  <2>3. SignalTypes'
    BY <2>1, ForgetTyped DEF SignalTypes, Phases, Alive, Ended
  <2>4. UNCHANGED <<status, stateVars, pauseVars, startVars, faults, seals>>
        /\ history' = history \cup {"timedOut"}
    BY <1>6 DEF DrainTimesOut
  <2>5. changed' = changed \ (Hit \ Late)
    BY <2>1 DEF Forget
  <2>6. CASE Fail(c) /\ failures' = {}
    <3>1. CloseTypes'
      BY <2>4, <2>6, FailTyped DEF CloseTypes
    <3>2. RestTypes'
      BY <2>1, <2>2, <2>4, <2>5, <2>6, FailTyped DEF RestTypes, CloseTypes
    <3> QED  BY <2>3, <3>1, <3>2
  <2>7. CASE Goes(c, "drained") /\ Activity(lifecycle)
             /\ UNCHANGED <<lifecycle, failures, closeStarted, lock, sealedFor, awaited>>
    <3>1. CloseTypes'
      BY <2>4, <2>7 DEF Goes, CloserPC, CloseTypes
    <3>2. RestTypes'
      BY <2>1, <2>2, <2>4, <2>5, <2>7, ActivityTyped DEF RestTypes
    <3> QED  BY <2>3, <3>1, <3>2
  <2> QED  BY <2>1, <2>6, <2>7
<1>7. CASE Fault(c)
  <2>1. SignalTypes'
    BY <1>7 DEF Fault, SignalTypes
  <2>2. faults' \in 0 .. MaxFaults
    BY <1>7, LifecycleAssumption DEF Fault, CloseTypes
  <2>3. CloseTypes' /\ RestTypes'
    BY <1>7, <2>2, FailTyped DEF Fault, RestTypes, CloseTypes
  <2> QED  BY <2>1, <2>3
<1> QED
  BY <1>1, <1>2, <1>3, <1>6, <1>7, <1>8, <1>9, <1>10, <1>11 DEF LockStep, CloseStep

\* Every variable keeps its type, whatever raises, times out or is cancelled.
THEOREM LifecycleTypes == Spec => []TypeOK
<1>1. Init => TypeOK
  <2> SUFFICES ASSUME Init PROVE TypeOK
    OBVIOUS
  <2>1. SignalTypes
    BY DEF Init, SignalTypes, Phases
  <2>2. RestTypes
    BY DEF Init, RestTypes, StarterPC
  <2>3. CloseTypes
    <3>1. faults \in 0 .. MaxFaults /\ seals \in 0 .. MaxSeals
      BY LifecycleAssumption DEF Init
    <3> QED  BY <3>1 DEF Init, CloseTypes, CloserPC
  <2> QED  BY <2>1, <2>2, <2>3, TypeParts
<1>2. TypeOK /\ [Next]_vars => TypeOK'
  <2> SUFFICES ASSUME TypeOK, [Next]_vars
               PROVE  TypeOK'
    OBVIOUS
  <2>1. CASE Seal \/ Unseal
    <3>1. SignalTypes'
      BY <2>1, TypeParts DEF Seal, Unseal, signalVars, SignalTypes
    <3>2. CloseTypes'
      BY <2>1, TypeParts, LifecycleAssumption DEF Seal, Unseal, UserSeals, closeVars, CloseTypes
    <3>3. RestTypes'
      BY <2>1, TypeParts, ActivityTyped DEF Seal, Unseal, stateVars, workVars, startVars, pauseVars, RestTypes
    <3> QED  BY <3>1, <3>2, <3>3, TypeParts
  <2>2. CASE MonitorStep
    <3>1. SignalTypes'
      BY <2>2, TypeParts DEF MonitorStep, MonitorFires, MonitorCloses, signalVars, SignalTypes
    <3>2. CloseTypes'
      BY <2>2, TypeParts DEF MonitorStep, MonitorFires, MonitorCloses, Goes, closeVars, CloserPC, CloseTypes
    <3>3. RestTypes'
      BY <2>2, TypeParts DEF MonitorStep, MonitorFires, MonitorCloses, stateVars, workVars, startVars, pauseVars, RestTypes
    <3> QED  BY <3>1, <3>2, <3>3, TypeParts
  <2>3. ASSUME NEW c \in Closers, CloseCall(c) \/ DrainTimesOut(c)
        PROVE  TypeOK'
    BY <2>3, ClosingTyped DEF AllClosers
  <2>4. CASE UNCHANGED vars
    BY <2>4, TypeParts DEF vars, stateVars, signalVars, workVars, pauseVars, startVars, closeVars,
       SignalTypes, RestTypes, CloseTypes
  <2> QED  BY <2>1, <2>2, <2>3, <2>4, EmittingTyped, HandlingTyped, StartingTyped, ClosingTyped DEF Next
<1> QED  BY <1>1, <1>2, PTL DEF Spec

-----------------------------------------------------------------------------
(* The snapshot *)

\* No step of a signal, a handler or a start touches the lifecycle or the snapshot;
\* a handler changes the state only while it is mutable.
LEMMA WorkKeepsSnapshot ==
  ASSUME SnapshotInv,
         Emitting
           \/ (\E s \in Signals : Begin(s) \/ DispatchStep(s) \/ HandlerStep(s) \/ CancelledLate(s))
           \/ (\E x \in Starters : StartBegin(x) \/ StartStep(x))
  PROVE  SnapshotInv'
<1> USE DEF SnapshotInv, SnapshotCurrent, stateVars
<1>1. CASE Emitting
  <2>1. UNCHANGED <<lifecycle, data, terminal>>
    BY <1>1 DEF Emitting, EmitNowaitOutside, EmitNowaitInside, EmitNowait, EmitOutside, EmitInside, Answer, Resume
  <2> QED  BY <2>1
<1>2. ASSUME NEW s \in Signals, Begin(s) \/ DispatchStep(s) \/ HandlerStep(s) \/ CancelledLate(s)
      PROVE  SnapshotInv'
  <2>1. CASE ChangeState(s)
    BY <2>1 DEF ChangeState, Mutable, NotFrozen
  <2>2. CASE ~ChangeState(s)
    <3>1. UNCHANGED <<lifecycle, data, terminal>>
      BY <1>2, <2>2 DEF Begin, DispatchStep, DispatchHandler, DispatchNothing, HandlerStep,
         HandlerReturns, HandlerRaises, HandlerPauses, ChangeRefused, Raise, CancelledLate
    <3> QED  BY <3>1
  <2> QED  BY <2>1, <2>2
<1>3. ASSUME NEW x \in Starters, StartBegin(x) \/ StartStep(x)
      PROVE  SnapshotInv'
  <2>1. UNCHANGED <<lifecycle, data, terminal>>
    BY <1>3 DEF StartBegin, StartStep, StartProceed, StartDispatch, StartReturns
  <2> QED  BY <2>1
<1> QED  BY <1>1, <1>2, <1>3

\* A failing close reopens nothing that is closed and drops no snapshot.
LEMMA FailKeepsSnapshot ==
  ASSUME SnapshotInv, NEW c, Fail(c), UNCHANGED <<data, terminal>>
  PROVE  SnapshotInv'
BY DEF SnapshotInv, SnapshotCurrent, Fail, Leave

\* The first close to get there takes the snapshot of the state as it is, and no step
\* of a close leaves the closed state.
LEMMA CloseKeepsSnapshot ==
  ASSUME SnapshotInv, NEW c \in AllClosers,
         CloseCall(c) \/ DrainTimesOut(c) \/ LockStep(c) \/ CloseStep(c) \/ Fault(c)
  PROVE  SnapshotInv'
<1>1. CASE CloseCall(c)
  BY <1>1 DEF CloseCall, stateVars, SnapshotInv, SnapshotCurrent
<1>2. CASE DrainTimesOut(c)
  <2>1. UNCHANGED <<data, terminal>> /\ (Fail(c) \/ UNCHANGED lifecycle)
    BY <1>2 DEF DrainTimesOut, stateVars
  <2> QED  BY <2>1, FailKeepsSnapshot DEF SnapshotInv, SnapshotCurrent
<1>3. CASE LockStep(c)
  <2>1. UNCHANGED <<data, terminal>> /\ (lifecycle' = "closed" <=> lifecycle = "closed")
    BY <1>3 DEF LockStep, AcquireLock, AlreadyClosed, SealFor, stateVars
  <2> QED  BY <2>1 DEF SnapshotInv, SnapshotCurrent
<1>4. CASE CloseStep(c)
  <2>1. CASE Sealed(c) \/ DrainRound(c) \/ Finish(c) \/ Unsealed(c) \/ Drained(c)
    BY <2>1 DEF Sealed, DrainRound, Finish, Unsealed, Drained, stateVars, SnapshotInv, SnapshotCurrent
  <2>2. CASE Cancelled(c)
    <3>1. UNCHANGED <<data, terminal>> /\ (lifecycle' = "closed" <=> lifecycle = "closed")
      BY <2>2 DEF Cancelled, SealFor, stateVars
    <3> QED  BY <3>1 DEF SnapshotInv, SnapshotCurrent
  <2>5. CASE Refused(c)
    BY <2>5, FailKeepsSnapshot DEF Refused, stateVars
  <2>3. CASE Freeze(c)
    BY <2>3 DEF Freeze, SnapshotInv, SnapshotCurrent
  <2>4. CASE CloseCommit(c)
    BY <2>4 DEF CloseCommit, stateVars, SnapshotInv, SnapshotCurrent
  <2> QED  BY <1>4, <2>1, <2>2, <2>3, <2>4, <2>5 DEF CloseStep
<1>5. CASE Fault(c)
  <2>1. UNCHANGED <<data, terminal>> /\ Fail(c)
    BY <1>5 DEF Fault, stateVars
  <2> QED  BY <2>1, FailKeepsSnapshot
<1> QED  BY <1>1, <1>2, <1>3, <1>4, <1>5

\* Until the execution is closed its state stays what the snapshot of the close says.
\* This is the promise of _ensure_terminal_state_mutable, across handlers that outlive
\* a drain, failed closes and retries.
THEOREM SnapshotStays == Spec => []SnapshotCurrent
<1>1. Init => SnapshotInv
  BY DEF Init, SnapshotInv, SnapshotCurrent, NotFrozen
<1>2. SnapshotInv /\ [Next]_vars => SnapshotInv'
  <2> SUFFICES ASSUME SnapshotInv, [Next]_vars
               PROVE  SnapshotInv'
    OBVIOUS
  <2>1. CASE Seal \/ Unseal
    BY <2>1 DEF Seal, Unseal, stateVars, SnapshotInv, SnapshotCurrent
  <2>2. CASE MonitorStep
    BY <2>2 DEF MonitorStep, MonitorFires, MonitorCloses, stateVars, SnapshotInv, SnapshotCurrent
  <2>3. ASSUME NEW c \in Closers, CloseCall(c) \/ DrainTimesOut(c)
        PROVE  SnapshotInv'
    BY <2>3, CloseKeepsSnapshot DEF AllClosers
  <2>4. ASSUME NEW c \in AllClosers, LockStep(c) \/ CloseStep(c) \/ Fault(c)
        PROVE  SnapshotInv'
    BY <2>4, CloseKeepsSnapshot
  <2>5. CASE UNCHANGED vars
    BY <2>5 DEF vars, stateVars, SnapshotInv, SnapshotCurrent
  <2> QED  BY <2>1, <2>2, <2>3, <2>4, <2>5, WorkKeepsSnapshot DEF Next
<1>3. SnapshotInv => SnapshotCurrent
  BY DEF SnapshotInv
<1> QED  BY <1>1, <1>2, <1>3, PTL DEF Spec

-----------------------------------------------------------------------------
(* Failures *)

\* No signal fails in this step.
NoNewFailure == \A t \in Signals : phase'[t] = "failed" => phase[t] = "failed"

\* A step in which nothing fails may write the status over a failure only with a pause.
LEMMA QuietKeepsFailure ==
  ASSUME FailureInv, NoNewFailure,
         history \subseteq history',
         waiting' \cup resuming' # {} => "paused" \in history',
         status = "failed" => status' = "failed" \/ "paused" \in history'
  PROVE  FailureInv'
BY DEF FailureInv, FailureReported, PausesRecorded, NoNewFailure

\* A raising handler is reported at once.
LEMMA RaiseReports ==
  ASSUME FailureInv, NEW s \in Signals, Raise(s)
  PROVE  FailureInv'
BY DEF FailureInv, FailureReported, PausesRecorded, Raise, pauseVars

LEMMA WorkKeepsFailure ==
  ASSUME TypeOK, FailureInv,
         Emitting
           \/ (\E s \in Signals : Begin(s) \/ DispatchStep(s) \/ HandlerStep(s) \/ CancelledLate(s))
           \/ (\E x \in Starters : StartBegin(x) \/ StartStep(x))
  PROVE  FailureInv'
<1> USE DEF TypeOK, stateVars, startVars, closeVars, workVars, signalVars, pauseVars
<1>1. ASSUME NEW how, NEW parent, NEW origin, NEW internal, NEW where \in {"queued", "begun"},
             Emitted(NextSignal, how, parent, origin, internal, where)
      PROVE  NoNewFailure
  BY <1>1 DEF Emitted, NoNewFailure
<1>2. CASE Emitting
  <2>1. ASSUME NEW internal, NEW origin, EmitNowait(internal, origin)
        PROVE  FailureInv'
    BY <1>1, <2>1, QuietKeepsFailure DEF EmitNowait, FailureInv, PausesRecorded
  <2>2. CASE EmitOutside
    BY <1>1, <2>2, QuietKeepsFailure DEF EmitOutside, FailureInv, PausesRecorded
  <2>3. ASSUME NEW p \in Signals, EmitInside(p)
        PROVE  FailureInv'
    BY <1>1, <2>3, QuietKeepsFailure DEF EmitInside, FailureInv, PausesRecorded
  <2>4. ASSUME NEW p \in Signals, Answer(p)
        PROVE  FailureInv'
    BY <2>4 DEF Answer, FailureInv, FailureReported, PausesRecorded
  <2>5. ASSUME NEW p \in Signals, Resume(p)
        PROVE  FailureInv'
    <3>1. "paused" \in history'
      BY <2>5 DEF Resume, FailureInv, PausesRecorded
    <3> QED  BY <3>1 DEF FailureInv, FailureReported, PausesRecorded
  <2> QED  BY <1>2, <2>1, <2>2, <2>3, <2>4, <2>5 DEF Emitting, EmitNowaitOutside, EmitNowaitInside
<1>3. ASSUME NEW s \in Signals, Over(s, "ended")
      PROVE  NoNewFailure
  BY <1>3 DEF Over, NoNewFailure
<1>4. ASSUME NEW s \in Signals, Begin(s) \/ DispatchStep(s) \/ HandlerStep(s) \/ CancelledLate(s)
      PROVE  FailureInv'
  <2>1. CASE Begin(s) \/ DispatchHandler(s)
    <3>1. NoNewFailure
      BY <2>1 DEF Begin, DispatchHandler, NoNewFailure
    <3> QED  BY <2>1, <3>1, QuietKeepsFailure DEF Begin, DispatchHandler, FailureInv, PausesRecorded
  <2>2. CASE DispatchNothing(s) \/ HandlerReturns(s) \/ CancelledLate(s)
    BY <1>3, <2>2, QuietKeepsFailure DEF DispatchNothing, HandlerReturns, CancelledLate, StatusAfter, Refreshed,
       FailureInv, PausesRecorded
  <2>3. CASE HandlerPauses(s)
    BY <1>3, <2>3, QuietKeepsFailure DEF HandlerPauses
  <2>4. CASE HandlerRaises(s) \/ ChangeRefused(s)
    BY <2>4, RaiseReports DEF HandlerRaises, ChangeRefused
  <2>5. CASE ChangeState(s)
    BY <2>5 DEF ChangeState, FailureInv, FailureReported, PausesRecorded
  <2> QED  BY <1>4, <2>1, <2>2, <2>3, <2>4, <2>5 DEF DispatchStep, HandlerStep
<1>5. ASSUME NEW x \in Starters, StartBegin(x) \/ StartStep(x)
      PROVE  FailureInv'
  <2>1. CASE StartDispatch(x)
    BY <1>1, <2>1, QuietKeepsFailure DEF StartDispatch, FailureInv, PausesRecorded
  <2>2. CASE StartBegin(x) \/ StartProceed(x) \/ StartReturns(x)
    BY <2>2 DEF StartBegin, StartProceed, StartReturns, Terminals, FailureInv, FailureReported, PausesRecorded
  <2> QED  BY <1>5, <2>1, <2>2 DEF StartStep
<1> QED  BY <1>2, <1>4, <1>5

LEMMA CloseKeepsFailure ==
  ASSUME TypeOK, FailureInv, NEW c \in AllClosers,
         CloseCall(c) \/ DrainTimesOut(c) \/ LockStep(c) \/ CloseStep(c) \/ Fault(c)
  PROVE  FailureInv'
<1> USE DEF stateVars, startVars, workVars, signalVars, pauseVars
<1>1. CASE DrainTimesOut(c)
  <2>1. NoNewFailure
    BY <1>1 DEF DrainTimesOut, NoNewFailure
  <2> QED  BY <1>1, <2>1, QuietKeepsFailure DEF DrainTimesOut, FailureInv, PausesRecorded
<1>2. CASE ~ DrainTimesOut(c)
  <2>1. UNCHANGED phase
    BY <1>2 DEF CloseCall, LockStep, AcquireLock, AlreadyClosed, CloseStep, Sealed, DrainRound,
       Drained, Freeze, CloseCommit, Finish, Fault, Refused, Unsealed, Cancelled, SealFor, RefusePauses
  <2>2. history \subseteq history' /\ (waiting' \cup resuming' # {} => waiting \cup resuming # {})
    BY <1>2 DEF CloseCall, LockStep, AcquireLock, AlreadyClosed, CloseStep, Sealed, DrainRound,
       Drained, Freeze, CloseCommit, Finish, Fault, Refused, Unsealed, Cancelled, SealFor, RefusePauses,
       CancelPauses
  <2>3. status = "failed" => status' = "failed" \/ waiting # {}
    BY <1>2 DEF CloseCall, LockStep, AcquireLock, AlreadyClosed, CloseStep, Sealed, DrainRound,
       Drained, Freeze, CloseCommit, Finish, Fault, Refused, Unsealed, Cancelled, SealFor, RefusePauses,
       CancelPauses
  <2> QED  BY <2>1, <2>2, <2>3, QuietKeepsFailure DEF NoNewFailure, FailureInv, PausesRecorded
<1> QED  BY <1>1, <1>2

\* A handler that raised shows in the status through every later start, close and
\* retry, as long as no handler pauses.
THEOREM FailureStays == Spec => []FailureReported
<1>1. Init => FailureInv
  BY DEF Init, FailureInv, FailureReported, PausesRecorded
<1>2. TypeOK /\ FailureInv /\ [Next]_vars => FailureInv'
  <2> SUFFICES ASSUME TypeOK, FailureInv, [Next]_vars
               PROVE  FailureInv'
    OBVIOUS
  <2>1. CASE Seal \/ Unseal
    BY <2>1 DEF Seal, Unseal, signalVars, pauseVars, FailureInv, FailureReported, PausesRecorded
  <2>2. CASE MonitorStep
    BY <2>2 DEF MonitorStep, MonitorFires, MonitorCloses, signalVars, pauseVars, FailureInv, FailureReported, PausesRecorded
  <2>3. ASSUME NEW c \in Closers, CloseCall(c) \/ DrainTimesOut(c)
        PROVE  FailureInv'
    BY <2>3, CloseKeepsFailure DEF AllClosers
  <2>4. CASE UNCHANGED vars
    BY <2>4 DEF vars, signalVars, pauseVars, FailureInv, FailureReported, PausesRecorded
  <2> QED  BY <2>1, <2>2, <2>3, <2>4, WorkKeepsFailure, CloseKeepsFailure DEF Next
<1>3. FailureInv => FailureReported
  BY DEF FailureInv
<1> QED  BY <1>1, <1>2, <1>3, LifecycleTypes, PTL DEF Spec

-----------------------------------------------------------------------------
(***************************************************************************)
(* Closes.  The lock has one holder, which leaves it on every path; who    *)
(* fails gives back what it sealed; and what it sealed nobody else sealed. *)
(***************************************************************************)
InLock == {"cancelling", "sealing", "draining", "drained", "settled", "frozen", "closed", "refusing",
           "unsealing"}

LockIsHeld == \A c \in AllClosers : cpc[c] \in InLock <=> lock = c

MonitorIsClosing == cpc[Monitor] \in InLock \cup {"lock"} => monitor = "closing"

FrozenFirst ==
    /\ \A c \in AllClosers : cpc[c] \in {"frozen", "closed"} => terminal # NotFrozen
    /\ lifecycle = "closed" => terminal # NotFrozen

SealedByHolder ==
    lifecycle = "sealed" /\ terminal = NotFrozen /\ faults = 0 /\ seals = 0 =>
        \E c \in AllClosers : lock = c /\ (cpc[c] = "sealing" \/ sealedFor[c])

GivenBack == \A c \in AllClosers : cpc[c] = "unsealing" => ~sealedFor[c]

LockInv == LockIsHeld /\ MonitorIsClosing /\ FrozenFirst /\ SealedByHolder /\ GivenBack

\* A step of the work does not touch the close, and never stops a closing monitor.
WorkStep ==
    \/ Emitting
    \/ \E s \in Signals : Begin(s) \/ DispatchStep(s) \/ HandlerStep(s) \/ CancelledLate(s)
    \/ \E x \in Starters : StartBegin(x) \/ StartStep(x)

LEMMA WorkLeavesClose ==
  ASSUME WorkStep
  PROVE  /\ UNCHANGED <<lifecycle, terminal, closeVars>>
         /\ monitor = "closing" => monitor' = "closing"
         /\ history \subseteq history'
<1> USE DEF Over, Activity, stateVars
<1>1. CASE Emitting
  BY <1>1 DEF Emitting, EmitNowaitOutside, EmitNowaitInside, EmitNowait, EmitOutside, EmitInside,
     Answer, Resume
<1>2. ASSUME NEW s \in Signals, Begin(s) \/ DispatchStep(s) \/ HandlerStep(s) \/ CancelledLate(s)
      PROVE  /\ UNCHANGED <<lifecycle, terminal, closeVars>>
             /\ monitor = "closing" => monitor' = "closing"
             /\ history \subseteq history'
  BY <1>2 DEF Begin, DispatchStep, DispatchHandler, DispatchNothing, HandlerStep, HandlerReturns,
     HandlerRaises, HandlerPauses, ChangeState, ChangeRefused, Raise, CancelledLate
<1>3. ASSUME NEW x \in Starters, StartBegin(x) \/ StartStep(x)
      PROVE  /\ UNCHANGED <<lifecycle, terminal, closeVars>>
             /\ monitor = "closing" => monitor' = "closing"
             /\ history \subseteq history'
  BY <1>3 DEF StartBegin, StartStep, StartProceed, StartDispatch, StartReturns
<1> QED  BY <1>1, <1>2, <1>3 DEF WorkStep

LEMMA LockUntouched ==
  ASSUME LockInv, UNCHANGED <<lifecycle, terminal, closeVars>>,
         monitor = "closing" => monitor' = "closing"
  PROVE  LockInv'
<1>1. UNCHANGED <<lock, cpc, sealedFor, faults, seals>>  BY DEF closeVars
<1> QED
  BY <1>1 DEF LockInv, LockIsHeld, MonitorIsClosing, FrozenFirst, SealedByHolder, GivenBack

\* The error of a close leaves it, and the lock is free.
LEMMA LeaveUnlocks ==
  ASSUME TypeOK, LockInv, NEW c \in AllClosers, Leave(c), UNCHANGED <<lifecycle, terminal, seals>>,
         cpc[c] \in InLock, ~sealedFor[c] \/ terminal # NotFrozen \/ lifecycle # "sealed",
         \A d \in AllClosers \ {c} : sealedFor'[d] = sealedFor[d],
         faults' = faults \/ faults' # 0, cpc[c] = "sealing" => faults' # 0
  PROVE  LockInv'
<1>1. /\ cpc'[c] \in {"idle", "raised"} /\ \A d \in AllClosers \ {c} : cpc'[d] = cpc[d]
      /\ lock' = Nobody
  BY DEF Leave, TypeOK
<1>2. \A d \in AllClosers \ {c} : cpc[d] \notin InLock
  BY LifecycleAssumption DEF LockInv, LockIsHeld, AllClosers
<1>3. \A d \in AllClosers : cpc'[d] \notin InLock  BY <1>1, <1>2 DEF InLock
<1>4. LockIsHeld'  BY <1>1, <1>3, LifecycleAssumption DEF LockIsHeld, AllClosers
<1>5. MonitorIsClosing'
  <2>1. CASE c = Monitor  BY <1>1, <2>1 DEF MonitorIsClosing, InLock
  <2>2. CASE c # Monitor
    <3>1. cpc'[Monitor] = cpc[Monitor]  BY <1>1, <2>2 DEF AllClosers
    <3>2. monitor' = monitor  BY <2>2 DEF Leave
    <3> QED  BY <3>1, <3>2 DEF LockInv, MonitorIsClosing
  <2> QED  BY <2>1, <2>2
<1>6. FrozenFirst' /\ GivenBack'
  BY <1>3 DEF LockInv, FrozenFirst, GivenBack, InLock
<1>7. SealedByHolder'
  <2> SUFFICES ASSUME lifecycle' = "sealed", terminal' = NotFrozen, faults' = 0, seals' = 0
               PROVE  FALSE
    BY DEF SealedByHolder
  <2>1. PICK d \in AllClosers : lock = d /\ (cpc[d] = "sealing" \/ sealedFor[d])
    BY DEF LockInv, SealedByHolder
  <2>2. d = c  BY <1>2, <2>1 DEF LockInv, LockIsHeld
  <2> QED  BY <2>1, <2>2
<1> QED  BY <1>4, <1>5, <1>6, <1>7 DEF LockInv

\* A close that raises gives back the seal under the lock, or leaves.
LEMMA FailUnlocks ==
  ASSUME TypeOK, LockInv, NEW c \in AllClosers, Fail(c), UNCHANGED <<terminal, seals>>,
         cpc[c] \in InLock,
         faults' = faults \/ faults' # 0, cpc[c] = "sealing" => faults' # 0
  PROVE  LockInv'
<1>1. sealedFor'[c] = FALSE /\ \A d \in AllClosers \ {c} : sealedFor'[d] = sealedFor[d]
  BY DEF Fail, TypeOK
<1>2. CASE sealedFor[c] /\ terminal = NotFrozen /\ lifecycle = "sealed"
  <2>1. lifecycle' = "open" /\ Goes(c, "unsealing") /\ Activity("open") /\ lock' = lock
    BY <1>2 DEF Fail
  <2>2. cpc'[c] = "unsealing" /\ \A d \in AllClosers \ {c} : cpc'[d] = cpc[d]
    BY <2>1 DEF Goes, TypeOK
  <2>3. LockIsHeld'  BY <2>1, <2>2 DEF LockInv, LockIsHeld, InLock
  <2>4. MonitorIsClosing'
    <3>1. monitor = "closing" => monitor' = "closing"  BY <2>1 DEF Activity
    <3>2. cpc'[Monitor] = cpc[Monitor] \/ c = Monitor  BY <2>2 DEF AllClosers
    <3> QED  BY <3>1, <3>2 DEF LockInv, MonitorIsClosing
  <2>5. FrozenFirst' /\ SealedByHolder'
    BY <2>1, <2>2 DEF LockInv, FrozenFirst, SealedByHolder
  <2>6. GivenBack'  BY <1>1, <2>2 DEF LockInv, GivenBack
  <2> QED  BY <2>3, <2>4, <2>5, <2>6 DEF LockInv
<1>3. CASE ~ (sealedFor[c] /\ terminal = NotFrozen /\ lifecycle = "sealed")
  <2>1. Leave(c) /\ lifecycle' = lifecycle  BY <1>3 DEF Fail
  <2> QED  BY <1>1, <1>3, <2>1, LeaveUnlocks
<1> QED  BY <1>2, <1>3

\* The steps of a close that do not raise.
LEMMA CloseKeepsLock ==
  ASSUME TypeOK, LockInv, NEW c \in AllClosers,
         (c \in Closers /\ (CloseCall(c) \/ DrainTimesOut(c))) \/ LockStep(c) \/ CloseStep(c) \/ Fault(c)
  PROVE  LockInv'
<1>0. Monitor \in AllClosers /\ Monitor \notin Closers /\ Nobody \notin AllClosers
  BY LifecycleAssumption DEF AllClosers
<1>1. ASSUME cpc[c] \in InLock, NEW p \in InLock \ {"unsealing"}, Goes(c, p),
             UNCHANGED <<lock, faults, seals>>,
             lifecycle' = lifecycle \/ lifecycle' = "closed", lifecycle' = "closed" => terminal' # NotFrozen,
             terminal' = terminal \/ terminal' # NotFrozen,
             p \in {"frozen", "closed"} => terminal' # NotFrozen,
             monitor = "closing" => monitor' = "closing",
             \/ cpc[c] # "sealing" /\ sealedFor' = sealedFor
             \/ sealedFor' = [sealedFor EXCEPT ![c] = TRUE]
      PROVE  LockInv'
  <2>1. cpc'[c] = p /\ \A d \in AllClosers \ {c} : cpc'[d] = cpc[d]  BY <1>1 DEF Goes, TypeOK
  <2>2. lock = c  BY <1>1 DEF LockInv, LockIsHeld
  <2>3. LockIsHeld'  BY <1>1, <2>1, <2>2 DEF LockInv, LockIsHeld
  <2>4. MonitorIsClosing'  BY <1>0, <1>1, <2>1 DEF LockInv, MonitorIsClosing
  <2>5. FrozenFirst'  BY <1>1, <2>1 DEF LockInv, FrozenFirst
  <2>6. sealedFor[c] => sealedFor'[c]  BY <1>1 DEF TypeOK
  <2>7. cpc[c] = "sealing" => sealedFor'[c]  BY <1>1 DEF TypeOK
  <2>8. SealedByHolder'  BY <1>1, <2>2, <2>6, <2>7 DEF LockInv, SealedByHolder
  <2>9. GivenBack'  BY <1>1, <2>1 DEF TypeOK, LockInv, GivenBack
  <2> QED  BY <2>3, <2>4, <2>5, <2>8, <2>9 DEF LockInv
<1>2. CASE c \in Closers /\ CloseCall(c)
  <2>1. /\ cpc[c] = "idle" /\ UNCHANGED <<lifecycle, terminal, lock, sealedFor, faults, seals, monitor>>
        /\ cpc' = [cpc EXCEPT ![c] = "lock"] \/ cpc' = [cpc EXCEPT ![c] = "done"]
    BY <1>2 DEF CloseCall, Goes, stateVars
  <2>2. cpc'[c] \in {"lock", "done"} /\ \A d \in AllClosers \ {c} : cpc'[d] = cpc[d]
    BY <2>1 DEF TypeOK
  <2>3. LockIsHeld'  BY <2>1, <2>2 DEF LockInv, LockIsHeld, InLock
  <2>4. MonitorIsClosing'  BY <1>0, <1>2, <2>1, <2>2 DEF LockInv, MonitorIsClosing
  <2>5. FrozenFirst' /\ SealedByHolder' /\ GivenBack'
    BY <2>1, <2>2 DEF LockInv, FrozenFirst, SealedByHolder, GivenBack
  <2> QED  BY <2>3, <2>4, <2>5 DEF LockInv
<1>3. CASE DrainTimesOut(c)
  <2>1. /\ cpc[c] = "draining" /\ UNCHANGED <<terminal, faults, seals>>
        /\ \/ Fail(c)
           \/ Goes(c, "drained") /\ Activity(lifecycle) /\ UNCHANGED <<lifecycle, lock, sealedFor>>
    BY <1>3 DEF DrainTimesOut, stateVars
  <2>2. CASE Fail(c)  BY <2>1, <2>2, FailUnlocks DEF InLock
  <2>3. CASE Goes(c, "drained") /\ Activity(lifecycle) /\ UNCHANGED <<lifecycle, lock, sealedFor>>
    <3>1. monitor = "closing" => monitor' = "closing"  BY <2>3 DEF Activity
    <3>2. lifecycle' = "closed" => terminal' # NotFrozen  BY <2>1, <2>3 DEF LockInv, FrozenFirst
    <3> QED  BY <1>1, <2>1, <2>3, <3>1, <3>2 DEF InLock
  <2> QED  BY <2>1, <2>2, <2>3
<1>4. CASE AlreadyClosed(c)
  <2>1. /\ cpc[c] = "lock" /\ lock = Nobody /\ Goes(c, "done")
        /\ UNCHANGED <<lifecycle, terminal, lock, sealedFor, faults, seals>>
        /\ monitor' = IF c = Monitor THEN "off" ELSE monitor
    BY <1>4 DEF AlreadyClosed, stateVars
  <2>2. cpc'[c] = "done" /\ \A d \in AllClosers \ {c} : cpc'[d] = cpc[d]
    BY <2>1 DEF Goes, TypeOK
  <2>3. LockIsHeld'  BY <2>1, <2>2 DEF LockInv, LockIsHeld, InLock
  <2>4. MonitorIsClosing'  BY <1>0, <2>1, <2>2 DEF LockInv, MonitorIsClosing, InLock
  <2>5. FrozenFirst' /\ SealedByHolder' /\ GivenBack'
    BY <1>0, <2>1, <2>2 DEF LockInv, FrozenFirst, SealedByHolder, GivenBack
  <2> QED  BY <2>3, <2>4, <2>5 DEF LockInv
<1>13. ASSUME (cpc[c] = "lock" /\ lock = Nobody) \/ cpc[c] = "cancelling", lock' = c,
              NEW p \in {"cancelling", "refusing", "sealing", "draining"}, Goes(c, p),
              UNCHANGED <<terminal, faults>>, seals' = seals \/ seals' # 0,
              monitor = "closing" => monitor' = "closing",
              \/ lifecycle' = lifecycle /\ sealedFor' = sealedFor /\ cpc[c] = "lock"
              \/ lifecycle' = "sealed" /\ p = "sealing" /\ sealedFor' = sealedFor
              \/ lifecycle' = lifecycle /\ sealedFor' = [sealedFor EXCEPT ![c] = TRUE]
              \/ lifecycle' = lifecycle /\ sealedFor' = sealedFor /\ seals' # 0
       PROVE  LockInv'
  <2>1. cpc'[c] = p /\ \A d \in AllClosers \ {c} : cpc'[d] = cpc[d]
    BY <1>13 DEF Goes, TypeOK
  <2>2. \A d \in AllClosers \ {c} : cpc[d] \notin InLock
    BY <1>0, <1>13 DEF LockInv, LockIsHeld, InLock
  <2>3. LockIsHeld'  BY <1>13, <2>1, <2>2 DEF LockIsHeld, InLock
  <2>4. MonitorIsClosing'  BY <1>0, <1>13, <2>1 DEF LockInv, MonitorIsClosing, InLock
  <2>5. FrozenFirst'  BY <1>13, <2>1 DEF LockInv, FrozenFirst
  <2>6. GivenBack'  BY <1>13, <2>1 DEF TypeOK, LockInv, GivenBack
  <2>7. SealedByHolder'
    <3> SUFFICES ASSUME lifecycle' = "sealed", terminal' = NotFrozen, faults' = 0, seals' = 0
                 PROVE  cpc'[c] = "sealing" \/ sealedFor'[c]
      BY <1>13 DEF SealedByHolder
    <3>1. sealedFor' = [sealedFor EXCEPT ![c] = TRUE] => sealedFor'[c]  BY DEF TypeOK
    <3>2. CASE lifecycle' = lifecycle /\ sealedFor' = sealedFor /\ cpc[c] = "lock"
      <4>1. \E d \in AllClosers : lock = d  BY <1>13, <3>2 DEF LockInv, SealedByHolder
      <4> QED  BY <1>0, <1>13, <3>2, <4>1
    <3> QED  BY <1>13, <2>1, <3>1, <3>2
  <2> QED  BY <2>3, <2>4, <2>5, <2>6, <2>7 DEF LockInv
<1>14. UserSeals => seals' # 0  BY DEF UserSeals, TypeOK
<1>15. ASSUME SealFor(c), (cpc[c] = "lock" /\ lock = Nobody) \/ cpc[c] = "cancelling", lock' = c,
              UNCHANGED <<terminal, faults, monitor>>
       PROVE  LockInv'
  <2>1. CASE lifecycle' = "sealed" /\ Goes(c, "sealing") /\ UNCHANGED <<sealedFor, seals>>
    BY <1>13, <1>15, <2>1
  <2>2. CASE Goes(c, "draining") /\ sealedFor' = [sealedFor EXCEPT ![c] = TRUE] /\ UNCHANGED <<lifecycle, seals>>
    BY <1>13, <1>15, <2>2
  <2>3. CASE UserSeals /\ Goes(c, "draining") /\ UNCHANGED <<lifecycle, sealedFor>>
    BY <1>13, <1>14, <1>15, <2>3
  <2> QED  BY <1>15, <2>1, <2>2, <2>3 DEF SealFor
<1>5. CASE AcquireLock(c)
  <2>1. cpc[c] = "lock" /\ lock = Nobody /\ lock' = c /\ UNCHANGED <<terminal, faults>>
    BY <1>5 DEF AcquireLock, stateVars
  <2>2. CASE RefusePauses(c) /\ UNCHANGED <<lifecycle, sealedFor, seals>>
    BY <1>13, <2>1, <2>2 DEF RefusePauses
  <2>3. CASE CancelPauses(c) /\ Goes(c, "cancelling") /\ UNCHANGED <<lifecycle, sealedFor, seals>>
    BY <1>13, <2>1, <2>3 DEF CancelPauses, Activity
  <2>4. CASE SealFor(c) /\ UNCHANGED monitor  BY <1>15, <2>1, <2>4
  <2> QED  BY <1>5, <2>2, <2>3, <2>4 DEF AcquireLock
<1>16. CASE Cancelled(c)
  <2>1. cpc[c] = "cancelling" /\ lock' = lock /\ UNCHANGED <<terminal, faults, monitor>> /\ SealFor(c)
    BY <1>16 DEF Cancelled, stateVars
  <2>2. lock = c  BY <2>1 DEF LockInv, LockIsHeld, InLock
  <2> QED  BY <1>15, <2>1, <2>2
<1>6. CASE Sealed(c)
  <2>1. /\ cpc[c] = "sealing" /\ Goes(c, "draining") /\ sealedFor' = [sealedFor EXCEPT ![c] = TRUE]
        /\ UNCHANGED <<lifecycle, terminal, lock, faults, seals, monitor>>
    BY <1>6 DEF Sealed, stateVars
  <2> QED  BY <1>1, <2>1 DEF InLock, LockInv, FrozenFirst
<1>7. CASE DrainRound(c)
  <2>1. /\ cpc[c] = "draining" /\ (Goes(c, "drained") \/ cpc' = cpc)
        /\ UNCHANGED <<lifecycle, terminal, lock, sealedFor, faults, seals, monitor>>
    BY <1>7 DEF DrainRound, stateVars
  <2>2. CASE Goes(c, "drained")  BY <1>1, <2>1, <2>2 DEF InLock, LockInv, FrozenFirst
  <2>3. CASE cpc' = cpc
    BY <2>1, <2>3 DEF LockInv, LockIsHeld, MonitorIsClosing, FrozenFirst, SealedByHolder, GivenBack
  <2> QED  BY <2>1, <2>2, <2>3
<1>8. CASE Drained(c)
  <2>1. /\ cpc[c] = "drained" /\ UNCHANGED <<lifecycle, terminal, lock, sealedFor, faults, seals>>
        /\ Goes(c, "refusing") \/ Goes(c, "settled")
        /\ monitor = "closing" => monitor' = "closing"
    BY <1>8 DEF Drained, RefusePauses, CancelPauses, Activity, stateVars
  <2>2. lifecycle' = "closed" => terminal' # NotFrozen  BY <2>1 DEF LockInv, FrozenFirst
  <2> QED  BY <1>1, <2>1, <2>2 DEF InLock
<1>17. CASE Refused(c)
  BY <1>17, FailUnlocks DEF Refused, InLock, stateVars
<1>18. CASE Unsealed(c)
  <2>1. ~sealedFor[c]  BY <1>18 DEF Unsealed, LockInv, GivenBack
  <2> QED  BY <1>18, <2>1, LeaveUnlocks DEF Unsealed, InLock, stateVars
<1>9. CASE Freeze(c)
  <2>1. /\ cpc[c] = "settled" /\ Goes(c, "frozen") /\ terminal' # NotFrozen
        /\ UNCHANGED <<lifecycle, lock, sealedFor, faults, seals, monitor>>
    BY <1>9 DEF Freeze, NotFrozen, TypeOK
  <2> QED  BY <1>1, <2>1 DEF InLock
<1>10. CASE CloseCommit(c)
  <2>1. /\ cpc[c] = "frozen" /\ Goes(c, "closed") /\ lifecycle' = "closed"
        /\ UNCHANGED <<terminal, lock, sealedFor, faults, seals, monitor>>
    BY <1>10 DEF CloseCommit, stateVars
  <2> QED  BY <1>1, <2>1 DEF InLock, LockInv, FrozenFirst
<1>11. CASE Finish(c)
  <2>1. /\ cpc[c] = "closed" /\ lock' = Nobody
        /\ UNCHANGED <<lifecycle, terminal, sealedFor, faults, seals>>
        /\ \A d \in AllClosers :
               cpc'[d] = IF d = c \/ (d = Monitor /\ cpc[d] = "lock") THEN "done" ELSE cpc[d]
    BY <1>11 DEF Finish, stateVars
  <2>2. lock = c /\ terminal # NotFrozen  BY <2>1 DEF LockInv, LockIsHeld, FrozenFirst, InLock
  <2>3. \A d \in AllClosers : cpc'[d] \notin InLock  BY <2>1, <2>2 DEF LockInv, LockIsHeld, InLock
  <2>4. LockIsHeld'  BY <1>0, <2>1, <2>3 DEF LockIsHeld
  <2>5. MonitorIsClosing'  BY <1>0, <2>1, <2>3 DEF MonitorIsClosing
  <2>6. FrozenFirst' /\ SealedByHolder' /\ GivenBack'
    BY <2>1, <2>2, <2>3 DEF FrozenFirst, SealedByHolder, GivenBack, InLock
  <2> QED  BY <2>4, <2>5, <2>6 DEF LockInv
<1>12. CASE Fault(c)
  <2>1. /\ cpc[c] \in {"cancelling", "sealing", "settled", "frozen"} /\ faults' = faults + 1 /\ Fail(c)
        /\ UNCHANGED <<terminal, seals>>
    BY <1>12 DEF Fault, stateVars
  <2>2. faults' # 0  BY <2>1 DEF TypeOK
  <2> QED  BY <2>1, <2>2, FailUnlocks DEF InLock
<1> QED
  BY <1>2, <1>3, <1>4, <1>5, <1>6, <1>7, <1>8, <1>9, <1>10, <1>11, <1>12, <1>16, <1>17, <1>18
  DEF LockStep, CloseStep

LEMMA LockKept ==
  ASSUME TypeOK, LockInv, [Next]_vars
  PROVE  LockInv'
<1>1. CASE WorkStep  BY <1>1, WorkLeavesClose, LockUntouched
<1>2. CASE Seal \/ Unseal
  <2>1. /\ UNCHANGED <<terminal, lock, cpc, sealedFor, faults>>
        /\ monitor = "closing" => monitor' = "closing"
        /\ \/ lifecycle' = "sealed" /\ seals' = seals + 1
           \/ lifecycle' = "open" /\ seals' = seals
    BY <1>2 DEF Seal, Unseal, UserSeals, stateVars, closeVars, Activity
  <2>2. seals' = seals + 1 => seals' # 0  BY DEF TypeOK
  <2> QED
    BY <2>1, <2>2 DEF LockInv, LockIsHeld, MonitorIsClosing, FrozenFirst, SealedByHolder, GivenBack
<1>3. CASE MonitorStep
  <2>1. CASE MonitorFires
    BY <2>1, LockUntouched DEF MonitorFires, stateVars
  <2>2. CASE MonitorCloses
    <3>1. /\ UNCHANGED <<lifecycle, terminal, lock, sealedFor, faults, seals>>
          /\ monitor = "firing"
          /\ \/ monitor' = "off" /\ cpc' = cpc
             \/ monitor' = "closing" /\ cpc' = [cpc EXCEPT ![Monitor] = "lock"]
      BY <2>2 DEF MonitorCloses, Goes, stateVars
    <3>2. cpc[Monitor] \notin InLock \cup {"lock"}  BY <3>1 DEF LockInv, MonitorIsClosing
    <3>3. CASE monitor' = "off" /\ cpc' = cpc
      BY <3>1, <3>2, <3>3
      DEF LockInv, LockIsHeld, MonitorIsClosing, FrozenFirst, SealedByHolder, GivenBack
    <3>4. CASE monitor' = "closing" /\ cpc' = [cpc EXCEPT ![Monitor] = "lock"]
      <4>1. cpc'[Monitor] = "lock" /\ \A d \in AllClosers \ {Monitor} : cpc'[d] = cpc[d]
        BY <3>4 DEF TypeOK, AllClosers
      <4>2. LockIsHeld'  BY <3>1, <3>2, <4>1 DEF LockInv, LockIsHeld, InLock
      <4>3. MonitorIsClosing' /\ FrozenFirst' /\ GivenBack'
        BY <3>1, <3>4, <4>1 DEF LockInv, MonitorIsClosing, FrozenFirst, GivenBack
      <4>4. SealedByHolder'
        <5>1. lock # Monitor  BY <3>2 DEF LockInv, LockIsHeld, AllClosers
        <5> QED  BY <3>1, <4>1, <5>1 DEF LockInv, SealedByHolder
      <4> QED  BY <4>2, <4>3, <4>4 DEF LockInv
    <3> QED  BY <3>1, <3>3, <3>4
  <2> QED  BY <1>3, <2>1, <2>2 DEF MonitorStep
<1>4. CASE UNCHANGED vars  BY <1>4, LockUntouched DEF vars, stateVars
<1> QED  BY <1>1, <1>2, <1>3, <1>4, CloseKeepsLock DEF Next, WorkStep, AllClosers

LEMMA LockInvariance == Spec => [](TypeOK /\ LockInv)
<1>1. Init => LockInv
  BY LifecycleAssumption
  DEF Init, LockInv, LockIsHeld, MonitorIsClosing, FrozenFirst, SealedByHolder, GivenBack, InLock,
      AllClosers
<1>2. TypeOK /\ LockInv /\ [Next]_vars => LockInv'  BY LockKept
<1> QED  BY <1>1, <1>2, LifecycleTypes, PTL DEF Spec

\* Whatever the number of closes and the order in which they, pauses and deadlines meet:
\* when each has returned or raised, no execution is left sealed without a prepared end,
\* unless an await of a close raised or the user sealed it (async_close, its except
\* branches and _close_lock).
THEOREM FailedCloseUnseals == Spec => []FailedCloseReopens
<1>1. TypeOK /\ LockInv => FailedCloseReopens
  <2> SUFFICES ASSUME TypeOK, LockInv,
                      \A c \in AllClosers : cpc[c] \in {"idle", "done", "raised"},
                      terminal = NotFrozen, faults = 0, seals = 0
               PROVE  lifecycle = "open"
    BY DEF FailedCloseReopens
  <2>1. \A c \in AllClosers : lock # c  BY DEF LockInv, LockIsHeld, InLock
  <2>2. lifecycle # "sealed"  BY <2>1 DEF LockInv, SealedByHolder
  <2>3. lifecycle # "closed"  BY DEF LockInv, FrozenFirst
  <2> QED  BY <2>2, <2>3 DEF TypeOK
<1> QED  BY <1>1, LockInvariance, PTL

-----------------------------------------------------------------------------
(***************************************************************************)
(* The drain.  While a close is past its seal, or its snapshot is kept,    *)
(* nothing outside is accepted, unless somebody unseals.  A drain ends     *)
(* when it finds no task: what is alive then is a dispatch that is neither *)
(* a task of emit_nowait nor at its handler, or the answer to an interrupt.*)
(* What comes later is emitted by the handlers of these.                   *)
(***************************************************************************)
PastSeal == {"sealing", "draining", "drained", "settled", "frozen", "closed"}

Guarded ==
    "reopened" \notin history
      /\ (terminal # NotFrozen \/ \E c \in AllClosers : cpc[c] \in PastSeal) => lifecycle # "open"

\* A dispatch waits for its task only if emit_nowait made one; an interrupt is left by a
\* handler that has ended.
Settled ==
    "timedOut" \notin history =>
        /\ \A s \in Signals : phase[s] = "queued" => via[s] = "nowait"
        /\ \A s \in waiting \cup resuming : phase[s] \in Ended

Work == resuming \cup {s \in Signals : phase[s] \in Alive}

PastDrain == {"drained", "settled", "frozen"}

DrainIsOver == terminal # NotFrozen \/ \E c \in AllClosers : cpc[c] \in PastDrain

Quieted == history \cap {"reopened", "timedOut"} = {} /\ DrainIsOver => Work \subseteq late

DrainInv == TypeOK /\ LockInv /\ Guarded /\ Settled /\ Quieted

\* What a round of the drain does not see is what it records as late.
LEMMA RoundSeesTheRest ==
  ASSUME TypeOK, Settled, Pending = {}, "timedOut" \notin history
  PROVE  Work \subseteq Unseen
<1> SUFFICES ASSUME NEW s \in Signals, phase[s] \in Alive
             PROVE  phase[s] = "begun" /\ via[s] # "nowait"
  BY DEF Work, Unseen
<1>1. phase[s] \notin {"handling", "nested"} /\ via[s] # "nowait"  BY DEF Pending
<1> QED  BY <1>1 DEF Settled, Alive

\* No step that only lets work go on, or ends it, leaves anything that is not late.
LEMMA QuietStays ==
  ASSUME DrainInv, UNCHANGED <<terminal, cpc>>, history \subseteq history',
         \A s \in Work' : s \in Work /\ (s \in late => s \in late')
  PROVE  Quieted'
BY DEF DrainInv, Quieted, DrainIsOver

\* Once a drain is over nothing outside is accepted, and what late work emits is late.
LEMMA QuietEmits ==
  ASSUME DrainInv, UNCHANGED <<terminal, cpc>>, history \subseteq history',
         NEW s \in Signals, NEW how, NEW parent, NEW origin, NEW internal \in BOOLEAN,
         NEW where \in {"queued", "begun"},
         Emitted(s, how, parent, origin, internal, where),
         parent \in Signals => phase[parent] \in Alive,
         internal => origin \in Work,
         resuming' \subseteq resuming
  PROVE  Quieted'
<1> SUFFICES ASSUME history' \cap {"reopened", "timedOut"} = {}, DrainIsOver'
             PROVE  Work' \subseteq late'
  BY DEF Quieted
<1>1. history \cap {"reopened", "timedOut"} = {} /\ DrainIsOver  BY DEF DrainIsOver
<1>2. Work \subseteq late  BY <1>1 DEF DrainInv, Quieted
<1>3. lifecycle # "open"
  BY <1>1 DEF DrainInv, Guarded, DrainIsOver, PastSeal, PastDrain
<1>4. ~internal => ~Accepts(internal)  BY <1>3 DEF Accepts
<1>5. late \subseteq late' /\ (Accepts(internal) => s \in late')
  BY <1>2, <1>4 DEF Emitted
<1>6. ASSUME NEW t \in Signals, phase'[t] \in Alive
      PROVE  t \in late'
  <2>1. phase'[t] = IF t = s THEN IF Accepts(internal) THEN where ELSE "ended"
                    ELSE IF t = parent /\ Accepts(internal) THEN "nested" ELSE phase[t]
    BY <1>6 DEF Emitted
  <2>2. CASE t = s
    <3>1. Accepts(internal)  BY <1>6, <2>1, <2>2 DEF Alive
    <3> QED  BY <1>5, <2>2, <3>1
  <2>3. CASE t # s
    <3>1. phase[t] \in Alive  BY <1>6, <2>1, <2>3
    <3> QED  BY <1>2, <1>5, <3>1 DEF Work
  <2> QED  BY <2>2, <2>3
<1> QED  BY <1>2, <1>5, <1>6 DEF Work

\* Emitting puts a signal that was not built yet where Settled allows it.
LEMMA SettledEmits ==
  ASSUME DrainInv, NEW s \in Fresh, NEW how, NEW parent, NEW origin, NEW internal \in BOOLEAN,
         NEW where \in {"queued", "begun"},
         Emitted(s, how, parent, origin, internal, where),
         parent \in Signals => phase[parent] = "handling",
         where = "queued" => how = "nowait",
         waiting' \cup resuming' \subseteq waiting \cup resuming, history \subseteq history'
  PROVE  Settled'
<1> SUFFICES ASSUME "timedOut" \notin history' PROVE Settled'
  BY DEF Settled
<1>1. s \in Signals /\ phase[s] = "free"  BY DEF Fresh
<1>2. ASSUME NEW t \in Signals
      PROVE  phase'[t] = IF t = s THEN IF Accepts(internal) THEN where ELSE "ended"
                         ELSE IF t = parent /\ Accepts(internal) THEN "nested" ELSE phase[t]
  BY DEF Emitted
<1>3. ASSUME NEW t \in Signals, phase'[t] = "queued"
      PROVE  via'[t] = "nowait"
  <2>1. CASE t = s  BY <1>1, <1>2, <1>3, <2>1 DEF Emitted, DrainInv, TypeOK
  <2>2. CASE t # s
    <3>1. phase[t] = "queued"  BY <1>2, <1>3, <2>2
    <3> QED  BY <2>2, <3>1 DEF Emitted, DrainInv, TypeOK, Settled
  <2> QED  BY <2>1, <2>2
<1>4. ASSUME NEW t \in waiting' \cup resuming'
      PROVE  phase'[t] \in Ended
  <2>1. t \in Signals /\ phase[t] \in Ended  BY <1>4 DEF DrainInv, Settled, TypeOK
  <2>2. t # s /\ t # parent  BY <1>1, <2>1 DEF Ended
  <2> QED  BY <1>2, <2>1, <2>2
<1> QED  BY <1>3, <1>4 DEF Settled

LEMMA EmittingKeepsDrain ==
  ASSUME DrainInv, Emitting
  PROVE  Settled' /\ Quieted'
<1>1. WorkStep  BY DEF WorkStep
<1>2. UNCHANGED <<terminal, cpc>> /\ history \subseteq history'
  BY <1>1, WorkLeavesClose DEF closeVars
<1>3. Nobody \notin Signals  BY LifecycleAssumption DEF Signals
<1>4. ASSUME NEW how, NEW parent, NEW origin, NEW internal \in BOOLEAN,
             NEW where \in {"queued", "begun"}, Fresh # {},
             Emitted(NextSignal, how, parent, origin, internal, where),
             parent \in Signals => phase[parent] = "handling",
             where = "queued" => how = "nowait",
             internal => origin \in Work,
             waiting' = waiting, resuming' \subseteq resuming
      PROVE  Settled' /\ Quieted'
  <2>1. PICK s \in Fresh : s = NextSignal  BY <1>4, NextSignalFresh
  <2>2. s \in Signals  BY DEF Fresh
  <2>3. Emitted(s, how, parent, origin, internal, where)  BY <1>4, <2>1
  <2>4. parent \in Signals => phase[parent] \in Alive  BY <1>4 DEF Alive
  <2>5. Settled'  BY <1>2, <1>4, <2>3, SettledEmits
  <2>6. Quieted'  BY <1>2, <1>4, <2>2, <2>3, <2>4, QuietEmits
  <2> QED  BY <2>5, <2>6
<1>5. CASE EmitNowaitOutside
  BY <1>3, <1>4, <1>5 DEF EmitNowaitOutside, EmitNowait, pauseVars
<1>6. CASE EmitOutside
  BY <1>3, <1>4, <1>6 DEF EmitOutside, pauseVars
<1>7. ASSUME NEW p \in Signals, EmitNowaitInside(p)
      PROVE  Settled' /\ Quieted'
  <2>1. p \in Work  BY <1>7 DEF EmitNowaitInside, Work, Alive
  <2> QED  BY <1>3, <1>4, <1>7, <2>1 DEF EmitNowaitInside, EmitNowait, pauseVars
<1>8. ASSUME NEW p \in Signals, EmitInside(p)
      PROVE  Settled' /\ Quieted'
  <2>1. phase[p] = "handling" /\ p \in Work  BY <1>8 DEF EmitInside, Work, Alive
  <2> QED  BY <1>4, <1>8, <2>1 DEF EmitInside, pauseVars
<1>9. ASSUME NEW p \in Signals, Answer(p)
      PROVE  Settled' /\ Quieted'
  <2>1. /\ lifecycle = "open" /\ p \in waiting /\ UNCHANGED signalVars
        /\ waiting' = waiting \ {p} /\ resuming' = resuming \cup {p}
    BY <1>9 DEF Answer
  <2>2. Settled'  BY <1>2, <2>1 DEF DrainInv, Settled, signalVars
  <2>3. ~ ("reopened" \notin history /\ DrainIsOver)
    BY <2>1 DEF DrainInv, Guarded, DrainIsOver, PastSeal, PastDrain
  <2>4. Quieted'  BY <1>2, <2>3 DEF Quieted, DrainIsOver
  <2> QED  BY <2>2, <2>4
<1>10. ASSUME NEW p \in Signals, Resume(p)
       PROVE  Settled' /\ Quieted'
  <2>1. p \in Work /\ resuming' \subseteq resuming  BY <1>10 DEF Resume, Work
  <2>2. Fresh # {} /\ Emitted(NextSignal, "resume", Nobody, p, TRUE, "begun") /\ waiting' = waiting
    BY <1>10 DEF Resume
  <2> QED  BY <1>3, <1>4, <2>1, <2>2
<1> QED  BY <1>5, <1>6, <1>7, <1>8, <1>9, <1>10 DEF Emitting

LEMMA HandlingKeepsDrain ==
  ASSUME DrainInv, NEW s \in Signals,
         Begin(s) \/ DispatchStep(s) \/ HandlerStep(s) \/ CancelledLate(s)
  PROVE  Settled' /\ Quieted'
<1>1. WorkStep  BY DEF WorkStep
<1>2. UNCHANGED <<terminal, cpc>> /\ history \subseteq history'
  BY <1>1, WorkLeavesClose DEF closeVars
<1>3. ASSUME phase[s] \in Alive, NEW how \in Ended, Over(s, how),
             waiting' \subseteq waiting \cup {s}, resuming' = resuming
      PROVE  Settled' /\ Quieted'
  <2>1. ASSUME NEW t \in Signals
        PROVE  phase'[t] = IF t = s THEN how
                           ELSE IF t = by[s] /\ phase[t] = "nested" THEN "handling" ELSE phase[t]
    BY <1>3 DEF Over
  <2>2. ASSUME NEW t \in Signals \ {s}
        PROVE  /\ via'[t] = via[t]
               /\ phase'[t] \in Alive <=> phase[t] \in Alive
               /\ phase[t] \in Ended => phase'[t] \in Ended
               /\ t \in late => t \in late'
    BY <1>3, <2>1 DEF Over, Forget, Alive, Ended
  <2>4. phase'[s] \in Ended  BY <1>3, <2>1
  <2>5. Settled'
    <3> SUFFICES ASSUME "timedOut" \notin history' PROVE Settled'
      BY DEF Settled
    <3>1. ASSUME NEW t \in Signals, phase'[t] = "queued"
          PROVE  via'[t] = "nowait"
      <4>1. t # s /\ phase[t] = "queued"  BY <2>1, <2>4, <3>1 DEF Ended
      <4> QED  BY <1>2, <2>2, <4>1 DEF DrainInv, Settled
    <3>2. ASSUME NEW t \in waiting' \cup resuming'
          PROVE  phase'[t] \in Ended
      <4>1. t = s \/ t \in waiting \cup resuming  BY <1>3
      <4> QED  BY <1>2, <2>2, <2>4, <4>1 DEF DrainInv, Settled, TypeOK
    <3> QED  BY <3>1, <3>2 DEF Settled
  <2>7. Quieted'
    <3> SUFFICES ASSUME "timedOut" \notin history' PROVE Quieted'
      BY DEF Quieted
    <3>1. s \notin resuming  BY <1>2, <1>3 DEF DrainInv, Settled, Alive, Ended
    <3>2. ASSUME NEW t \in Work'
          PROVE  t \in Work /\ (t \in late => t \in late')
      <4>1. t \in Signals \ {s} /\ t \in Work
        BY <1>3, <2>2, <2>4, <3>1, <3>2 DEF Work, Alive, Ended, DrainInv, TypeOK
      <4> QED  BY <2>2, <4>1
    <3> QED  BY <1>2, <3>2, QuietStays
  <2> QED  BY <2>5, <2>7
<1>4. ASSUME \/ phase[s] = "queued" /\ phase' = [phase EXCEPT ![s] = "begun"]
             \/ phase[s] = "begun" /\ phase' = [phase EXCEPT ![s] = "handling"],
             UNCHANGED <<via, late, pauseVars>>
      PROVE  Settled' /\ Quieted'
  <2>1. \A t \in Signals : t # s => phase'[t] = phase[t]  BY <1>4 DEF DrainInv, TypeOK
  <2>2. phase'[s] \in {"begun", "handling"}  BY <1>4 DEF DrainInv, TypeOK
  <2>3. Settled'
    <3> SUFFICES ASSUME "timedOut" \notin history' PROVE Settled'
      BY DEF Settled
    <3>1. s \notin waiting \cup resuming  BY <1>2, <1>4 DEF DrainInv, Settled, Ended
    <3> QED  BY <1>2, <1>4, <2>1, <2>2, <3>1 DEF DrainInv, TypeOK, Settled, pauseVars
  <2>4. Work' = Work
    <3>1. \A t \in Signals : phase'[t] \in Alive <=> phase[t] \in Alive
      BY <1>4, <2>1, <2>2 DEF Alive
    <3> QED  BY <1>4, <3>1 DEF Work, pauseVars
  <2>5. Quieted'  BY <1>2, <1>4, <2>4, QuietStays
  <2> QED  BY <2>3, <2>5
<1>5. CASE Begin(s)  BY <1>4, <1>5 DEF Begin
<1>6. CASE DispatchHandler(s)  BY <1>4, <1>6 DEF DispatchHandler
<1>7. CASE DispatchNothing(s) \/ HandlerReturns(s) \/ HandlerRaises(s) \/ HandlerPauses(s)
           \/ ChangeRefused(s) \/ CancelledLate(s)
  <2>1. /\ phase[s] \in Alive /\ (Over(s, "ended") \/ Over(s, "failed"))
        /\ waiting' \subseteq waiting \cup {s} /\ resuming' = resuming
    BY <1>7 DEF DispatchNothing, HandlerReturns, HandlerRaises, HandlerPauses, ChangeRefused, Raise,
       CancelledLate, Alive, pauseVars
  <2>2. "ended" \in Ended /\ "failed" \in Ended  BY DEF Ended
  <2> QED  BY <1>3, <2>1, <2>2
<1>8. CASE ChangeState(s)
  <2>1. UNCHANGED <<phase, via, late, waiting, resuming>>
    BY <1>8 DEF ChangeState, signalVars, pauseVars
  <2>2. Settled'  BY <1>2, <2>1 DEF DrainInv, Settled
  <2>3. Quieted'  BY <1>2, <2>1, QuietStays DEF Work
  <2> QED  BY <2>2, <2>3
<1> QED  BY <1>5, <1>6, <1>7, <1>8 DEF DispatchStep, HandlerStep

LEMMA StartingKeepsDrain ==
  ASSUME DrainInv, NEW x \in Starters, StartBegin(x) \/ StartStep(x)
  PROVE  Settled' /\ Quieted'
<1>1. WorkStep  BY DEF WorkStep
<1>2. UNCHANGED <<terminal, cpc>> /\ history \subseteq history'
  BY <1>1, WorkLeavesClose DEF closeVars
<1>3. CASE StartDispatch(x)
  <2>1. /\ Fresh # {} /\ UNCHANGED <<waiting, resuming>>
        /\ Emitted(NextSignal, "start", x, Nobody, FALSE, "begun")
    BY <1>3 DEF StartDispatch, pauseVars
  <2>2. PICK s \in Fresh : s = NextSignal  BY <2>1, NextSignalFresh
  <2>3. x \notin Signals  BY LifecycleAssumption DEF Signals
  <2>4. s \in Signals  BY DEF Fresh
  <2>5. Emitted(s, "start", x, Nobody, FALSE, "begun")  BY <2>1, <2>2
  <2>6. Settled'  BY <1>2, <2>1, <2>3, <2>5, SettledEmits
  <2>7. Quieted'  BY <1>2, <2>1, <2>3, <2>4, <2>5, QuietEmits
  <2> QED  BY <2>6, <2>7
<1>4. CASE StartBegin(x) \/ StartProceed(x) \/ StartReturns(x)
  <2>1. UNCHANGED <<phase, via, late, waiting, resuming>>
    BY <1>4 DEF StartBegin, StartProceed, StartReturns, signalVars, pauseVars
  <2>2. Settled'  BY <1>2, <2>1 DEF DrainInv, Settled
  <2>3. Quieted'  BY <1>2, <2>1, QuietStays DEF Work
  <2> QED  BY <2>2, <2>3
<1> QED  BY <1>3, <1>4 DEF StartStep

\* Nobody but unseal opens an execution that a close has sealed or prepared the end of.
LEMMA GuardKept ==
  ASSUME TypeOK, LockInv, Guarded, [Next]_vars
  PROVE  Guarded'
<1>1. ASSUME UNCHANGED <<lifecycle, terminal>>, history \subseteq history',
             \A d \in AllClosers : cpc'[d] \in PastSeal => \E e \in AllClosers : cpc[e] \in PastSeal
      PROVE  Guarded'
  BY <1>1 DEF Guarded
<1>2. ASSUME NEW c \in AllClosers, NEW p, cpc' = [cpc EXCEPT ![c] = p],
             p \in PastSeal => cpc[c] \in PastSeal
      PROVE  \A d \in AllClosers : cpc'[d] \in PastSeal => \E e \in AllClosers : cpc[e] \in PastSeal
  BY <1>2 DEF TypeOK
<1>3. ASSUME NEW c \in AllClosers, cpc[c] \in InLock, Fail(c), UNCHANGED terminal,
             history \subseteq history'
      PROVE  Guarded'
  <2>1. CASE terminal = NotFrozen /\ lifecycle' = "open"
    <3>1. \A d \in AllClosers \ {c} : cpc[d] \notin InLock
      BY <1>3, LifecycleAssumption DEF LockInv, LockIsHeld, AllClosers
    <3>2. cpc'[c] \in {"idle", "raised", "unsealing"} /\ \A d \in AllClosers \ {c} : cpc'[d] = cpc[d]
      BY <1>3 DEF Fail, Leave, Goes, TypeOK
    <3>3. \A d \in AllClosers : cpc'[d] \notin PastSeal  BY <3>1, <3>2 DEF PastSeal, InLock
    <3> QED  BY <1>3, <2>1, <3>3 DEF Guarded
  <2>2. CASE ~ (terminal = NotFrozen /\ lifecycle' = "open")
    <3>1. lifecycle' # "open" \/ (terminal # NotFrozen /\ lifecycle' = lifecycle)
      BY <1>3, <2>2 DEF Fail
    <3> QED  BY <1>3, <3>1 DEF Guarded
  <2> QED  BY <2>1, <2>2
<1>4. CASE WorkStep
  <2>1. UNCHANGED <<lifecycle, terminal, cpc>> /\ history \subseteq history'
    BY <1>4, WorkLeavesClose DEF closeVars
  <2> QED  BY <1>1, <2>1
<1>5. CASE Seal  BY <1>5 DEF Seal, Guarded
<1>6. CASE Unseal
  <2>1. /\ lifecycle = "sealed" /\ terminal = NotFrozen /\ UNCHANGED <<terminal, cpc>>
        /\ history' = IF Closing THEN history \cup {"reopened"} ELSE history
    BY <1>6 DEF Unseal, Mutable, stateVars, closeVars
  <2>2. (\E c \in AllClosers : cpc[c] \in PastSeal) => Closing  BY DEF PastSeal, Closing
  <2> QED  BY <2>1, <2>2 DEF Guarded
<1>7. CASE MonitorStep
  <2>1. /\ UNCHANGED <<lifecycle, terminal, history>>
        /\ cpc' = cpc \/ cpc' = [cpc EXCEPT ![Monitor] = "lock"]
    BY <1>7 DEF MonitorStep, MonitorFires, MonitorCloses, Goes, stateVars, closeVars
  <2>2. Monitor \in AllClosers  BY DEF AllClosers
  <2> QED  BY <1>1, <1>2, <2>1, <2>2 DEF PastSeal
<1>8. ASSUME NEW c \in AllClosers, CloseCall(c) \/ AlreadyClosed(c) \/ Sealed(c)
      PROVE  Guarded'
  <2>1. /\ UNCHANGED <<lifecycle, terminal, history>>
        /\ \/ cpc' = [cpc EXCEPT ![c] = "lock"] \/ cpc' = [cpc EXCEPT ![c] = "done"]
           \/ cpc[c] = "sealing" /\ cpc' = [cpc EXCEPT ![c] = "draining"]
    BY <1>8 DEF CloseCall, AlreadyClosed, Sealed, Goes, stateVars
  <2> QED  BY <1>1, <1>2, <2>1 DEF PastSeal
<1>9. ASSUME NEW c \in AllClosers, DrainRound(c) \/ Drained(c) \/ Unsealed(c)
      PROVE  Guarded'
  <2>1. /\ UNCHANGED <<lifecycle, terminal>> /\ history \subseteq history'
        /\ \/ cpc' = cpc
           \/ cpc[c] \in {"draining", "drained"} /\ \E p \in {"drained", "settled", "refusing"} : Goes(c, p)
           \/ \E p \in {"idle", "raised"} : cpc' = [cpc EXCEPT ![c] = p]
    BY <1>9 DEF DrainRound, Drained, RefusePauses, CancelPauses, Unsealed, Leave, stateVars
  <2> QED  BY <1>1, <1>2, <2>1 DEF PastSeal, Goes
<1>10. ASSUME NEW c \in AllClosers, SealFor(c), UNCHANGED terminal
       PROVE  Guarded'
  <2>1. CASE lifecycle' = "sealed"  BY <2>1 DEF Guarded
  <2>2. CASE lifecycle' = lifecycle /\ (lifecycle # "open" \/ "reopened" \in history')
    BY <2>2 DEF Guarded
  <2> QED  BY <1>10, <2>1, <2>2 DEF SealFor
<1>11. ASSUME NEW c \in AllClosers, AcquireLock(c) \/ Cancelled(c)
       PROVE  Guarded'
  <2>1. UNCHANGED terminal  BY <1>11 DEF AcquireLock, Cancelled, stateVars
  <2>2. CASE SealFor(c)  BY <1>10, <2>1, <2>2
  <2>3. CASE ~SealFor(c)
    <3>1. /\ UNCHANGED lifecycle /\ history \subseteq history'
          /\ Goes(c, "refusing") \/ Goes(c, "cancelling")
      BY <1>11, <2>3 DEF AcquireLock, Cancelled, RefusePauses, CancelPauses
    <3> QED  BY <1>1, <1>2, <2>1, <3>1 DEF PastSeal, Goes
  <2> QED  BY <2>2, <2>3
<1>12. ASSUME NEW c \in AllClosers, Refused(c) \/ Fault(c) \/ DrainTimesOut(c)
       PROVE  Guarded'
  <2>1. /\ UNCHANGED terminal /\ history \subseteq history' /\ cpc[c] \in InLock
        /\ Fail(c) \/ (UNCHANGED lifecycle /\ Goes(c, "drained") /\ cpc[c] = "draining")
    BY <1>12 DEF Refused, Fault, DrainTimesOut, InLock, stateVars
  <2>2. CASE Fail(c)  BY <1>3, <2>1, <2>2
  <2>3. CASE UNCHANGED lifecycle /\ Goes(c, "drained") /\ cpc[c] = "draining"
    BY <1>1, <1>2, <2>1, <2>3 DEF PastSeal, Goes
  <2> QED  BY <2>1, <2>2, <2>3
<1>13. ASSUME NEW c \in AllClosers, Freeze(c)
       PROVE  Guarded'
  BY <1>13 DEF Freeze, Guarded, PastSeal
<1>14. ASSUME NEW c \in AllClosers, CloseCommit(c)
       PROVE  Guarded'
  BY <1>14 DEF CloseCommit, Guarded
<1>15. ASSUME NEW c \in AllClosers, Finish(c)
       PROVE  Guarded'
  BY <1>1, <1>15 DEF Finish, stateVars, PastSeal
<1>16. CASE UNCHANGED vars  BY <1>1, <1>16 DEF vars, stateVars, closeVars
<1> QED
  BY <1>4, <1>5, <1>6, <1>7, <1>8, <1>9, <1>11, <1>12, <1>13, <1>14, <1>15, <1>16
  DEF Next, WorkStep, LockStep, CloseStep, AllClosers

LEMMA ClosingKeepsDrain ==
  ASSUME DrainInv, NEW c \in AllClosers,
         (c \in Closers /\ (CloseCall(c) \/ DrainTimesOut(c))) \/ LockStep(c) \/ CloseStep(c) \/ Fault(c)
  PROVE  Settled' /\ Quieted'
<1>0. TypeOK /\ LockInv /\ Settled /\ Quieted  BY DEF DrainInv
<1>1. CASE DrainTimesOut(c)
  BY <1>1 DEF DrainTimesOut, Settled, Quieted
<1>2. CASE DrainRound(c)
  <2>1. /\ UNCHANGED <<phase, via, by, waiting, resuming, terminal, history>> /\ cpc[c] = "draining"
        /\ \/ UNCHANGED <<cpc, late>>
           \/ Pending = {} /\ late' = Unseen
    BY <1>2 DEF DrainRound, stateVars, pauseVars
  <2>2. Settled'  BY <1>0, <2>1 DEF Settled
  <2>5. Work' = Work  BY <2>1 DEF Work
  <2>3. CASE UNCHANGED <<cpc, late>>
    <3>1. DrainIsOver' => DrainIsOver  BY <2>1, <2>3 DEF DrainIsOver
    <3> QED  BY <1>0, <2>1, <2>2, <2>3, <2>5, <3>1 DEF Quieted
  <2>4. CASE Pending = {} /\ late' = Unseen
    <3>1. "timedOut" \notin history => Work \subseteq Unseen  BY <1>0, <2>4, RoundSeesTheRest
    <3> QED  BY <2>1, <2>2, <2>4, <2>5, <3>1 DEF Quieted
  <2> QED  BY <2>1, <2>2, <2>3, <2>4
<1>3. ASSUME UNCHANGED signalVars, waiting' \subseteq waiting, resuming' = resuming,
             history \subseteq history', DrainIsOver' => DrainIsOver
      PROVE  Settled' /\ Quieted'
  <2>1. Settled'  BY <1>0, <1>3 DEF Settled, signalVars
  <2>2. Quieted'  BY <1>0, <1>3 DEF Quieted, Work, signalVars
  <2> QED  BY <2>1, <2>2
<1>4. ASSUME terminal' = terminal \/ cpc[c] = "settled",
             \A d \in AllClosers : cpc'[d] \in PastDrain => cpc[d] \in PastDrain
      PROVE  DrainIsOver' => DrainIsOver
  BY <1>4 DEF DrainIsOver, PastDrain
<1>5. ASSUME NEW p, cpc' = [cpc EXCEPT ![c] = p], p \in PastDrain => cpc[c] \in PastDrain
      PROVE  \A d \in AllClosers : cpc'[d] \in PastDrain => cpc[d] \in PastDrain
  BY <1>0, <1>5 DEF TypeOK
<1>6. CASE CloseCall(c) \/ AlreadyClosed(c) \/ Sealed(c) \/ CloseCommit(c)
  <2>1. /\ UNCHANGED <<signalVars, waiting, resuming, history, terminal>>
        /\ \E p \in {"lock", "done", "draining", "closed"} : cpc' = [cpc EXCEPT ![c] = p]
    BY <1>6 DEF CloseCall, AlreadyClosed, Sealed, CloseCommit, Goes, stateVars, pauseVars
  <2> QED  BY <1>3, <1>4, <1>5, <2>1 DEF PastDrain
<1>7. CASE AcquireLock(c) \/ Cancelled(c)
  <2>1. /\ UNCHANGED <<signalVars, resuming, terminal>> /\ waiting' \subseteq waiting
        /\ history \subseteq history'
        /\ \E p \in {"refusing", "cancelling", "sealing", "draining"} : cpc' = [cpc EXCEPT ![c] = p]
    BY <1>7 DEF AcquireLock, Cancelled, SealFor, RefusePauses, CancelPauses, Goes, stateVars, pauseVars
  <2> QED  BY <1>3, <1>4, <1>5, <2>1 DEF PastDrain
<1>8. CASE Drained(c)
  <2>1. /\ UNCHANGED <<signalVars, resuming, terminal>> /\ waiting' \subseteq waiting
        /\ history \subseteq history' /\ cpc[c] = "drained"
        /\ \E p \in {"refusing", "settled"} : cpc' = [cpc EXCEPT ![c] = p]
    BY <1>8 DEF Drained, RefusePauses, CancelPauses, Goes, stateVars, pauseVars
  <2> QED  BY <1>3, <1>4, <1>5, <2>1 DEF PastDrain
<1>9. CASE Freeze(c)
  <2>1. /\ UNCHANGED <<signalVars, waiting, resuming, history>> /\ cpc[c] = "settled"
        /\ cpc' = [cpc EXCEPT ![c] = "frozen"]
    BY <1>9 DEF Freeze, Goes, pauseVars
  <2> QED  BY <1>3, <1>4, <1>5, <2>1 DEF PastDrain
<1>10. CASE Finish(c)
  <2>1. /\ UNCHANGED <<signalVars, waiting, resuming, history, terminal>>
        /\ \A d \in AllClosers : cpc'[d] = "done" \/ cpc'[d] = cpc[d]
    BY <1>10 DEF Finish, stateVars, pauseVars
  <2> QED  BY <1>3, <1>4, <2>1 DEF PastDrain
<1>11. CASE Refused(c) \/ Unsealed(c) \/ Fault(c)
  <2>1. /\ UNCHANGED <<signalVars, waiting, resuming, terminal>> /\ history \subseteq history'
        /\ Fail(c) \/ Leave(c)
    BY <1>11 DEF Refused, Unsealed, Fault, stateVars, pauseVars
  <2>2. \E p \in {"idle", "raised", "unsealing"} : cpc' = [cpc EXCEPT ![c] = p]
    BY <2>1 DEF Fail, Leave, Goes
  <2> QED  BY <1>3, <1>4, <1>5, <2>1, <2>2 DEF PastDrain
<1> QED
  BY <1>1, <1>2, <1>6, <1>7, <1>8, <1>9, <1>10, <1>11 DEF LockStep, CloseStep

LEMMA DrainKept ==
  ASSUME DrainInv, [Next]_vars
  PROVE  Guarded' /\ Settled' /\ Quieted'
<1>0. TypeOK /\ LockInv /\ Guarded /\ Settled /\ Quieted  BY DEF DrainInv
<1>1. Guarded'  BY <1>0, GuardKept
<1>2. ASSUME UNCHANGED <<signalVars, waiting, resuming, terminal>>, history \subseteq history',
             \A d \in AllClosers : cpc'[d] = "lock" \/ cpc'[d] = cpc[d]
      PROVE  Settled' /\ Quieted'
  <2>1. Work' = Work  BY <1>2 DEF signalVars, Work
  <2>2. DrainIsOver' => DrainIsOver  BY <1>2 DEF DrainIsOver, PastDrain
  <2>3. Quieted'  BY <1>0, <1>2, <2>1, <2>2 DEF signalVars, Quieted
  <2>4. Settled'  BY <1>0, <1>2 DEF signalVars, Settled
  <2> QED  BY <2>3, <2>4
<1>3. CASE Seal \/ Unseal
  <2>1. /\ UNCHANGED <<signalVars, waiting, resuming, terminal, cpc>>
        /\ history \subseteq history'
    BY <1>3 DEF Seal, Unseal, stateVars, closeVars, pauseVars
  <2> QED  BY <1>1, <1>2, <2>1
<1>4. CASE MonitorStep
  <2>1. /\ UNCHANGED <<signalVars, waiting, resuming, terminal, history>>
        /\ cpc' = cpc \/ cpc' = [cpc EXCEPT ![Monitor] = "lock"]
    BY <1>4 DEF MonitorStep, MonitorFires, MonitorCloses, Goes, stateVars, closeVars, pauseVars
  <2>2. \A d \in AllClosers : cpc'[d] = "lock" \/ cpc'[d] = cpc[d]
    BY <1>0, <2>1 DEF TypeOK
  <2> QED  BY <1>1, <1>2, <2>1, <2>2
<1>5. CASE UNCHANGED vars
  <2>1. UNCHANGED <<signalVars, waiting, resuming, terminal, cpc, history>>
    BY <1>5 DEF vars, stateVars, closeVars, pauseVars
  <2> QED  BY <1>1, <1>2, <2>1
<1> QED
  BY <1>1, <1>3, <1>4, <1>5, EmittingKeepsDrain, HandlingKeepsDrain, StartingKeepsDrain, ClosingKeepsDrain
  DEF Next, AllClosers

\* Whatever is emitted, nested, started or answered while a close waits: when it freezes
\* the state, every task of emit_nowait and every handler that was reached before the drain
\* ended have ended, with all that they emitted.  What may still run, and emit, comes from
\* a dispatch or an answer the drain had no task of (_drain_pending_tasks), unless somebody
\* reopened the execution or the deadline of a drain passed.
THEOREM OnlyLateWorkRuns == Spec => []OnlyLateWorkLeft
<1>1. Init => Guarded /\ Settled /\ Quieted
  BY DEF Init, Guarded, Settled, Quieted, DrainIsOver, PastSeal, PastDrain
<1>2. TypeOK /\ LockInv /\ Guarded /\ Settled /\ Quieted /\ [Next]_vars => Guarded' /\ Settled' /\ Quieted'
  BY DrainKept DEF DrainInv
<1>3. Quieted => OnlyLateWorkLeft  BY DEF Quieted, DrainIsOver, Work, OnlyLateWorkLeft
<1> QED  BY <1>1, <1>2, <1>3, LockInvariance, PTL DEF Spec

=============================================================================
