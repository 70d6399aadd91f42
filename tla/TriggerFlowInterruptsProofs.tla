--------------------- MODULE TriggerFlowInterruptsProofs ---------------------
(***************************************************************************)
(* Proofs about TriggerFlowInterrupts, for any number of interrupts,       *)
(* handlers, callers and requests, and whatever the modelled awaits do:    *)
(* the shape of the state, that no wait is resumed twice, that a chunk     *)
(* which pauses itself again stays within its budget, and what a default   *)
(* close leaves pending.                                                   *)
(***************************************************************************)
EXTENDS TriggerFlowInterrupts, TLAPS

-----------------------------------------------------------------------------
(* The inductive invariant *)

\* A suspended pause_for or continue_with is about one of the interrupts.
Engaged ==
  /\ \A h \in Handlers : hpc[h] \in {"lock"} \cup InPause => hl[h].id \in Interrupts
  /\ \A c \in Callers :
       cpc[c] \notin {"idle", "done", "raised"} => cl[c].id \in Interrupts

TypeInv == TypeOK /\ Engaged

\* c has claimed a generation and not dispatched its resume yet.
Owes(c) == cpc[c] \in {"accepted", "dispatched", "resuming"}

OwesOf(c, i, g) == Owes(c) /\ cl[c].id = i /\ cl[c].entry.gen = g

Settled(i, g) == \E d \in dispatched : d.id = i /\ d.gen = g

\* Nobody has dispatched, or is about to dispatch, the generation g of i.
Free(i, g) == ~Settled(i, g) /\ \A c \in Callers : ~OwesOf(c, i, g)

Open(e) == e.status = "waiting" /\ e.claim = Nobody

\* The clock is ahead of every generation in the system.
ClockAhead ==
  /\ \A i \in Interrupts : store[i].gen <= lastGen
  /\ \A h \in Handlers : hl[h].gen <= lastGen /\ hl[h].prev.gen <= lastGen
  /\ \A c \in Callers : cl[c].entry.gen <= lastGen
  /\ \A d \in dispatched : d.gen <= lastGen

\* One pause_for at a time is past the boundary of an interrupt.
OneInBoundary ==
  /\ \A h \in Handlers :
       hpc[h] \in InPause /\ hl[h].id \notin Anonymous => lock[hl[h].id] = h
  /\ \A h1, h2 \in Handlers :
       hl[h1].id = hl[h2].id /\ hl[h1].id \in Anonymous => h1 = h2

\* The generation a pause_for has planned is newer than all of its interrupt.
PlanIsNew ==
  \A h \in Handlers : hpc[h] = "planned" =>
    /\ store[hl[h].id].gen < hl[h].gen
    /\ \A c \in Callers : Owes(c) /\ cl[c].id = hl[h].id => cl[c].entry.gen < hl[h].gen
    /\ \A d \in dispatched : d.id = hl[h].id => d.gen < hl[h].gen

\* An open wait that a rollback may put back is free, and not the stored one.
PreviousIsFree ==
  \A h \in Handlers : hpc[h] = "persisting" /\ Open(hl[h].prev) =>
    /\ Free(hl[h].id, hl[h].prev.gen)
    /\ store[hl[h].id].gen # hl[h].prev.gen

OpenIsFree == \A i \in Interrupts : Open(store[i]) => Free(i, store[i].gen)

OwedOnce ==
  /\ \A c, d \in Callers : Owes(c) /\ OwesOf(d, cl[c].id, cl[c].entry.gen) => c = d
  /\ \A c \in Callers : Owes(c) => ~Settled(cl[c].id, cl[c].entry.gen)

\* A claim is in its caller's copy until the copy is resumed, and a dispatch is
\* remembered until it failed.
CopyIsClaimed ==
  \A c \in Callers : cpc[c] \in {"accepted", "dispatched"} => cl[c].entry.claim # Nobody

DispatchStands == \A c \in Callers : cpc[c] = "dispatching" => Dispatch(c) \in dispatched

Exclusive ==
  /\ ClockAhead /\ OneInBoundary /\ PlanIsNew /\ PreviousIsFree /\ OpenIsFree
  /\ OwedOnce /\ CopyIsClaimed /\ DispatchStands /\ ResumedAtMostOnce

Inv == TypeInv /\ Exclusive

-----------------------------------------------------------------------------
(* Type correctness *)

LEMMA FreshTypes ==
  /\ Absent \in Entry
  /\ FreshHandler \in HandlerLocals
  /\ FreshCaller \in CallerLocals
  /\ \A g, n, k \in Nat : NewEntry(g, n, k) \in Entry
<1>1. NoRecords \in [Requests -> [state : RequestStates, value : Values \cup {Nobody}]]
  BY DEF NoRecords, RequestStates
<1>2. Absent \in Entry
  BY <1>1 DEF Absent, Entry, WaitStates, RequestKeys
<1>3. \A g, n, k \in Nat : NewEntry(g, n, k) \in Entry
  BY <1>1 DEF NewEntry, Entry, WaitStates, RequestKeys
<1> QED
  BY <1>2, <1>3 DEF FreshHandler, HandlerLocals, FreshCaller, CallerLocals, RequestKeys, Statuses

LEMMA InitTyped == Init => TypeInv
<1> SUFFICES ASSUME Init PROVE TypeInv
  OBVIOUS
<1>1. TypeOK
  BY FreshTypes DEF Init, TypeOK, Statuses, NoCloser, Closer, CloserStates, CloserPC, HandlerPC, CallerPC
<1>2. Engaged
  BY DEF Init, Engaged, InPause
<1> QED
  BY <1>1, <1>2 DEF TypeInv

LEMMA ReturnTyped ==
  ASSUME TypeInv, NEW h \in Handlers, NEW outcome \in {"done", "failed"},
         Return(h, outcome)
  PROVE  /\ hpc' \in [Handlers -> HandlerPC]
         /\ hl' \in [Handlers -> HandlerLocals]
         /\ lock' \in [Interrupts -> Handlers \cup {Nobody}]
         /\ \A k \in Handlers : hpc'[k] \in {"lock"} \cup InPause => hl'[k].id \in Interrupts
<1>1. [FreshHandler EXCEPT !.parent = hl[h].parent] \in HandlerLocals
  BY FreshTypes DEF TypeInv, TypeOK, HandlerLocals
<1>2. hpc' \in [Handlers -> HandlerPC] /\ hl' \in [Handlers -> HandlerLocals]
  BY <1>1 DEF Return, TypeInv, TypeOK, HandlerPC
<1>3. lock' \in [Interrupts -> Handlers \cup {Nobody}]
  BY DEF Return, Release, TypeInv, TypeOK
<1>4. \A k \in Handlers : hpc'[k] \in {"lock"} \cup InPause => hl'[k].id \in Interrupts
  BY DEF Return, TypeInv, TypeOK, Engaged, InPause
<1> QED
  BY <1>2, <1>3, <1>4

LEMMA CountsTyped ==
  ASSUME TypeInv, NEW h \in Handlers, NEW i \in Interrupts
  PROVE  InheritedCount(h, i) \in Nat /\ Loops(h, i) \in Nat
<1>1. InheritedCount(h, i) \in Nat
  BY DEF InheritedCount, TypeInv, TypeOK, HandlerLocals
<1>2. hl[h].parent # Nobody => cl[hl[h].parent].entry \in Entry
  BY DEF TypeInv, TypeOK, HandlerLocals, CallerLocals
<1>3. Loops(h, i) \in Nat
  BY <1>2 DEF Loops, Entry
<1> QED BY <1>1, <1>3

LEMMA EnvelopeTyped ==
  ASSUME TypeInv, NEW h \in Handlers, NEW wait \in WaitStates, ApplyEnvelope(h, wait)
  PROVE  store' \in [Interrupts -> Entry] /\ status' \in Statuses
<1>1. \A e \in Entry : [e EXCEPT !.wait = wait] \in Entry
  BY DEF Entry
<1>2. CASE hl[h].id \in Interrupts
  <2>1. store[hl[h].id] \in Entry
    BY <1>2 DEF TypeInv, TypeOK
  <2>2. [store EXCEPT ![hl[h].id].wait = wait]
          = [store EXCEPT ![hl[h].id] = [store[hl[h].id] EXCEPT !.wait = wait]]
    OBVIOUS
  <2> QED BY <1>1, <2>1, <2>2 DEF ApplyEnvelope, TypeInv, TypeOK, Statuses
<1>3. CASE hl[h].id \notin Interrupts
  BY <1>3 DEF ApplyEnvelope, TypeInv, TypeOK, Statuses
<1> QED BY <1>2, <1>3

LEMMA PauseStepTyped ==
  ASSUME TypeInv, NEW h \in Handlers, PauseStep(h)
  PROVE  TypeInv'
<1> USE FreshTypes, InterruptsAssumption DEF TypeInv
<1>1. CASE PausePlan(h)
  <2>1. CASE Return(h, "failed") /\ UNCHANGED lastGen
    <3>1. TypeOK'
      BY <1>1, <2>1, ReturnTyped DEF PausePlan, TypeOK, execVars, callerVars
    <3>2. Engaged'
      BY <1>1, <2>1, ReturnTyped DEF PausePlan, Engaged, execVars, callerVars
    <3> QED BY <3>1, <3>2
  <2>2. CASE /\ lastGen' = lastGen + 1
             /\ hl' = [hl EXCEPT ![h].gen = lastGen + 1]
             /\ hpc' = [hpc EXCEPT ![h] = "planned"]
             /\ lock' = IF hl[h].id \in Anonymous THEN lock ELSE [lock EXCEPT ![hl[h].id] = h]
    <3>0. hpc[h] = "lock" /\ UNCHANGED <<store, execVars, callerVars, dispatched>>
      BY <1>1 DEF PausePlan
    <3>5. lastGen + 1 \in Nat
      BY DEF TypeOK
    <3>3. [hl[h] EXCEPT !.gen = lastGen + 1] \in HandlerLocals
      BY <3>5, Zenon DEF TypeOK, HandlerLocals
    <3>4. hl' \in [Handlers -> HandlerLocals]
      BY <2>2, <3>3 DEF TypeOK
    <3>1. TypeOK'
      BY <2>2, <3>0, <3>4 DEF TypeOK, Engaged, execVars, callerVars, HandlerPC
    <3>2. Engaged'
      BY <2>2, <3>0 DEF Engaged, callerVars, TypeOK, HandlerLocals, InPause
    <3> QED BY <3>1, <3>2
  <2> QED BY <1>1, <2>1, <2>2 DEF PausePlan
<1>2. CASE PauseStore(h)
  <2>3. hpc[h] = "planned" /\ hl[h].id \in Interrupts /\ store[hl[h].id] \in Entry
    BY <1>2 DEF PauseStore, TypeOK, Engaged, InPause
  <2>4. NewEntry(hl[h].gen, InheritedCount(h, hl[h].id), Loops(h, hl[h].id)) \in Entry
    BY <2>3, CountsTyped, FreshTypes DEF TypeOK, HandlerLocals
  <2>5. hl' \in [Handlers -> HandlerLocals]
    <3>1. [hl[h] EXCEPT !.prev = store[hl[h].id], !.prevStatus = status] \in HandlerLocals
      BY <2>3 DEF TypeOK, HandlerLocals
    <3>2. hl' = [hl EXCEPT ![h] = [hl[h] EXCEPT !.prev = store[hl[h].id], !.prevStatus = status]]
      BY <1>2 DEF PauseStore
    <3> QED BY <3>1, <3>2 DEF TypeOK
  <2>1. TypeOK'
    BY <1>2, <2>4, <2>5 DEF PauseStore, TypeOK, callerVars, HandlerPC, Statuses
  <2>2. Engaged'
    BY <1>2 DEF PauseStore, Engaged, callerVars, TypeOK, HandlerLocals, InPause
  <2> QED BY <2>1, <2>2
<1>3. CASE PausePersistFails(h)
  <2>1. hl[h].prev \in Entry /\ hl[h].prevStatus \in Statuses
    BY DEF TypeOK, HandlerLocals
  <2>2. store' \in [Interrupts -> Entry] /\ status' \in Statuses
    BY <1>3, <2>1 DEF PausePersistFails, TypeOK, Statuses
  <2>3. TypeOK'
    BY <1>3, <2>2, ReturnTyped DEF PausePersistFails, TypeOK, callerVars
  <2>4. Engaged'
    BY <1>3, ReturnTyped DEF PausePersistFails, Engaged, callerVars
  <2> QED BY <2>3, <2>4
<1>4. CASE PauseProceed(h)
  BY <1>4 DEF PauseProceed, TypeOK, Engaged, execVars, callerVars, HandlerPC, InPause
<1>5. CASE PauseSuperseded(h)
  BY <1>5, ReturnTyped DEF PauseSuperseded, TypeOK, Engaged, execVars, callerVars
<1>6. CASE PausePublished(h)
  BY <1>6, EnvelopeTyped DEF PausePublished, TypeOK, Engaged, callerVars, WaitStates, HandlerPC, InPause
<1>7. CASE PausePublishFails(h)
  BY <1>7, EnvelopeTyped, ReturnTyped DEF PausePublishFails, TypeOK, Engaged, callerVars, WaitStates
<1>8. CASE PauseExposed(h)
  BY <1>8, EnvelopeTyped DEF PauseExposed, TypeOK, Engaged, callerVars, WaitStates, HandlerPC, InPause
<1>9. CASE PauseReturns(h)
  BY <1>9, ReturnTyped DEF PauseReturns, TypeOK, Engaged, execVars, callerVars
<1>10. CASE PauseAborts(h)
  BY <1>10, ReturnTyped DEF PauseAborts, TypeOK, Engaged, execVars, callerVars
<1>11. CASE HandlerCollected(h)
  BY <1>11 DEF HandlerCollected, TypeOK, Engaged, callerVars, HandlerPC, Statuses, InPause
<1> QED
  BY <1>1, <1>2, <1>3, <1>4, <1>5, <1>6, <1>7, <1>8, <1>9, <1>10, <1>11 DEF PauseStep

LEMMA CopyTyped ==
  ASSUME TypeInv, NEW c \in Callers, cl[c].id \in Interrupts,
         NEW e \in Entry, StoreCopy(c, e)
  PROVE  /\ store' \in [Interrupts -> Entry]
         /\ cl' \in [Callers -> CallerLocals]
         /\ \A d \in Callers : cl'[d].id = cl[d].id
<1>1. [cl[c] EXCEPT !.entry = e] \in CallerLocals
  BY DEF TypeInv, TypeOK, CallerLocals
<1>2. cl' = [cl EXCEPT ![c] = [cl[c] EXCEPT !.entry = e]]
  BY DEF StoreCopy
<1>3. store' \in [Interrupts -> Entry]
  BY DEF StoreCopy, TypeInv, TypeOK
<1> QED BY <1>1, <1>2, <1>3 DEF TypeInv, TypeOK, CallerLocals

LEMMA EntriesTyped ==
  ASSUME TypeInv, NEW c \in Callers, NEW e \in Entry
  PROVE  /\ Resumed(e) \in Entry
         /\ \A s \in {"accepted", "dispatched"} : WithRecord(e, c, s) \in Entry
         /\ cl[c].id \in Interrupts => Counted(c) \in Entry
<1>1. Resumed(e) \in Entry
  <2>1. e.loops + 1 \in Nat
    BY DEF Entry
  <2>2. Resumed(e) = [e EXCEPT !.status = "resumed", !.claim = Nobody, !.loops = e.loops + 1]
    BY DEF Resumed
  <2> QED BY <2>1, <2>2 DEF Entry
<1>2. ASSUME NEW s \in {"accepted", "dispatched"} PROVE WithRecord(e, c, s) \in Entry
  <2> DEFINE q == cl[c].req
             record == [state |-> s,
                        value |-> IF e.reqs[q].state = "none" THEN cl[c].value ELSE e.reqs[q].value]
  <2>1. WithRecord(e, c, s) = [e EXCEPT !.reqs = [e.reqs EXCEPT ![q] = record], !.wait = s]
    BY DEF WithRecord
  <2>2. e.reqs \in [Requests -> [state : RequestStates, value : Values \cup {Nobody}]]
    BY DEF Entry
  <2>3. q \in Requests => record \in [state : RequestStates, value : Values \cup {Nobody}]
    BY <2>2 DEF TypeInv, TypeOK, CallerLocals, RequestStates
  <2>4. [e.reqs EXCEPT ![q] = record] \in [Requests -> [state : RequestStates, value : Values \cup {Nobody}]]
    BY <2>2, <2>3
  <2> HIDE DEF q, record
  <2> QED BY <2>1, <2>4 DEF Entry, WaitStates
<1>3. ASSUME cl[c].id \in Interrupts PROVE Counted(c) \in Entry
  <2> DEFINE f == store[cl[c].id]
             n == IF ResumeTo[cl[c].id] = "self" THEN f.count + 1 ELSE f.count
  <2>1. f \in Entry
    BY <1>3 DEF TypeInv, TypeOK
  <2>2. n \in Nat
    BY <2>1 DEF Entry
  <2>3. cl[c].req \in RequestKeys
    BY DEF TypeInv, TypeOK, CallerLocals
  <2>4. Counted(c) = [f EXCEPT !.count = n, !.claim = cl[c].req]
    BY DEF Counted
  <2> HIDE DEF f, n
  <2> QED BY <2>1, <2>2, <2>3, <2>4 DEF Entry
<1> QED BY <1>1, <1>2, <1>3

LEMMA CollectTyped ==
  ASSUME TypeInv, NEW c \in Callers, Collect(c)
  PROVE  /\ hpc' \in [Handlers -> HandlerPC]
         /\ hl' \in [Handlers -> HandlerLocals]
         /\ \A k \in Handlers : hpc'[k] \in {"lock"} \cup InPause => hl'[k].id \in Interrupts
<1> USE DEF TypeInv, TypeOK, Engaged
<1>1. CASE cl[c].child = Nobody
  BY <1>1 DEF Collect
<1>2. CASE cl[c].child # Nobody
  BY <1>2, FreshTypes DEF Collect, HandlerPC, InPause
<1> QED BY <1>1, <1>2

LEMMA PutBackTyped ==
  ASSUME TypeInv, NEW i \in Interrupts, PutBack(i) \/ UNCHANGED closer
  PROVE  closer' \in CloserStates
BY DEF PutBack, TypeInv, TypeOK, CloserStates

LEMMA ContinueStepTyped ==
  ASSUME TypeInv, NEW c \in Callers, ContinueStep(c) \/ ContinueAborts(c)
  PROVE  TypeInv'
<1> USE FreshTypes, InterruptsAssumption DEF TypeInv
<1>1. CASE ContinueAnswered(c)
  BY <1>1 DEF ContinueAnswered, TypeOK, Engaged, execVars, handlerVars, CallerPC
<1>2. CASE ContinueClaim(c)
  <2>1. cl[c].id \in Interrupts
    BY <1>2 DEF ContinueClaim, ThroughBarrier, Engaged
  <2>2. Counted(c) \in Entry
    BY <2>1, EntriesTyped, store[cl[c].id] \in Entry DEF TypeOK
  <2>3. /\ Resumed(Counted(c)) \in Entry
        /\ WithRecord(Counted(c), c, "dispatched") \in Entry
        /\ WithRecord(Counted(c), c, "accepted") \in Entry
    BY <2>2, EntriesTyped
  <2>4. \E e \in Entry, st \in Statuses, pc \in {"resuming", "dispatched", "accepted"} :
          StoreCopy(c, e) /\ status' = st /\ cpc' = [cpc EXCEPT ![c] = pc]
    BY <1>2, <2>3 DEF ContinueClaim, Statuses
  <2>5. UNCHANGED <<lifecycle, closer, handlerVars, dispatched>>
    BY <1>2 DEF ContinueClaim
  <2> QED BY <2>1, <2>4, <2>5, CopyTyped DEF TypeOK, Engaged, handlerVars, CallerPC
<1>3. CASE ContinueDispatched(c)
  <2>1. cl[c].id \in Interrupts /\ cl[c].entry \in Entry
    BY <1>3 DEF ContinueDispatched, Engaged, TypeOK, CallerLocals
  <2>2. WithRecord(cl[c].entry, c, "dispatched") \in Entry
    BY <2>1, EntriesTyped
  <2>3. closer' \in CloserStates
    BY <1>3, <2>1, PutBackTyped DEF ContinueDispatched
  <2> QED
    BY <1>3, <2>1, <2>2, <2>3, CopyTyped
       DEF ContinueDispatched, TypeOK, Engaged, handlerVars, CallerPC, Statuses
<1>4. CASE ContinueResumed(c)
  <2>1. cl[c].id \in Interrupts /\ cl[c].entry \in Entry
    BY <1>4 DEF ContinueResumed, Engaged, TypeOK, CallerLocals
  <2>2. Resumed(cl[c].entry) \in Entry
    BY <2>1, EntriesTyped
  <2> QED
    BY <1>4, <2>1, <2>2, CopyTyped
       DEF ContinueResumed, TypeOK, Engaged, handlerVars, CallerPC, Statuses
<1>5. CASE ContinueDispatch(c)
  <2>1. Dispatch(c) \in Dispatches
    BY <1>5 DEF ContinueDispatch, Dispatch, Dispatches, Engaged, TypeOK, CallerLocals, Entry
  <2> QED
    BY <1>5, <2>1 DEF ContinueDispatch, TypeOK, Engaged, execVars, handlerVars, CallerPC
<1>6. CASE ContinueReturns(c)
  <2>1. cl[c].id \in Interrupts
    BY <1>6 DEF ContinueReturns, Engaged
  <2>2. store' \in [Interrupts -> Entry] /\ status' \in Statuses
    <3> DEFINE e == store[cl[c].id]
               req == cl[c].req
               record == [cl[c].entry.reqs[req] EXCEPT !.state = "completed"]
               wait == IF SameGeneration(c) THEN "completed" ELSE e.wait
    <3>1. CASE req = NoRequest \/ e.status = "absent"
      BY <1>6, <3>1 DEF ContinueReturns, Refreshed, TypeOK, Statuses
    <3>2. CASE req # NoRequest /\ e.status # "absent"
      <4>1. req \in Requests
        BY <3>2 DEF TypeOK, CallerLocals, RequestKeys
      <4>2. record \in [state : RequestStates, value : Values \cup {Nobody}]
        <5>1. cl[c].entry \in Entry
          BY DEF TypeOK, CallerLocals
        <5>2. cl[c].entry.reqs[req] \in [state : RequestStates, value : Values \cup {Nobody}]
          BY <4>1, <5>1 DEF Entry
        <5> QED BY <5>2 DEF RequestStates
      <4>3. e \in Entry /\ wait \in WaitStates
        BY <2>1 DEF TypeOK, Entry, WaitStates
      <4>4. [e EXCEPT !.reqs = [e.reqs EXCEPT ![req] = record], !.wait = wait] \in Entry
        <5> HIDE DEF e, req, record, wait
        <5> QED BY <4>1, <4>2, <4>3 DEF Entry
      <4>5. /\ store' = [store EXCEPT ![cl[c].id] =
                          [e EXCEPT !.reqs = [e.reqs EXCEPT ![req] = record], !.wait = wait]]
            /\ status' = status
        BY <1>6, <3>2 DEF ContinueReturns
      <4> QED BY <4>4, <4>5 DEF TypeOK
    <3> QED BY <3>1, <3>2
  <2>3. cl' \in [Callers -> CallerLocals] /\ cpc' \in [Callers -> CallerPC]
    <3>1. [cl[c] EXCEPT !.child = Nobody] \in CallerLocals
      BY DEF TypeOK, CallerLocals
    <3>2. cl' = [cl EXCEPT ![c] = FreshCaller] \/ cl' = [cl EXCEPT ![c] = [cl[c] EXCEPT !.child = Nobody]]
      BY <1>6 DEF ContinueReturns
    <3>3. cpc' = [cpc EXCEPT ![c] = "done"] \/ cpc' = [cpc EXCEPT ![c] = "completing"]
      BY <1>6 DEF ContinueReturns
    <3> QED BY <3>1, <3>2, <3>3 DEF TypeOK, CallerPC
  <2>4. \A d \in Callers : cpc'[d] \notin {"idle", "done", "raised"} => cl'[d].id \in Interrupts
    BY <1>6, <2>1 DEF ContinueReturns, Engaged, TypeOK, CallerLocals
  <2> QED
    BY <1>6, <2>2, <2>3, <2>4, CollectTyped DEF ContinueReturns, TypeOK, Engaged
<1>7. CASE ContinueCompletes(c)
  BY <1>7 DEF ContinueCompletes, Refreshed, TypeOK, Engaged, handlerVars, CallerPC, Statuses
<1>8. CASE ContinueFails(c)
  <2>1. cl[c].id \in Interrupts
    BY <1>8 DEF ContinueFails, Engaged
  <2>2. store' \in [Interrupts -> Entry] /\ status' \in Statuses
    <3> DEFINE e == store[cl[c].id]
               req == cl[c].req
               record == [cl[c].entry.reqs[req] EXCEPT !.state = "dispatch_failed"]
               reqs == [e.reqs EXCEPT ![req] = record]
               failed == [e EXCEPT !.reqs = reqs]
               reopened == [e EXCEPT !.reqs = reqs, !.status = "waiting", !.claim = Nobody,
                                     !.wait = "dispatch_failed"]
    <3>1. CASE req = NoRequest \/ e.status = "absent"
      BY <1>8, <3>1 DEF ContinueFails, TypeOK, Statuses
    <3>2. CASE req # NoRequest /\ e.status # "absent"
      <4>1. req \in Requests
        BY <3>2 DEF TypeOK, CallerLocals, RequestKeys
      <4>2. record \in [state : RequestStates, value : Values \cup {Nobody}]
        <5>1. cl[c].entry \in Entry
          BY DEF TypeOK, CallerLocals
        <5>2. cl[c].entry.reqs[req] \in [state : RequestStates, value : Values \cup {Nobody}]
          BY <4>1, <5>1 DEF Entry
        <5> QED BY <5>2 DEF RequestStates
      <4>3. e \in Entry
        BY <2>1 DEF TypeOK
      <4>4. failed \in Entry /\ reopened \in Entry
        <5> HIDE DEF e, req, record
        <5> QED BY <4>1, <4>2, <4>3 DEF Entry, WaitStates
      <4>5. /\ store' = [store EXCEPT ![cl[c].id] = failed]
               \/ store' = [store EXCEPT ![cl[c].id] = reopened]
            /\ status' \in Statuses
        BY <1>8, <3>2 DEF ContinueFails, Statuses
      <4> QED BY <4>4, <4>5 DEF TypeOK
    <3> QED BY <3>1, <3>2
  <2>3. closer' \in CloserStates
    BY <1>8, <2>1, PutBackTyped DEF ContinueFails
  <2> QED
    BY <1>8, <2>2, <2>3, CollectTyped DEF ContinueFails, TypeOK, Engaged, CallerPC
<1>9. CASE ContinueAborts(c)
  BY <1>9 DEF ContinueAborts, TypeOK, Engaged, execVars, handlerVars, CallerPC
<1> QED
  BY <1>1, <1>2, <1>3, <1>4, <1>5, <1>6, <1>7, <1>8, <1>9 DEF ContinueStep

LEMMA CallsTyped ==
  ASSUME TypeInv,
         \/ \E h \in Handlers, i \in Interrupts : PauseCall(h, i)
         \/ \E h \in Handlers, c \in Callers, i \in Interrupts : PauseAgainCall(h, c, i)
         \/ \E c \in Callers, i \in Interrupts, r \in RequestKeys, v \in Values :
              ContinueCall(c, i, r, v)
  PROVE  TypeInv'
<1> USE FreshTypes DEF TypeInv
<1>1. ASSUME NEW h \in Handlers, NEW i \in Interrupts, PauseCall(h, i) PROVE TypeInv'
  <2>1. [FreshHandler EXCEPT !.id = i] \in HandlerLocals
    BY DEF HandlerLocals
  <2>2. hl' \in [Handlers -> HandlerLocals] /\ hl'[h].id = i
    BY <1>1, <2>1 DEF PauseCall, TypeOK, FreshHandler
  <2> QED
    BY <1>1, <2>2 DEF PauseCall, TypeOK, Engaged, execVars, callerVars, HandlerPC
<1>2. ASSUME NEW h \in Handlers, NEW c \in Callers, NEW i \in Interrupts, PauseAgainCall(h, c, i)
      PROVE  TypeInv'
  <2> DEFINE n == IF ResumeTo[cl[c].id] = "self" THEN cl[c].entry.count ELSE 0
             l == [FreshHandler EXCEPT !.id = i, !.parent = c, !.from = cl[c].id, !.fromCount = n]
  <2>1. cl[c].id \in Interrupts /\ cl[c].entry \in Entry
    BY <1>2 DEF PauseAgainCall, Engaged, TypeOK, CallerLocals
  <2>2. n \in Nat
    BY <2>1 DEF Entry
  <2>3. l \in HandlerLocals /\ l.id = i
    <3> HIDE DEF n
    <3> QED BY <2>1, <2>2 DEF HandlerLocals, FreshHandler
  <2>4. hl' = [hl EXCEPT ![h] = l]
    BY <1>2 DEF PauseAgainCall
  <2>5. [cl[c] EXCEPT !.child = h] \in CallerLocals /\ [cl[c] EXCEPT !.child = h].id = cl[c].id
    BY DEF TypeOK, CallerLocals
  <2>6. cl' = [cl EXCEPT ![c] = [cl[c] EXCEPT !.child = h]]
    BY <1>2 DEF PauseAgainCall
  <2>7. /\ hpc' = [hpc EXCEPT ![h] = "lock"]
        /\ UNCHANGED <<store, execVars, lock, lastGen, cpc, dispatched>>
    BY <1>2 DEF PauseAgainCall
  <2> DEFINE k == [cl[c] EXCEPT !.child = h]
  <2> HIDE DEF l, k
  <2>8. TypeOK'
    BY <2>3, <2>4, <2>5, <2>6, <2>7 DEF TypeOK, execVars, HandlerPC
  <2>9. Engaged'
    BY <2>3, <2>4, <2>5, <2>6, <2>7 DEF Engaged, TypeOK
  <2> QED BY <2>8, <2>9
<1>3. ASSUME NEW c \in Callers, NEW i \in Interrupts, NEW r \in RequestKeys, NEW v \in Values,
             ContinueCall(c, i, r, v)
      PROVE  TypeInv'
  <2> DEFINE l == [FreshCaller EXCEPT !.id = i, !.req = r, !.value = v]
  <2>1. l \in CallerLocals /\ l.id = i
    BY DEF CallerLocals, FreshCaller
  <2> QED
    BY <1>3, <2>1 DEF ContinueCall, TypeOK, Engaged, execVars, handlerVars, CallerPC
<1> QED BY <1>1, <1>2, <1>3

LEMMA OthersTyped ==
  ASSUME TypeInv,
         \/ \E S \in SUBSET Interrupts : EventResumes(S)
         \/ Seal \/ Unseal \/ CloseStep
         \/ \E policy \in {"error", "cancel"} : CloseCall(policy)
  PROVE  TypeInv'
<1> USE DEF TypeInv
<1>1. ASSUME NEW S \in SUBSET Interrupts, EventResumes(S) PROVE TypeInv'
  <2>1. \A e \in Entry : [e EXCEPT !.status = "resumed", !.wait = "completed"] \in Entry
    BY DEF Entry, WaitStates
  <2>2. store' \in [Interrupts -> Entry]
    BY <1>1, <2>1 DEF EventResumes, TypeOK
  <2>3. \A i \in Interrupts :
          [id |-> i, gen |-> store[i].gen, req |-> NoRequest, by |-> Nobody] \in Dispatches
    BY DEF TypeOK, Entry, Dispatches, RequestKeys
  <2>4. dispatched' \subseteq Dispatches
    BY <1>1, <2>3 DEF EventResumes, TypeOK
  <2>5. status' \in Statuses
    BY <1>1 DEF EventResumes, Refreshed, TypeOK, Statuses
  <2> QED
    BY <1>1, <2>2, <2>4, <2>5 DEF EventResumes, TypeOK, Engaged, handlerVars, callerVars
<1>2. ASSUME CancelPending PROVE store' \in [Interrupts -> Entry] /\ status' \in Statuses
  <2>1. \A e \in Entry : [e EXCEPT !.status = "cancelled", !.wait = "cancelled"] \in Entry
    BY DEF Entry, WaitStates
  <2> QED BY <1>2, <2>1 DEF CancelPending, TypeOK, Statuses
<1>4. CASE Seal
  BY <1>4 DEF Seal, TypeOK, Engaged, handlerVars, callerVars
<1>5. CASE Unseal
  BY <1>5 DEF Unseal, TypeOK, Engaged, handlerVars, callerVars
<1>6. CASE CloseSeal
  BY <1>6 DEF CloseSeal, TypeOK, Engaged, handlerVars, callerVars, CloserStates, CloserPC
<1>3. CASE DrainEnds
  BY <1>3 DEF DrainEnds, TypeOK, Engaged, handlerVars, callerVars, CloserStates, CloserPC
<1>7. CASE CloseLook
  <2>1. closer' \in CloserStates
    BY <1>7 DEF CloseLook, TypeOK, CloserStates, CloserPC
  <2>2. store' \in [Interrupts -> Entry] /\ status' \in Statuses
    BY <1>2, <1>7 DEF CloseLook, TypeOK
  <2> QED
    BY <1>7, <2>1, <2>2 DEF CloseLook, TypeOK, Engaged, handlerVars, callerVars
<1>8. CASE CloseFreeze
  BY <1>8 DEF CloseFreeze, TypeOK, Engaged, handlerVars, callerVars, CloserStates, CloserPC, Statuses
<1>9. CASE CloseFails
  BY <1>9 DEF CloseFails, NoCloser, Closer, TypeOK, Engaged, handlerVars, callerVars,
              CloserStates, CloserPC
<1>10. CASE CloseFinish
  BY <1>10 DEF CloseFinish, TypeOK, Engaged, handlerVars, callerVars, CloserStates, CloserPC
<1>11. ASSUME NEW policy \in {"error", "cancel"}, CloseCall(policy) PROVE TypeInv'
  <2>1. closer' \in CloserStates
    <3>1. PICK pc \in CloserPC : closer' = Closer(pc, policy, TRUE)
      BY <1>11 DEF CloseCall, CloserPC
    <3> QED BY <3>1 DEF Closer, CloserStates
  <2>2. store' \in [Interrupts -> Entry] /\ status' \in Statuses
    BY <1>11, <1>2 DEF CloseCall, TypeOK
  <2>3. lifecycle' \in {"open", "sealed", "closed"}
    BY <1>11 DEF CloseCall, TypeOK
  <2> QED
    BY <1>11, <2>1, <2>2, <2>3 DEF CloseCall, TypeOK, Engaged, handlerVars, callerVars
<1> QED
  BY <1>1, <1>3, <1>4, <1>5, <1>6, <1>7, <1>8, <1>9, <1>10, <1>11 DEF CloseStep

LEMMA StepTyped == TypeInv /\ [Next]_vars => TypeInv'
<1> SUFFICES ASSUME TypeInv, [Next]_vars PROVE TypeInv'
  OBVIOUS
<1>1. CASE UNCHANGED vars
  BY <1>1 DEF vars, execVars, handlerVars, callerVars, TypeInv, TypeOK, Engaged
<1>2. CASE Next
  BY <1>2, PauseStepTyped, ContinueStepTyped, CallsTyped, OthersTyped DEF Next
<1> QED BY <1>1, <1>2

\* Every variable keeps the shape the code gives it, and a suspended coroutine
\* is about one of the interrupts.
THEOREM TypesHold == Spec => []TypeOK
<1>1. Init => TypeInv
  BY InitTyped
<1>2. TypeInv /\ [Next]_vars => TypeInv'
  BY StepTyped
<1>3. TypeInv => TypeOK
  BY DEF TypeInv
<1> QED BY <1>1, <1>2, <1>3, PTL DEF Spec

-----------------------------------------------------------------------------
(* No wait is resumed twice *)

\* The boundary lock: a pause_for holds its own from its plan to its return.
LEMMA BoundaryKept == TypeInv /\ OneInBoundary /\ [Next]_vars => OneInBoundary'
<1> SUFFICES ASSUME TypeInv, OneInBoundary, [Next]_vars PROVE OneInBoundary'
  OBVIOUS
<1> USE InterruptsAssumption DEF TypeInv
<1>1. CASE UNCHANGED <<lock, hpc, hl>>
  BY <1>1 DEF OneInBoundary
<1>2. ASSUME NEW h \in Handlers, NEW outcome \in {"done", "failed"}, Return(h, outcome)
      PROVE  OneInBoundary'
  <2>1. /\ hpc' = [hpc EXCEPT ![h] = outcome]
        /\ hl'[h].id = Nobody
        /\ \A k \in Handlers \ {h} : hl'[k] = hl[k]
        /\ \A i \in Interrupts : lock'[i] = IF lock[i] = h THEN Nobody ELSE lock[i]
    BY <1>2 DEF Return, Release, TypeOK, FreshHandler
  <2> QED
    BY <2>1 DEF OneInBoundary, TypeOK, InPause, Engaged
<1>3. ASSUME NEW h \in Handlers, PauseStep(h) PROVE OneInBoundary'
  <2>1. CASE PausePlan(h)
    <3>1. CASE Return(h, "failed")
      BY <3>1, <1>2
    <3>2. CASE ~Return(h, "failed")
      <4>1. /\ hpc[h] = "lock" /\ hl[h].id \in Interrupts
            /\ hl[h].id \notin Anonymous => lock[hl[h].id] = Nobody
            /\ hpc' = [hpc EXCEPT ![h] = "planned"]
            /\ lock' = IF hl[h].id \in Anonymous THEN lock ELSE [lock EXCEPT ![hl[h].id] = h]
            /\ hl' = [hl EXCEPT ![h].gen = lastGen + 1]
        BY <2>1, <3>2 DEF PausePlan, Engaged
      <4>2. \A k \in Handlers : hl'[k].id = hl[k].id
        BY <4>1 DEF TypeOK, HandlerLocals
      <4> QED
        BY <4>1, <4>2 DEF OneInBoundary, TypeOK, InPause, Engaged
    <3> QED BY <3>1, <3>2
  <2>2. CASE PauseStore(h)
    <3>1. /\ hpc[h] = "planned" /\ hpc' = [hpc EXCEPT ![h] = "persisting"] /\ lock' = lock
          /\ hl' = [hl EXCEPT ![h] = [hl[h] EXCEPT !.prev = store[hl[h].id], !.prevStatus = status]]
      BY <2>2 DEF PauseStore
    <3>2. \A k \in Handlers : hl'[k].id = hl[k].id
      BY <3>1 DEF TypeOK, HandlerLocals
    <3> QED BY <3>1, <3>2 DEF OneInBoundary, TypeOK, InPause
  <2>3. CASE PauseProceed(h) \/ PausePublished(h) \/ PauseExposed(h)
    BY <2>3 DEF PauseProceed, PausePublished, PauseExposed, OneInBoundary, TypeOK, InPause
  <2>4. CASE HandlerCollected(h)
    BY <2>4 DEF HandlerCollected, OneInBoundary, TypeOK, InPause, FreshHandler
  <2>5. CASE \/ PausePersistFails(h) \/ PauseSuperseded(h) \/ PausePublishFails(h)
             \/ PauseReturns(h) \/ PauseAborts(h)
    BY <2>5, <1>2 DEF PausePersistFails, PauseSuperseded, PausePublishFails, PauseReturns, PauseAborts
  <2> QED BY <1>3, <2>1, <2>2, <2>3, <2>4, <2>5 DEF PauseStep
<1>4. ASSUME NEW h \in Handlers, NEW i \in Interrupts,
             PauseCall(h, i) \/ \E c \in Callers : PauseAgainCall(h, c, i)
      PROVE  OneInBoundary'
  <2>1. /\ hpc' = [hpc EXCEPT ![h] = "lock"] /\ lock' = lock
        /\ hl'[h].id = i /\ \A k \in Handlers \ {h} : hl'[k] = hl[k]
        /\ i \in Anonymous => \A k \in Handlers : hl[k].id # i
    <3>1. CASE PauseCall(h, i)
      BY <3>1 DEF PauseCall, MayPause, TypeOK, FreshHandler
    <3>2. ASSUME NEW c \in Callers, PauseAgainCall(h, c, i) PROVE <2>1!:
      <4>1. hpc' = [hpc EXCEPT ![h] = "lock"] /\ lock' = lock /\ MayPause(i, c)
        BY <3>2 DEF PauseAgainCall
      <4>2. \E n, from, parent : hl' = [hl EXCEPT ![h] =
              [FreshHandler EXCEPT !.id = i, !.parent = parent, !.from = from, !.fromCount = n]]
        BY <3>2, Zenon DEF PauseAgainCall
      <4>3. hl'[h].id = i /\ \A k \in Handlers \ {h} : hl'[k] = hl[k]
        BY <4>2 DEF TypeOK, FreshHandler
      <4> QED BY <4>1, <4>3 DEF MayPause
    <3> QED BY <1>4, <3>1, <3>2
  <2> QED BY <2>1 DEF OneInBoundary, TypeOK, InPause
<1>5. ASSUME NEW c \in Callers, Collect(c), lock' = lock PROVE OneInBoundary'
  BY <1>5 DEF Collect, OneInBoundary, TypeOK, InPause, FreshHandler
<1>6. ASSUME NEW c \in Callers, ContinueStep(c) \/ ContinueAborts(c) PROVE OneInBoundary'
  BY <1>1, <1>5, <1>6
     DEF ContinueStep, ContinueAnswered, ContinueClaim, ContinueDispatched, ContinueResumed,
         ContinueDispatch, ContinueReturns, ContinueCompletes, ContinueFails, ContinueAborts,
         handlerVars
<1>7. CASE \/ \E c \in Callers, i \in Interrupts, r \in RequestKeys, v \in Values :
                ContinueCall(c, i, r, v)
           \/ \E S \in SUBSET Interrupts : EventResumes(S)
           \/ Seal \/ Unseal \/ CloseStep
           \/ \E policy \in {"error", "cancel"} : CloseCall(policy)
  BY <1>1, <1>7
     DEF ContinueCall, EventResumes, Seal, Unseal, CloseStep, CloseCall, CloseSeal,
         DrainEnds, CloseLook, CloseFreeze, CloseFails, CloseFinish, handlerVars
<1>8. CASE UNCHANGED vars
  BY <1>1, <1>8 DEF vars, handlerVars
<1> QED BY <1>3, <1>4, <1>6, <1>7, <1>8 DEF Next

\* What an EXCEPT keeps of a copy and of an entry.
LEMMA CopyFacts ==
  ASSUME TypeInv, NEW c \in Callers, NEW e \in Entry
  PROVE  /\ Resumed(e).gen = e.gen /\ Resumed(e).status = "resumed"
         /\ \A s : WithRecord(e, c, s).gen = e.gen /\ WithRecord(e, c, s).claim = e.claim
         /\ cl[c].id \in Interrupts =>
              /\ Counted(c).gen = store[cl[c].id].gen
              /\ Counted(c).claim = cl[c].req /\ cl[c].req # Nobody
<1>1. Resumed(e).gen = e.gen /\ Resumed(e).status = "resumed"
  BY DEF Resumed, Entry
<1>2. ASSUME NEW s
      PROVE  WithRecord(e, c, s).gen = e.gen /\ WithRecord(e, c, s).claim = e.claim
  BY DEF WithRecord, Entry
<1>3. ASSUME cl[c].id \in Interrupts
      PROVE  /\ Counted(c).gen = store[cl[c].id].gen
             /\ Counted(c).claim = cl[c].req /\ cl[c].req # Nobody
  <2>1. store[cl[c].id] \in Entry /\ cl[c].req \in RequestKeys
    BY <1>3 DEF TypeInv, TypeOK, CallerLocals
  <2>2. cl[c].req # Nobody
    BY <2>1, InterruptsAssumption DEF RequestKeys
  <2> QED BY <2>1, <2>2 DEF Counted, Entry
<1> QED BY <1>1, <1>2, <1>3

\* The steps in which c writes its copy to the store: it takes an open wait, or
\* goes on with one it owes the resume of.
CopyWritten(c, e) ==
  /\ cl[c].id \in Interrupts /\ e \in Entry /\ ~Open(e)
  /\ \/ Open(store[cl[c].id]) /\ e.gen = store[cl[c].id].gen
     \/ Owes(c) /\ e.gen = cl[c].entry.gen
  /\ StoreCopy(c, e)
  /\ cpc[c] \in {"barrier", "accepted", "dispatched"}
  /\ \E pc \in {"accepted", "dispatched", "resuming"} :
       /\ cpc' = [cpc EXCEPT ![c] = pc]
       /\ pc # "resuming" => e.claim # Nobody
  /\ UNCHANGED <<lifecycle, handlerVars, dispatched>>

LEMMA CopySteps ==
  ASSUME TypeInv, CopyIsClaimed, NEW c \in Callers,
         ContinueClaim(c) \/ ContinueDispatched(c) \/ ContinueResumed(c)
  PROVE  \E e \in Entry : CopyWritten(c, e)
<1>1. cl[c].id \in Interrupts /\ cl[c].entry \in Entry /\ store[cl[c].id] \in Entry
  BY DEF ContinueClaim, ThroughBarrier, ContinueDispatched, ContinueResumed,
         TypeInv, TypeOK, Engaged, CallerLocals
<1>2. CASE ContinueClaim(c)
  <2>1. Open(store[cl[c].id]) /\ cpc[c] = "barrier"
    <3>1. ~Refused(c) /\ ~Replayed(c)
      BY <1>2 DEF ContinueClaim, Entitled
    <3>2. store[cl[c].id].claim = Nobody
      BY <3>1 DEF Refused, Replayed
    <3>3. store[cl[c].id].status = "waiting"
      BY <3>1, <3>2 DEF Refused, Replayed
    <3> QED BY <1>2, <3>2, <3>3 DEF Open, ContinueClaim, ThroughBarrier
  <2>2. /\ Counted(c) \in Entry
        /\ Counted(c).gen = store[cl[c].id].gen /\ Counted(c).claim # Nobody
    BY <1>1, EntriesTyped, CopyFacts
  <2>3. CASE cl[c].req = NoRequest /\ StoreCopy(c, Resumed(Counted(c)))
             /\ cpc' = [cpc EXCEPT ![c] = "resuming"]
    <3>1. /\ Resumed(Counted(c)) \in Entry
          /\ Resumed(Counted(c)).gen = Counted(c).gen
          /\ ~Open(Resumed(Counted(c)))
      BY <2>2, EntriesTyped, CopyFacts DEF Open
    <3> QED BY <1>1, <1>2, <2>1, <2>2, <2>3, <3>1 DEF CopyWritten, ContinueClaim
  <2>4. ASSUME NEW s \in {"accepted", "dispatched"},
               StoreCopy(c, WithRecord(Counted(c), c, s)), cpc' = [cpc EXCEPT ![c] = s]
        PROVE  \E e \in Entry : CopyWritten(c, e)
    <3>1. /\ WithRecord(Counted(c), c, s) \in Entry
          /\ WithRecord(Counted(c), c, s).gen = Counted(c).gen
          /\ WithRecord(Counted(c), c, s).claim = Counted(c).claim
      BY <2>2, EntriesTyped, CopyFacts
    <3> QED BY <1>1, <1>2, <2>1, <2>2, <2>4, <3>1 DEF CopyWritten, ContinueClaim, Open
  <2> QED BY <1>2, <2>3, <2>4 DEF ContinueClaim
<1>3. CASE ContinueDispatched(c)
  <2> DEFINE e == WithRecord(cl[c].entry, c, "dispatched")
  <2>4. e \in Entry
    BY <1>1, EntriesTyped
  <2>1. e.gen = cl[c].entry.gen /\ e.claim = cl[c].entry.claim
    BY <1>1, CopyFacts
  <2>2. cl[c].entry.claim # Nobody
    BY <1>3 DEF ContinueDispatched, CopyIsClaimed
  <2> HIDE DEF e
  <2>3. /\ StoreCopy(c, e) /\ cpc[c] = "accepted" /\ cpc' = [cpc EXCEPT ![c] = "dispatched"]
        /\ UNCHANGED <<lifecycle, handlerVars, dispatched>>
    BY <1>3 DEF ContinueDispatched, e
  <2> QED BY <1>1, <2>1, <2>2, <2>3, <2>4 DEF CopyWritten, Open, Owes
<1>4. CASE ContinueResumed(c)
  <2> DEFINE e == Resumed(cl[c].entry)
  <2>1. e \in Entry /\ e.gen = cl[c].entry.gen /\ ~Open(e)
    BY <1>1, EntriesTyped, CopyFacts DEF Open
  <2> HIDE DEF e
  <2>2. /\ StoreCopy(c, e) /\ cpc[c] = "dispatched" /\ cpc' = [cpc EXCEPT ![c] = "resuming"]
        /\ UNCHANGED <<lifecycle, handlerVars, dispatched>>
    BY <1>4 DEF ContinueResumed, e
  <2> QED BY <1>1, <2>1, <2>2 DEF CopyWritten, Owes
<1> QED BY <1>2, <1>3, <1>4

\* The steps that open, take, dispatch or fail no wait.
StoreQuiet ==
  \A i \in Interrupts :
    store'[i].gen = store[i].gen /\ (Open(store'[i]) => Open(store[i]))

HandlersQuiet ==
  /\ lastGen' = lastGen
  /\ \A h \in Handlers :
       \/ hl'[h] = hl[h] /\ (hpc'[h] = hpc[h] \/ hpc'[h] \notin {"planned", "persisting"})
       \/ /\ hpc'[h] \notin {"planned", "persisting"}
          /\ hl'[h].gen = 0 /\ hl'[h].prev.gen = 0

CallersQuiet ==
  \A c \in Callers :
    \/ /\ cpc'[c] = cpc[c]
       /\ cl'[c].id = cl[c].id /\ cl'[c].req = cl[c].req /\ cl'[c].entry = cl[c].entry
    \/ /\ cpc'[c] \notin {"accepted", "dispatched", "resuming", "dispatching"}
       /\ cl'[c].entry.gen \in {0, cl[c].entry.gen}

Quiet == StoreQuiet /\ HandlersQuiet /\ CallersQuiet /\ UNCHANGED dispatched

LEMMA ReturnQuiet ==
  ASSUME TypeInv, NEW h \in Handlers, NEW outcome \in {"done", "failed"},
         Return(h, outcome), UNCHANGED lastGen
  PROVE  HandlersQuiet
<1>1. [FreshHandler EXCEPT !.parent = hl[h].parent].gen = 0
      /\ [FreshHandler EXCEPT !.parent = hl[h].parent].prev.gen = 0
  BY DEF FreshHandler, Absent
<1> QED
  BY <1>1 DEF Return, HandlersQuiet, TypeInv, TypeOK

LEMMA CollectQuiet ==
  ASSUME TypeInv, NEW c \in Callers, Collect(c), UNCHANGED lastGen
  PROVE  HandlersQuiet
<1>1. FreshHandler.gen = 0 /\ FreshHandler.prev.gen = 0
  BY DEF FreshHandler, Absent
<1> QED
  BY <1>1 DEF Collect, HandlersQuiet, TypeInv, TypeOK

LEMMA EnvelopeQuiet ==
  ASSUME TypeInv, NEW h \in Handlers, NEW wait \in WaitStates, ApplyEnvelope(h, wait)
  PROVE  StoreQuiet
<1> DEFINE i == hl[h].id
           f == [store[i] EXCEPT !.wait = wait]
<1>1. store' = store \/ store' = [store EXCEPT ![i] = f]
  BY DEF ApplyEnvelope
<1>2. i \in Interrupts =>
        f.gen = store[i].gen /\ f.status = store[i].status /\ f.claim = store[i].claim
  BY DEF TypeInv, TypeOK, Entry
<1> HIDE DEF i, f
<1> QED
  BY <1>1, <1>2 DEF StoreQuiet, Open, TypeInv, TypeOK

LEMMA CallerGone ==
  ASSUME TypeInv, NEW c \in Callers,
         cl' = [cl EXCEPT ![c] = FreshCaller],
         NEW pc \in {"idle", "barrier", "completing", "done", "raised"},
         cpc' = [cpc EXCEPT ![c] = pc]
  PROVE  CallersQuiet
<1>1. FreshCaller.entry.gen = 0
  BY DEF FreshCaller, Absent
<1> QED
  BY <1>1 DEF CallersQuiet, TypeInv, TypeOK

LEMMA PauseQuiet ==
  ASSUME TypeInv, NEW h \in Handlers,
         \/ PauseProceed(h) \/ PauseSuperseded(h) \/ PausePublished(h) \/ PausePublishFails(h)
         \/ PauseExposed(h) \/ PauseReturns(h) \/ PauseAborts(h) \/ HandlerCollected(h)
         \/ PausePlan(h) /\ Return(h, "failed") /\ UNCHANGED lastGen
         \/ PausePersistFails(h) /\ ~OwnsBoundary(h)
  PROVE  Quiet
<1> USE DEF callerVars
<1>1. UNCHANGED callerVars /\ UNCHANGED dispatched
  BY DEF PauseProceed, PauseSuperseded, PausePublished, PausePublishFails, PauseExposed,
         PauseReturns, PauseAborts, HandlerCollected, PausePlan, PausePersistFails
<1>2. CallersQuiet
  BY <1>1 DEF CallersQuiet
<1>3. StoreQuiet
  <2>1. CASE UNCHANGED store
    BY <2>1 DEF StoreQuiet
  <2>2. CASE \E wait \in WaitStates : ApplyEnvelope(h, wait)
    BY <2>2, EnvelopeQuiet
  <2> QED
    BY <2>1, <2>2
       DEF PauseProceed, PauseSuperseded, PausePublished, PausePublishFails, PauseExposed,
           PauseReturns, PauseAborts, HandlerCollected, PausePlan, PausePersistFails, WaitStates
<1>4. HandlersQuiet
  <2>1. CASE /\ hpc[h] \notin {"planned", "persisting"}
             /\ \A k \in Handlers : hl'[k] = hl[k] /\ (k # h => hpc'[k] = hpc[k])
             /\ hpc'[h] \notin {"planned", "persisting"} /\ lastGen' = lastGen
    BY <2>1 DEF HandlersQuiet
  <2>2. CASE PauseProceed(h)
    BY <2>2 DEF PauseProceed, HandlersQuiet, TypeInv, TypeOK
  <2>3. CASE PausePublished(h) \/ PauseExposed(h)
    BY <2>1, <2>3 DEF PausePublished, PauseExposed, TypeInv, TypeOK
  <2>4. CASE HandlerCollected(h)
    BY <2>4 DEF HandlerCollected, HandlersQuiet, TypeInv, TypeOK, FreshHandler, Absent
  <2> QED
    BY <2>2, <2>3, <2>4, ReturnQuiet
       DEF PauseSuperseded, PausePublishFails, PauseReturns, PauseAborts, PausePersistFails
<1> QED BY <1>1, <1>2, <1>3, <1>4 DEF Quiet

LEMMA CallsQuiet ==
  ASSUME TypeInv,
         \/ \E h \in Handlers, i \in Interrupts : PauseCall(h, i)
         \/ \E h \in Handlers, c \in Callers, i \in Interrupts : PauseAgainCall(h, c, i)
         \/ \E c \in Callers, i \in Interrupts, r \in RequestKeys, v \in Values :
              ContinueCall(c, i, r, v)
  PROVE  Quiet
<1>1. ASSUME NEW h \in Handlers, NEW i \in Interrupts, PauseCall(h, i) PROVE Quiet
  <2>1. HandlersQuiet
    BY <1>1 DEF PauseCall, HandlersQuiet, TypeInv, TypeOK, FreshHandler, Absent
  <2> QED BY <1>1, <2>1 DEF PauseCall, Quiet, StoreQuiet, CallersQuiet, callerVars
<1>2. ASSUME NEW h \in Handlers, NEW c \in Callers, NEW i \in Interrupts, PauseAgainCall(h, c, i)
      PROVE  Quiet
  <2>1. \E n, from, parent : hl' = [hl EXCEPT ![h] =
          [FreshHandler EXCEPT !.id = i, !.parent = parent, !.from = from, !.fromCount = n]]
    BY <1>2, Zenon DEF PauseAgainCall
  <2>2. hl'[h].gen = 0 /\ hl'[h].prev.gen = 0 /\ \A k \in Handlers \ {h} : hl'[k] = hl[k]
    BY <2>1 DEF TypeInv, TypeOK, FreshHandler, Absent
  <2>3. HandlersQuiet
    BY <1>2, <2>2 DEF PauseAgainCall, HandlersQuiet, TypeInv, TypeOK
  <2>4. CallersQuiet
    <3>1. cl' = [cl EXCEPT ![c] = [cl[c] EXCEPT !.child = h]] /\ cpc' = cpc
      BY <1>2 DEF PauseAgainCall
    <3>2. LET l == [cl[c] EXCEPT !.child = h]
          IN  l.id = cl[c].id /\ l.req = cl[c].req /\ l.entry = cl[c].entry
      BY DEF TypeInv, TypeOK, CallerLocals
    <3> QED BY <3>1, <3>2 DEF CallersQuiet, TypeInv, TypeOK
  <2> QED BY <1>2, <2>3, <2>4 DEF PauseAgainCall, Quiet, StoreQuiet
<1>3. ASSUME NEW c \in Callers, NEW i \in Interrupts, NEW r \in RequestKeys, NEW v \in Values,
             ContinueCall(c, i, r, v)
      PROVE  Quiet
  <2>1. CallersQuiet
    BY <1>3 DEF ContinueCall, CallersQuiet, TypeInv, TypeOK, FreshCaller, Absent
  <2> QED BY <1>3, <2>1 DEF ContinueCall, Quiet, StoreQuiet, HandlersQuiet, handlerVars
<1> QED BY <1>1, <1>2, <1>3

LEMMA ContinueQuiet ==
  ASSUME TypeInv, NEW c \in Callers,
         \/ ContinueAnswered(c) \/ ContinueReturns(c) \/ ContinueCompletes(c) \/ ContinueAborts(c)
         \/ ContinueDispatch(c) /\ ~(lifecycle = "open" \/ closer.started)
  PROVE  Quiet
<1>1. CASE ContinueAnswered(c) \/ ContinueCompletes(c) \/ ContinueAborts(c)
  <2>1. CallersQuiet
    BY <1>1, CallerGone DEF ContinueAnswered, ContinueCompletes, ContinueAborts
  <2> QED
    BY <1>1, <2>1 DEF ContinueAnswered, ContinueCompletes, ContinueAborts, Quiet, StoreQuiet,
                      HandlersQuiet, handlerVars
<1>2. CASE ContinueDispatch(c) /\ ~(lifecycle = "open" \/ closer.started)
  <2>1. CallersQuiet
    BY <1>2 DEF ContinueDispatch, CallersQuiet, TypeInv, TypeOK, CallerLocals, Entry
  <2> QED
    BY <1>2, <2>1 DEF ContinueDispatch, Quiet, StoreQuiet, HandlersQuiet, handlerVars
<1>3. CASE ContinueReturns(c)
  <2>1. HandlersQuiet
    BY <1>3, CollectQuiet DEF ContinueReturns
  <2>2. StoreQuiet
    <3> DEFINE e == store[cl[c].id]
               recorded == [e EXCEPT !.reqs[cl[c].req] =
                                       [cl[c].entry.reqs[cl[c].req] EXCEPT !.state = "completed"],
                                     !.wait = IF SameGeneration(c) THEN "completed" ELSE @]
    <3>1. cl[c].id \in Interrupts /\ e \in Entry
      BY <1>3 DEF ContinueReturns, TypeInv, TypeOK, Engaged
    <3>2. recorded.gen = e.gen /\ recorded.status = e.status /\ recorded.claim = e.claim
      BY <3>1 DEF Entry
    <3>3. store' = store \/ store' = [store EXCEPT ![cl[c].id] = recorded]
      BY <1>3 DEF ContinueReturns
    <3> HIDE DEF recorded
    <3> QED BY <3>1, <3>2, <3>3 DEF StoreQuiet, Open, TypeInv, TypeOK
  <2>3. CallersQuiet
    <3>1. CASE cl' = [cl EXCEPT ![c] = FreshCaller] /\ cpc' = [cpc EXCEPT ![c] = "done"]
      BY <3>1, CallerGone
    <3>2. CASE cl' = [cl EXCEPT ![c].child = Nobody] /\ cpc' = [cpc EXCEPT ![c] = "completing"]
      <4>1. [cl[c] EXCEPT !.child = Nobody].entry = cl[c].entry
        BY DEF TypeInv, TypeOK, CallerLocals
      <4>2. cl' = [cl EXCEPT ![c] = [cl[c] EXCEPT !.child = Nobody]]
        BY <3>2
      <4> QED BY <3>2, <4>1, <4>2 DEF CallersQuiet, TypeInv, TypeOK
    <3> QED BY <1>3, <3>1, <3>2 DEF ContinueReturns
  <2> QED BY <1>3, <2>1, <2>2, <2>3 DEF ContinueReturns, Quiet
<1> QED BY <1>1, <1>2, <1>3

LEMMA CloseQuiet ==
  ASSUME TypeInv,
         \/ Seal \/ Unseal \/ CloseStep \/ UNCHANGED vars
         \/ \E policy \in {"error", "cancel"} : CloseCall(policy)
  PROVE  Quiet
<1>1. store' = store => StoreQuiet
  BY DEF StoreQuiet
<1>2. CancelPending => StoreQuiet
  <2> DEFINE f(e) == [e EXCEPT !.status = "cancelled", !.wait = "cancelled"]
  <2>1. \A e \in Entry : f(e).gen = e.gen /\ f(e).status = "cancelled"
    BY DEF Entry
  <2>2. CancelPending => \A i \in Interrupts : store'[i] \in {store[i], f(store[i])}
    BY DEF CancelPending
  <2> HIDE DEF f
  <2> QED BY <2>1, <2>2 DEF StoreQuiet, Open, TypeInv, TypeOK
<1>3. StoreQuiet /\ UNCHANGED <<handlerVars, callerVars, dispatched>>
  BY <1>1, <1>2 DEF Seal, Unseal, CloseStep, CloseCall, CloseSeal, DrainEnds, CloseLook, CloseFreeze,
                    CloseFails, CloseFinish, vars
<1> QED BY <1>3 DEF Quiet, HandlersQuiet, CallersQuiet, handlerVars, callerVars

LEMMA QuietKeeps == Inv /\ Quiet /\ OneInBoundary' => Exclusive'
<1> SUFFICES ASSUME Inv, Quiet, OneInBoundary' PROVE Exclusive'
  OBVIOUS
<1> USE DEF Inv, Exclusive, Quiet
<1>1. \A c \in Callers : Owes(c)' =>
        Owes(c) /\ cl'[c].id = cl[c].id /\ cl'[c].entry.gen = cl[c].entry.gen
  BY DEF CallersQuiet, Owes
<1>2. \A i, g : Free(i, g) => Free(i, g)'
  BY <1>1 DEF Free, Settled, OwesOf
<1>3. ClockAhead'
  <2>1. lastGen \in Nat /\ lastGen' = lastGen
    BY DEF TypeInv, TypeOK, HandlersQuiet
  <2>2. \A i \in Interrupts : store'[i].gen <= lastGen
    BY DEF ClockAhead, StoreQuiet
  <2>3. \A h \in Handlers : hl'[h].gen <= lastGen /\ hl'[h].prev.gen <= lastGen
    BY <2>1 DEF ClockAhead, HandlersQuiet
  <2>4. \A c \in Callers : cl'[c].entry.gen <= lastGen
    BY <2>1 DEF ClockAhead, CallersQuiet
  <2> QED BY <2>1, <2>2, <2>3, <2>4 DEF ClockAhead
<1>4. PlanIsNew'
  BY <1>1 DEF PlanIsNew, HandlersQuiet, StoreQuiet, TypeInv, TypeOK, Engaged, InPause
<1>5. PreviousIsFree'
  BY <1>2 DEF PreviousIsFree, HandlersQuiet, StoreQuiet, TypeInv, TypeOK, Engaged, InPause
<1>6. OpenIsFree'
  BY <1>2 DEF OpenIsFree, StoreQuiet
<1>7. OwedOnce'
  BY <1>1 DEF OwedOnce, Settled, OwesOf
<1>8. CopyIsClaimed'
  BY DEF CopyIsClaimed, CallersQuiet
<1>9. DispatchStands'
  BY DEF DispatchStands, CallersQuiet, Dispatch
<1>10. ResumedAtMostOnce'
  BY DEF ResumedAtMostOnce
<1> QED BY <1>3, <1>4, <1>5, <1>6, <1>7, <1>8, <1>9, <1>10

\* A caller that writes its copy owes the resume of a generation that nobody
\* else has taken: it was open, or its own already.
LEMMA CopyKeeps ==
  ASSUME Inv, OneInBoundary', NEW c \in Callers, NEW e \in Entry, CopyWritten(c, e)
  PROVE  Exclusive'
<1> DEFINE i == cl[c].id
           g == e.gen
<1> USE DEF Inv, Exclusive
<1>1. i \in Interrupts /\ g \in Nat /\ ~Open(e)
  BY DEF CopyWritten, Entry
<1>2. /\ store' = [store EXCEPT ![i] = e]
      /\ cl' = [cl EXCEPT ![c] = [cl[c] EXCEPT !.entry = e]]
      /\ UNCHANGED <<lock, lastGen, hpc, hl, dispatched>>
  BY DEF CopyWritten, StoreCopy, handlerVars
<1>3. PICK pc \in {"accepted", "dispatched", "resuming"} :
        /\ cpc' = [cpc EXCEPT ![c] = pc]
        /\ pc # "resuming" => e.claim # Nobody
  BY DEF CopyWritten
<1>4. \/ Open(store[i]) /\ g = store[i].gen
      \/ OwesOf(c, i, g)
  BY DEF CopyWritten, OwesOf
<1>5. cl'[c].entry = e /\ cl'[c].id = i /\ cl'[c].req = cl[c].req
  BY <1>2 DEF TypeInv, TypeOK, CallerLocals
<1>6. Owes(c)' /\ cpc'[c] # "dispatching"
  BY <1>3 DEF Owes, TypeInv, TypeOK
<1>7. \A d \in Callers \ {c} : cpc'[d] = cpc[d] /\ cl'[d] = cl[d] /\ (Owes(d)' <=> Owes(d))
  BY <1>2, <1>3 DEF Owes, TypeInv, TypeOK
<1>8. ~Settled(i, g) /\ \A d \in Callers \ {c} : ~OwesOf(d, i, g)
  <2>1. CASE Open(store[i]) /\ g = store[i].gen
    BY <1>1, <2>1 DEF OpenIsFree, Free
  <2>2. CASE OwesOf(c, i, g)
    BY <2>2 DEF OwedOnce, OwesOf
  <2> QED BY <1>4, <2>1, <2>2
<1>9. \A j, n : (j # i \/ n # g) /\ Free(j, n) => Free(j, n)'
  BY <1>2, <1>5, <1>7 DEF Free, Settled, OwesOf
<1>10. g <= lastGen
  BY <1>1, <1>4 DEF ClockAhead, OwesOf
<1>11. \A j \in Interrupts : store'[j] = IF j = i THEN e ELSE store[j]
  BY <1>1, <1>2 DEF TypeInv, TypeOK
<1> HIDE DEF i, g
<1>12. ClockAhead'
  BY <1>2, <1>5, <1>7, <1>10, <1>11 DEF ClockAhead, g
<1>13. PlanIsNew'
  <2> SUFFICES ASSUME NEW h \in Handlers, hpc[h] = "planned"
               PROVE  /\ store'[hl[h].id].gen < hl[h].gen
                      /\ \A d \in Callers : Owes(d)' /\ cl'[d].id = hl[h].id => cl'[d].entry.gen < hl[h].gen
                      /\ \A d \in dispatched : d.id = hl[h].id => d.gen < hl[h].gen
    BY <1>2 DEF PlanIsNew
  <2>1. hl[h].id \in Interrupts
    BY DEF TypeInv, Engaged, InPause
  <2>2. hl[h].id = i => g < hl[h].gen
    BY <1>4 DEF PlanIsNew, OwesOf
  <2> QED BY <1>5, <1>7, <1>11, <2>1, <2>2 DEF PlanIsNew, g
<1>14. PreviousIsFree'
  <2> SUFFICES ASSUME NEW h \in Handlers, hpc[h] = "persisting", Open(hl[h].prev)
               PROVE  /\ Free(hl[h].id, hl[h].prev.gen)'
                      /\ store'[hl[h].id].gen # hl[h].prev.gen
    BY <1>2 DEF PreviousIsFree
  <2>1. hl[h].id \in Interrupts
    BY DEF TypeInv, Engaged, InPause
  <2>2. Free(hl[h].id, hl[h].prev.gen) /\ store[hl[h].id].gen # hl[h].prev.gen
    BY DEF PreviousIsFree
  <2>3. hl[h].id = i => g # hl[h].prev.gen
    BY <1>4, <2>2 DEF Free
  <2>4. Free(hl[h].id, hl[h].prev.gen)'
    BY <1>2, <1>9, <2>2, <2>3
  <2> QED BY <1>11, <2>1, <2>2, <2>3, <2>4 DEF g
<1>15. OpenIsFree'
  <2> SUFFICES ASSUME NEW j \in Interrupts, Open(store'[j])
               PROVE  Free(j, store[j].gen)' /\ j # i
    BY <1>11 DEF OpenIsFree
  <2>1. j # i
    BY <1>1, <1>11
  <2>2. Free(j, store[j].gen)
    BY <1>11, <2>1 DEF OpenIsFree
  <2>3. store'[j].gen = store[j].gen
    BY <1>11, <2>1
  <2> QED BY <1>9, <2>1, <2>2, <2>3 DEF Free, Settled, OwesOf
<1>16. OwedOnce'
  BY <1>2, <1>5, <1>7, <1>8 DEF OwedOnce, OwesOf, Settled, g
<1>17. CopyIsClaimed'
  BY <1>3, <1>5, <1>7 DEF CopyIsClaimed, TypeInv, TypeOK
<1>18. DispatchStands'
  BY <1>2, <1>6, <1>7 DEF DispatchStands, Dispatch
<1>19. ResumedAtMostOnce'
  BY <1>2 DEF ResumedAtMostOnce
<1> QED BY <1>12, <1>13, <1>14, <1>15, <1>16, <1>17, <1>18, <1>19

\* A plan takes a generation newer than every other.
LEMMA PlanKeeps ==
  ASSUME Inv, OneInBoundary', NEW h \in Handlers, PausePlan(h), ~Return(h, "failed")
  PROVE  Exclusive'
<1> USE DEF Inv, Exclusive
<1>1. /\ hpc' = [hpc EXCEPT ![h] = "planned"]
      /\ lastGen' = lastGen + 1
      /\ hl' = [hl EXCEPT ![h] = [hl[h] EXCEPT !.gen = lastGen + 1]]
      /\ UNCHANGED <<store, callerVars, dispatched>>
      /\ hpc[h] = "lock"
  BY DEF PausePlan, callerVars
<1>2. hl'[h].gen = lastGen + 1 /\ hl'[h].id = hl[h].id /\ hl'[h].prev = hl[h].prev
  BY <1>1 DEF TypeInv, TypeOK, HandlerLocals
<1>3. /\ \A k \in Handlers \ {h} : hl'[k] = hl[k] /\ hpc'[k] = hpc[k]
      /\ hpc'[h] = "planned"
  BY <1>1 DEF TypeInv, TypeOK
<1>4. \A j, n : Free(j, n)' <=> Free(j, n)
  BY <1>1 DEF Free, Settled, OwesOf, Owes, callerVars
<1>5. /\ lastGen \in Nat
      /\ \A i \in Interrupts : store[i].gen \in Nat
      /\ \A k \in Handlers : hl[k].gen \in Nat /\ hl[k].prev.gen \in Nat
      /\ \A c \in Callers : cl[c].entry.gen \in Nat
      /\ \A d \in dispatched : d.gen \in Nat
  BY DEF TypeInv, TypeOK, Entry, HandlerLocals, CallerLocals, Dispatches
<1>6. ClockAhead'
  <2>1. \A i \in Interrupts : store[i].gen <= lastGen + 1
    BY <1>5 DEF ClockAhead
  <2>2. \A k \in Handlers : hl'[k].gen <= lastGen + 1 /\ hl'[k].prev.gen <= lastGen + 1
    BY <1>2, <1>3, <1>5 DEF ClockAhead
  <2>3. \A c \in Callers : cl[c].entry.gen <= lastGen + 1
    BY <1>5 DEF ClockAhead
  <2>4. \A d \in dispatched : d.gen <= lastGen + 1
    BY <1>5 DEF ClockAhead
  <2> QED BY <1>1, <2>1, <2>2, <2>3, <2>4 DEF ClockAhead, callerVars
<1>7. PlanIsNew'
  <2>1. hl[h].id \in Interrupts
    BY <1>1 DEF TypeInv, Engaged
  <2>2. /\ store[hl[h].id].gen < lastGen + 1
        /\ \A c \in Callers : cl[c].entry.gen < lastGen + 1
        /\ \A d \in dispatched : d.gen < lastGen + 1
    BY <1>5, <2>1 DEF ClockAhead
  <2> QED BY <1>1, <1>2, <1>3, <2>2 DEF PlanIsNew, callerVars, Owes
<1>8. PreviousIsFree'
  BY <1>1, <1>3, <1>4 DEF PreviousIsFree
<1>9. OpenIsFree'
  BY <1>1, <1>4 DEF OpenIsFree
<1>10. OwedOnce' /\ CopyIsClaimed' /\ DispatchStands' /\ ResumedAtMostOnce'
  BY <1>1 DEF OwedOnce, Owes, OwesOf, Settled, CopyIsClaimed, DispatchStands, Dispatch,
              ResumedAtMostOnce, callerVars
<1> QED BY <1>6, <1>7, <1>8, <1>9, <1>10

\* The stored generation is new; the one it replaces waits in prev.
LEMMA StoreKeeps ==
  ASSUME Inv, OneInBoundary', NEW h \in Handlers, PauseStore(h)
  PROVE  Exclusive'
<1> DEFINE i == hl[h].id
           e == NewEntry(hl[h].gen, InheritedCount(h, i), Loops(h, i))
<1> USE DEF Inv, Exclusive
<1>1. /\ hpc[h] = "planned" /\ hpc' = [hpc EXCEPT ![h] = "persisting"]
      /\ hl' = [hl EXCEPT ![h] = [hl[h] EXCEPT !.prev = store[i], !.prevStatus = status]]
      /\ store' = [store EXCEPT ![i] = e]
      /\ UNCHANGED <<lock, lastGen, callerVars, dispatched>>
  BY DEF PauseStore
<1>2. i \in Interrupts
  BY <1>1 DEF TypeInv, Engaged, InPause
<1>3. hl'[h].prev = store[i] /\ hl'[h].id = i /\ hl'[h].gen = hl[h].gen
  BY <1>1 DEF TypeInv, TypeOK, HandlerLocals
<1>4. /\ \A k \in Handlers \ {h} : hl'[k] = hl[k] /\ hpc'[k] = hpc[k]
      /\ hpc'[h] = "persisting"
  BY <1>1 DEF TypeInv, TypeOK
<1>5. e.gen = hl[h].gen
  BY DEF NewEntry
<1>6. \A j \in Interrupts : store'[j] = IF j = i THEN e ELSE store[j]
  BY <1>1, <1>2 DEF TypeInv, TypeOK
<1>7. \A j, n : Free(j, n)' <=> Free(j, n)
  BY <1>1 DEF Free, Settled, OwesOf, Owes, callerVars
<1>8. /\ store[i].gen < hl[h].gen
      /\ \A c \in Callers : Owes(c) /\ cl[c].id = i => cl[c].entry.gen < hl[h].gen
      /\ \A d \in dispatched : d.id = i => d.gen < hl[h].gen
  BY <1>1 DEF PlanIsNew
<1>9. hl[h].gen \in Nat /\ hl[h].gen <= lastGen
  BY DEF TypeInv, TypeOK, HandlerLocals, ClockAhead
<1>10. Free(i, hl[h].gen)
  BY <1>8, <1>9 DEF Free, Settled, OwesOf
<1>11. \A k \in Handlers \ {h} : hpc[k] \in {"planned", "persisting"} => hl[k].id # i
  BY <1>1 DEF OneInBoundary, InPause
<1> HIDE DEF i, e
<1>12. ClockAhead'
  <2>1. \A j \in Interrupts : store'[j].gen <= lastGen
    BY <1>5, <1>6, <1>9 DEF ClockAhead
  <2>2. \A k \in Handlers : hl'[k].gen <= lastGen /\ hl'[k].prev.gen <= lastGen
    BY <1>2, <1>3, <1>4 DEF ClockAhead
  <2> QED BY <1>1, <2>1, <2>2 DEF ClockAhead, callerVars
<1>13. PlanIsNew'
  BY <1>1, <1>4, <1>6, <1>11 DEF PlanIsNew, callerVars, Owes, TypeInv, Engaged, InPause
<1>14. PreviousIsFree'
  <2>1. ASSUME Open(store[i])
        PROVE  Free(i, store[i].gen) /\ e.gen # store[i].gen
    BY <1>2, <1>5, <1>8, <2>1 DEF OpenIsFree, TypeInv, TypeOK, Entry
  <2>2. ASSUME NEW k \in Handlers \ {h}, hpc[k] = "persisting"
        PROVE  store'[hl[k].id] = store[hl[k].id]
    <3>1. hl[k].id \in Interrupts
      BY <2>2 DEF TypeInv, Engaged, InPause
    <3> QED BY <1>6, <1>11, <2>2, <3>1
  <2> QED BY <1>2, <1>3, <1>4, <1>6, <1>7, <2>1, <2>2 DEF PreviousIsFree
<1>15. OpenIsFree'
  BY <1>5, <1>6, <1>7, <1>10 DEF OpenIsFree
<1>16. OwedOnce' /\ CopyIsClaimed' /\ DispatchStands' /\ ResumedAtMostOnce'
  BY <1>1 DEF OwedOnce, Owes, OwesOf, Settled, CopyIsClaimed, DispatchStands, Dispatch,
              ResumedAtMostOnce, callerVars
<1> QED BY <1>12, <1>13, <1>14, <1>15, <1>16

\* A rollback puts back a generation that nobody took meanwhile.
LEMMA RollbackKeeps ==
  ASSUME Inv, OneInBoundary', NEW h \in Handlers, PausePersistFails(h), OwnsBoundary(h)
  PROVE  Exclusive'
<1> DEFINE i == hl[h].id
           p == hl[h].prev
<1> USE DEF Inv, Exclusive
<1>1. /\ hpc[h] = "persisting" /\ store' = [store EXCEPT ![i] = p]
      /\ Return(h, "failed")
      /\ UNCHANGED <<lastGen, callerVars, dispatched>>
  BY DEF PausePersistFails
<1>2. i \in Interrupts
  BY <1>1 DEF TypeInv, Engaged, InPause
<1>3. HandlersQuiet
  BY <1>1, ReturnQuiet
<1>4. \A j \in Interrupts : store'[j] = IF j = i THEN p ELSE store[j]
  BY <1>1, <1>2 DEF TypeInv, TypeOK
<1>5. \A j, n : Free(j, n)' <=> Free(j, n)
  BY <1>1 DEF Free, Settled, OwesOf, Owes, callerVars
<1>6. Open(p) => Free(i, p.gen)
  BY <1>1 DEF PreviousIsFree
<1>7. \A k \in Handlers \ {h} : hpc[k] \in {"planned", "persisting"} => hl[k].id # i
  BY <1>1 DEF OneInBoundary, InPause
<1>8. hpc'[h] = "failed"
  BY <1>1 DEF Return, TypeInv, TypeOK
<1>9. \A k \in Handlers : hpc'[k] \in {"planned", "persisting"} =>
        /\ hl'[k] = hl[k] /\ hpc'[k] = hpc[k]
        /\ hl[k].id \in Interrupts /\ store'[hl[k].id] = store[hl[k].id]
  BY <1>3, <1>4, <1>7, <1>8 DEF HandlersQuiet, TypeInv, Engaged, InPause
<1>10. p.gen <= lastGen
  BY DEF ClockAhead
<1> HIDE DEF i, p
<1>11. ClockAhead'
  <2>1. lastGen \in Nat
    BY DEF TypeInv, TypeOK
  <2>2. \A j \in Interrupts : store'[j].gen <= lastGen
    BY <1>4, <1>10 DEF ClockAhead
  <2>3. \A k \in Handlers : hl'[k].gen <= lastGen /\ hl'[k].prev.gen <= lastGen
    BY <1>3, <2>1 DEF ClockAhead, HandlersQuiet
  <2> QED BY <1>1, <2>2, <2>3 DEF ClockAhead, callerVars
<1>12. PlanIsNew'
  BY <1>1, <1>9 DEF PlanIsNew, callerVars, Owes
<1>13. PreviousIsFree'
  BY <1>5, <1>9 DEF PreviousIsFree
<1>14. OpenIsFree'
  BY <1>4, <1>5, <1>6 DEF OpenIsFree
<1>15. OwedOnce' /\ CopyIsClaimed' /\ DispatchStands' /\ ResumedAtMostOnce'
  BY <1>1 DEF OwedOnce, Owes, OwesOf, Settled, CopyIsClaimed, DispatchStands, Dispatch,
              ResumedAtMostOnce, callerVars
<1> QED BY <1>11, <1>12, <1>13, <1>14, <1>15

\* A dispatch settles a generation that only its caller owed.
LEMMA DispatchKeeps ==
  ASSUME Inv, OneInBoundary', NEW c \in Callers, ContinueDispatch(c),
         lifecycle = "open" \/ closer.started
  PROVE  Exclusive'
<1> DEFINE i == cl[c].id
           g == cl[c].entry.gen
<1> USE DEF Inv, Exclusive
<1>1. /\ cpc[c] = "resuming" /\ cpc' = [cpc EXCEPT ![c] = "dispatching"]
      /\ dispatched' = dispatched \cup {Dispatch(c)}
      /\ UNCHANGED <<store, lock, lastGen, hpc, hl, cl>>
  BY DEF ContinueDispatch, handlerVars
<1>2. Dispatch(c).id = i /\ Dispatch(c).gen = g
  BY DEF Dispatch
<1>3. OwesOf(c, i, g) /\ i \in Interrupts
  BY <1>1 DEF OwesOf, Owes, TypeInv, Engaged
<1>4. /\ cpc'[c] = "dispatching"
      /\ \A d \in Callers \ {c} : cpc'[d] = cpc[d]
  BY <1>1 DEF TypeInv, TypeOK
<1>5. /\ ~Owes(c)'
      /\ \A d \in Callers \ {c} : Owes(d)' <=> Owes(d)
  BY <1>4 DEF Owes
<1>6. ~Settled(i, g) /\ \A d \in Callers \ {c} : ~OwesOf(d, i, g)
  BY <1>3 DEF OwedOnce, OwesOf
<1>7. \A j, n : Free(j, n) => Free(j, n)'
  BY <1>1, <1>2, <1>3, <1>5 DEF Free, Settled, OwesOf
<1>8. g <= lastGen
  BY DEF ClockAhead
<1> HIDE DEF i, g
<1>9. ClockAhead'
  BY <1>1, <1>2, <1>8 DEF ClockAhead
<1>10. PlanIsNew'
  BY <1>1, <1>2, <1>3, <1>5 DEF PlanIsNew, OwesOf
<1>11. PreviousIsFree' /\ OpenIsFree'
  BY <1>1, <1>7 DEF PreviousIsFree, OpenIsFree
<1>12. OwedOnce'
  BY <1>1, <1>2, <1>5, <1>6 DEF OwedOnce, OwesOf, Settled
<1>13. CopyIsClaimed'
  BY <1>1, <1>4 DEF CopyIsClaimed
<1>14. DispatchStands'
  BY <1>1, <1>4 DEF DispatchStands, Dispatch
<1>15. ResumedAtMostOnce'
  BY <1>1, <1>2, <1>6 DEF ResumedAtMostOnce, Settled
<1> QED BY <1>9, <1>10, <1>11, <1>12, <1>13, <1>14, <1>15

\* A failed dispatch is the only one of its generation: when the wait is open
\* again, it is free again.
LEMMA FailKeeps ==
  ASSUME Inv, OneInBoundary', NEW c \in Callers, ContinueFails(c)
  PROVE  Exclusive'
<1> DEFINE i == cl[c].id
           g == cl[c].entry.gen
           e == store[i]
           reqs == [e.reqs EXCEPT ![cl[c].req] =
                      [cl[c].entry.reqs[cl[c].req] EXCEPT !.state = "dispatch_failed"]]
           failed == [e EXCEPT !.reqs = reqs]
           reopened == [e EXCEPT !.reqs = reqs, !.status = "waiting", !.claim = Nobody,
                                 !.wait = "dispatch_failed"]
<1> USE DEF Inv, Exclusive
<1>1. /\ cpc[c] = "dispatching" /\ cpc' = [cpc EXCEPT ![c] = "raised"]
      /\ cl' = [cl EXCEPT ![c] = FreshCaller]
      /\ dispatched' = dispatched \ {Dispatch(c)}
      /\ UNCHANGED lastGen /\ Collect(c)
  BY DEF ContinueFails
<1>2. /\ i \in Interrupts /\ e \in Entry
      /\ Dispatch(c) \in dispatched /\ Dispatch(c).id = i /\ Dispatch(c).gen = g
  BY <1>1 DEF TypeInv, TypeOK, Engaged, DispatchStands, Dispatch
<1>3. /\ failed.gen = e.gen /\ failed.status = e.status /\ failed.claim = e.claim
      /\ reopened.gen = e.gen
  BY <1>2 DEF Entry
<1>4. \/ store' = store \/ store' = [store EXCEPT ![i] = failed]
      \/ store' = [store EXCEPT ![i] = reopened] /\ e.gen = g
  BY DEF ContinueFails, SameGeneration
<1> HIDE DEF failed, reopened
<1>5. /\ \A j \in Interrupts : store'[j].gen = store[j].gen
      /\ \A j \in Interrupts : Open(store'[j]) => Open(store[j]) \/ (j = i /\ store[j].gen = g)
  BY <1>2, <1>3, <1>4 DEF Open, TypeInv, TypeOK
<1>6. CallersQuiet /\ HandlersQuiet
  BY <1>1, CallerGone, CollectQuiet
<1>7. \A d \in Callers : Owes(d)' =>
        Owes(d) /\ cl'[d].id = cl[d].id /\ cl'[d].entry.gen = cl[d].entry.gen
  BY <1>6 DEF CallersQuiet, Owes
<1>8. \A j, n : Free(j, n) => Free(j, n)'
  BY <1>1, <1>7 DEF Free, Settled, OwesOf
<1>9. ASSUME NEW j, NEW n, j = i, n = g PROVE Free(j, n)'
  <2>1. \A d \in dispatched : d.id = j /\ d.gen = n => d = Dispatch(c)
    BY <1>2, <1>9 DEF ResumedAtMostOnce
  <2>2. ~Settled(j, n)'
    BY <1>1, <2>1 DEF Settled
  <2>3. \A d \in Callers : ~OwesOf(d, j, n)
    BY <1>2, <1>9 DEF OwedOnce, OwesOf, Settled
  <2> QED BY <1>7, <2>2, <2>3 DEF Free, OwesOf
<1>10. \A h \in Handlers : hpc'[h] \in {"planned", "persisting"} =>
         hl'[h] = hl[h] /\ hpc'[h] = hpc[h] /\ hl[h].id \in Interrupts
  BY <1>6 DEF HandlersQuiet, TypeInv, Engaged, InPause
<1> HIDE DEF i, g, e
<1>11. ClockAhead'
  <2>1. lastGen \in Nat
    BY DEF TypeInv, TypeOK
  <2>2. \A h \in Handlers : hl'[h].gen <= lastGen /\ hl'[h].prev.gen <= lastGen
    BY <1>6, <2>1 DEF ClockAhead, HandlersQuiet
  <2>3. \A d \in Callers : cl'[d].entry.gen <= lastGen
    BY <1>6, <2>1 DEF ClockAhead, CallersQuiet
  <2> QED BY <1>1, <1>5, <2>2, <2>3 DEF ClockAhead
<1>12. PlanIsNew'
  BY <1>1, <1>5, <1>7, <1>10 DEF PlanIsNew
<1>13. PreviousIsFree'
  BY <1>5, <1>8, <1>10 DEF PreviousIsFree
<1>14. OpenIsFree'
  <2> SUFFICES ASSUME NEW j \in Interrupts, Open(store'[j]), NEW n, n = store[j].gen
               PROVE  Free(j, n)'
    BY <1>5 DEF OpenIsFree
  <2>1. CASE Open(store[j])
    BY <1>8, <2>1 DEF OpenIsFree
  <2>2. CASE j = i /\ n = g
    BY <1>9, <2>2
  <2> QED BY <1>5, <2>1, <2>2
<1>15. OwedOnce'
  BY <1>1, <1>7 DEF OwedOnce, OwesOf, Settled
<1>16. CopyIsClaimed'
  BY <1>6 DEF CopyIsClaimed, CallersQuiet
<1>17. DispatchStands'
  <2>1. ASSUME NEW d \in Callers, cpc'[d] = "dispatching"
        PROVE  d # c /\ Dispatch(d) \in dispatched /\ Dispatch(d)' = Dispatch(d)
    BY <1>1, <1>6, <2>1 DEF CallersQuiet, DispatchStands, Dispatch, TypeInv, TypeOK
  <2>2. \A d \in Callers : d # c => Dispatch(d) # Dispatch(c)
    BY DEF Dispatch
  <2> QED BY <1>1, <2>1, <2>2 DEF DispatchStands
<1>18. ResumedAtMostOnce'
  BY <1>1 DEF ResumedAtMostOnce
<1> QED BY <1>11, <1>12, <1>13, <1>14, <1>15, <1>16, <1>17, <1>18

\* An event settles the open waits that target it.
LEMMA AnswerKeeps ==
  ASSUME Inv, OneInBoundary', NEW S \in SUBSET Interrupts, EventResumes(S)
  PROVE  Exclusive'
<1> DEFINE hit == S \cap Unclaimed(store)
           answer(i) == [id |-> i, gen |-> store[i].gen, req |-> NoRequest, by |-> Nobody]
           resumed(i) == [store[i] EXCEPT !.status = "resumed", !.wait = "completed"]
<1> USE DEF Inv, Exclusive
<1>1. /\ store' = [i \in Interrupts |-> IF i \in hit THEN resumed(i) ELSE store[i]]
      /\ dispatched' = dispatched \cup {answer(i) : i \in hit}
      /\ UNCHANGED <<lock, lastGen, hpc, hl, cpc, cl>>
  BY DEF EventResumes, handlerVars, callerVars
<1>2. \A i \in hit : i \in Interrupts /\ Open(store[i]) /\ Free(i, store[i].gen)
  BY DEF Unclaimed, Waiting, Open, OpenIsFree
<1>3. \A i \in Interrupts : resumed(i).gen = store[i].gen /\ ~Open(resumed(i))
  BY DEF TypeInv, TypeOK, Entry, Open
<1> HIDE DEF hit, resumed
<1>4. \A i \in Interrupts :
        /\ store'[i].gen = store[i].gen
        /\ Open(store'[i]) => i \notin hit /\ Open(store[i])
  BY <1>1, <1>3
<1>5. \A j, n : Settled(j, n)' <=> Settled(j, n) \/ (j \in hit /\ n = store[j].gen)
  <2>1. \A j, n : (\E d \in {answer(i) : i \in hit} : d.id = j /\ d.gen = n)
                   <=> j \in hit /\ n = store[j].gen
    <3>1. \A i : answer(i).id = i /\ answer(i).gen = store[i].gen
      OBVIOUS
    <3> HIDE DEF answer
    <3>2. \A j, n : (\E d \in {answer(i) : i \in hit} : d.id = j /\ d.gen = n)
                     <=> \E i \in hit : answer(i).id = j /\ answer(i).gen = n
      OBVIOUS
    <3> QED BY <3>1, <3>2
  <2> QED BY <1>1, <2>1 DEF Settled
<1>6. \A j, n : Free(j, n) /\ ~(j \in hit /\ n = store[j].gen) => Free(j, n)'
  BY <1>1, <1>5 DEF Free, OwesOf, Owes
<1>7. ClockAhead'
  BY <1>1, <1>2, <1>4 DEF ClockAhead
<1>8. PlanIsNew'
  <2> SUFFICES ASSUME NEW h \in Handlers, hpc[h] = "planned"
               PROVE  /\ store'[hl[h].id].gen < hl[h].gen
                      /\ \A c \in Callers : Owes(c) /\ cl[c].id = hl[h].id => cl[c].entry.gen < hl[h].gen
                      /\ \A d \in dispatched' : d.id = hl[h].id => d.gen < hl[h].gen
    BY <1>1 DEF PlanIsNew, Owes
  <2>1. hl[h].id \in Interrupts
    BY DEF TypeInv, Engaged, InPause
  <2> QED BY <1>1, <1>4, <2>1 DEF PlanIsNew
<1>9. PreviousIsFree'
  <2> SUFFICES ASSUME NEW h \in Handlers, hpc[h] = "persisting", Open(hl[h].prev)
               PROVE  Free(hl[h].id, hl[h].prev.gen)' /\ store'[hl[h].id].gen # hl[h].prev.gen
    BY <1>1 DEF PreviousIsFree
  <2>1. hl[h].id \in Interrupts
    BY DEF TypeInv, Engaged, InPause
  <2>2. Free(hl[h].id, hl[h].prev.gen) /\ store[hl[h].id].gen # hl[h].prev.gen
    BY DEF PreviousIsFree
  <2>3. Free(hl[h].id, hl[h].prev.gen)'
    BY <1>1, <1>6, <2>2
  <2> QED BY <1>4, <2>1, <2>2, <2>3
<1>10. OpenIsFree'
  BY <1>4, <1>6 DEF OpenIsFree
<1>11. OwedOnce'
  BY <1>1, <1>2, <1>5 DEF OwedOnce, OwesOf, Owes, Free
<1>12. CopyIsClaimed' /\ DispatchStands'
  BY <1>1 DEF CopyIsClaimed, DispatchStands, Dispatch
<1>13. ResumedAtMostOnce'
  BY <1>1, <1>2 DEF ResumedAtMostOnce, Free, Settled
<1> QED BY <1>7, <1>8, <1>9, <1>10, <1>11, <1>12, <1>13

LEMMA StepExclusive == Inv /\ [Next]_vars => Exclusive'
<1> SUFFICES ASSUME Inv, [Next]_vars PROVE Exclusive'
  OBVIOUS
<1> USE DEF Inv, Exclusive
<1>1. OneInBoundary'
  BY BoundaryKept
<1>2. CASE Quiet
  BY <1>1, <1>2, QuietKeeps
<1>3. ASSUME NEW h \in Handlers, PauseStep(h) PROVE Exclusive'
  <2>1. CASE PausePlan(h)
    <3>1. CASE Return(h, "failed") /\ UNCHANGED lastGen
      BY <1>2, <2>1, <3>1, PauseQuiet
    <3>2. CASE ~Return(h, "failed")
      BY <1>1, <2>1, <3>2, PlanKeeps
    <3>3. Return(h, "failed") => UNCHANGED lastGen
      BY <2>1 DEF PausePlan, Return, TypeInv, TypeOK
    <3> QED BY <3>1, <3>2, <3>3
  <2>2. CASE PauseStore(h)
    BY <1>1, <2>2, StoreKeeps
  <2>3. CASE PausePersistFails(h) /\ OwnsBoundary(h)
    BY <1>1, <2>3, RollbackKeeps
  <2> QED BY <1>2, <1>3, <2>1, <2>2, <2>3, PauseQuiet DEF PauseStep
<1>4. ASSUME NEW c \in Callers, ContinueStep(c) \/ ContinueAborts(c) PROVE Exclusive'
  <2>1. CASE ContinueClaim(c) \/ ContinueDispatched(c) \/ ContinueResumed(c)
    BY <1>1, <2>1, CopySteps, CopyKeeps
  <2>2. CASE ContinueDispatch(c) /\ (lifecycle = "open" \/ closer.started)
    BY <1>1, <2>2, DispatchKeeps
  <2>3. CASE ContinueFails(c)
    BY <1>1, <2>3, FailKeeps
  <2> QED BY <1>2, <1>4, <2>1, <2>2, <2>3, ContinueQuiet DEF ContinueStep
<1>5. ASSUME NEW S \in SUBSET Interrupts, EventResumes(S) PROVE Exclusive'
  BY <1>1, <1>5, AnswerKeeps
<1>6. CASE \/ Seal \/ Unseal \/ CloseStep \/ UNCHANGED vars
           \/ \E policy \in {"error", "cancel"} : CloseCall(policy)
  BY <1>2, <1>6, CloseQuiet
<1> QED BY <1>2, <1>3, <1>4, <1>5, <1>6, CallsQuiet DEF Next

LEMMA InitExclusive == Init => Exclusive
<1> SUFFICES ASSUME Init PROVE Exclusive
  OBVIOUS
<1>1. ClockAhead
  BY DEF Init, ClockAhead, Absent, FreshHandler, FreshCaller
<1>2. OneInBoundary
  BY InterruptsAssumption DEF Init, OneInBoundary, InPause, FreshHandler
<1>3. PlanIsNew /\ PreviousIsFree /\ OpenIsFree /\ OwedOnce /\ CopyIsClaimed /\ DispatchStands
  BY DEF Init, PlanIsNew, PreviousIsFree, OpenIsFree, Open, OwedOnce, Owes, CopyIsClaimed,
         DispatchStands, Absent
<1>4. ResumedAtMostOnce
  BY DEF Init, ResumedAtMostOnce
<1> QED BY <1>1, <1>2, <1>3, <1>4 DEF Exclusive

\* No generation of a wait is dispatched twice, whatever calls, events, closes,
\* rollbacks, failures and re-opened waits race for it.
THEOREM NoDoubleResume == Spec => []ResumedAtMostOnce
<1>1. Init => Inv
  BY InitTyped, InitExclusive DEF Inv
<1>2. Inv /\ [Next]_vars => Inv'
  BY StepTyped, StepExclusive DEF Inv
<1>3. Inv => ResumedAtMostOnce
  BY DEF Inv, Exclusive
<1> QED BY <1>1, <1>2, <1>3, PTL DEF Spec

-----------------------------------------------------------------------------
(* The budget of a chunk that pauses itself again *)

\* c has taken a wait whose resume is not over.
Using(c) == cpc[c] \in {"accepted", "dispatched", "resuming", "dispatching"}

\* What an entry of i has counted covers the resumes in a row of its chunk.
Covered(i, e) == ResumeTo[i] = "self" => e.loops <= e.count /\ e.count <= MaxResumes

Budgeted ==
  /\ \A i \in Interrupts : Covered(i, store[i])
  /\ \A h \in Handlers : hpc[h] = "persisting" => Covered(hl[h].id, hl[h].prev)
  /\ \A c \in Callers : Using(c) =>
       /\ Covered(cl[c].id, cl[c].entry)
       /\ cpc[c] \in {"accepted", "dispatched"} /\ ResumeTo[cl[c].id] = "self" =>
            cl[c].entry.loops < cl[c].entry.count

\* A pause_for in a resumed chunk has the count that the resume carried.
ChildCarries ==
  \A h \in Handlers : hpc[h] \in {"lock", "planned"} /\ hl[h].parent # Nobody =>
    LET c == hl[h].parent
    IN  /\ cpc[c] = "dispatching" /\ cl[c].child = h /\ cl[c].id = hl[h].from
        /\ ResumeTo[hl[h].from] = "self" => hl[h].fromCount = cl[c].entry.count

PlanIsCovered ==
  \A h \in Handlers : hpc[h] = "planned" /\ ResumeTo[hl[h].id] = "self" =>
    InheritedCount(h, hl[h].id) < MaxResumes

BudgetInv == Budgeted /\ ChildCarries /\ PlanIsCovered

\* Steps that count nothing.
Uncounted ==
  /\ \A i \in Interrupts : store'[i].count = store[i].count /\ store'[i].loops = store[i].loops
  /\ \A h \in Handlers : hpc'[h] \in {"lock", "planned", "persisting"} =>
       hpc'[h] = hpc[h] /\ hl'[h] = hl[h]
  /\ \A c \in Callers : Using(c)' =>
       /\ Using(c) /\ cl'[c].id = cl[c].id /\ cl'[c].entry = cl[c].entry
       /\ cpc'[c] \in {"accepted", "dispatched"} => cpc'[c] = cpc[c]
  /\ \A c \in Callers : cpc[c] = "dispatching" =>
       \/ cpc'[c] = "dispatching" /\ cl'[c].child = cl[c].child
       \/ cl[c].child = Nobody
       \/ hpc[cl[c].child] \in {"done", "failed"}

LEMMA UncountedKeeps == TypeInv /\ BudgetInv /\ Uncounted => BudgetInv'
<1> SUFFICES ASSUME TypeInv, BudgetInv, Uncounted PROVE BudgetInv'
  OBVIOUS
<1> USE DEF BudgetInv
<1>1. \A h \in Handlers : hpc'[h] = "persisting" => hl[h].id \in Interrupts
  BY DEF Uncounted, TypeInv, Engaged, InPause
<1>2. \A c \in Callers : Using(c) => cl[c].id \in Interrupts
  BY DEF TypeInv, Engaged, Using
<1>3. Budgeted'
  <2>1. \A i \in Interrupts : Covered(i, store'[i])
    BY DEF Uncounted, Budgeted, Covered
  <2>2. \A h \in Handlers : hpc'[h] = "persisting" => Covered(hl'[h].id, hl'[h].prev)
    BY DEF Uncounted, Budgeted
  <2>3. \A c \in Callers : Using(c)' =>
          /\ Covered(cl'[c].id, cl'[c].entry)
          /\ cpc'[c] \in {"accepted", "dispatched"} /\ ResumeTo[cl'[c].id] = "self" =>
               cl'[c].entry.loops < cl'[c].entry.count
    BY DEF Uncounted, Budgeted
  <2> QED BY <2>1, <2>2, <2>3 DEF Budgeted, Covered
<1>4. ChildCarries'
  <2> SUFFICES ASSUME NEW h \in Handlers, hpc'[h] \in {"lock", "planned"}, hl'[h].parent # Nobody,
                      NEW c, c = hl'[h].parent
               PROVE  /\ cpc'[c] = "dispatching" /\ cl'[c].child = h /\ cl'[c].id = hl'[h].from
                      /\ ResumeTo[hl'[h].from] = "self" => hl'[h].fromCount = cl'[c].entry.count
    BY DEF ChildCarries
  <2>1. hl'[h] = hl[h] /\ hpc'[h] = hpc[h] /\ c \in Callers /\ h # Nobody
    BY InterruptsAssumption DEF Uncounted, TypeInv, TypeOK, HandlerLocals
  <2>2. /\ cpc[c] = "dispatching" /\ cl[c].child = h /\ cl[c].id = hl[h].from
        /\ ResumeTo[hl[h].from] = "self" => hl[h].fromCount = cl[c].entry.count
    BY <2>1 DEF ChildCarries
  <2>3. cpc'[c] = "dispatching" /\ cl'[c].child = h  BY <2>1, <2>2 DEF Uncounted
  <2>4. cl'[c].id = cl[c].id /\ cl'[c].entry = cl[c].entry
    BY <2>1, <2>3 DEF Uncounted, Using
  <2> QED BY <2>1, <2>2, <2>3, <2>4
<1>5. PlanIsCovered'
  BY DEF PlanIsCovered, Uncounted, InheritedCount
<1> QED BY <1>3, <1>4, <1>5

LEMMA EnvelopeUncounted ==
  ASSUME TypeInv, NEW h \in Handlers, NEW wait \in WaitStates, ApplyEnvelope(h, wait)
  PROVE  \A i \in Interrupts : store'[i].count = store[i].count /\ store'[i].loops = store[i].loops
<1> DEFINE i == hl[h].id
           f == [store[i] EXCEPT !.wait = wait]
<1>1. store' = store \/ store' = [store EXCEPT ![i] = f]
  BY DEF ApplyEnvelope
<1>2. i \in Interrupts => f.count = store[i].count /\ f.loops = store[i].loops
  BY DEF TypeInv, TypeOK, Entry
<1> HIDE DEF f
<1> QED BY <1>1, <1>2 DEF TypeInv, TypeOK

LEMMA PauseUncounted ==
  ASSUME TypeInv, NEW h \in Handlers,
         \/ PauseProceed(h) \/ PauseSuperseded(h) \/ PausePublished(h) \/ PausePublishFails(h)
         \/ PauseExposed(h) \/ PauseReturns(h) \/ PauseAborts(h) \/ HandlerCollected(h)
         \/ PausePlan(h) /\ Return(h, "failed")
         \/ PausePersistFails(h) /\ ~OwnsBoundary(h)
  PROVE  Uncounted
<1>1. UNCHANGED <<cpc, cl>>
  BY DEF PauseProceed, PauseSuperseded, PausePublished, PausePublishFails, PauseExposed,
         PauseReturns, PauseAborts, HandlerCollected, PausePlan, PausePersistFails, callerVars
<1>2. \A i \in Interrupts : store'[i].count = store[i].count /\ store'[i].loops = store[i].loops
  <2>1. CASE \E wait \in WaitStates : ApplyEnvelope(h, wait)
    BY <2>1, EnvelopeUncounted
  <2> QED
    BY <2>1 DEF PauseProceed, PauseSuperseded, PausePublished, PausePublishFails, PauseExposed,
                PauseReturns, PauseAborts, HandlerCollected, PausePlan, PausePersistFails, WaitStates
<1>3. \A k \in Handlers : hpc'[k] \in {"lock", "planned", "persisting"} =>
        hpc'[k] = hpc[k] /\ hl'[k] = hl[k]
  <2>1. ASSUME NEW outcome \in {"done", "failed"}, Return(h, outcome) PROVE <1>3
    BY <2>1 DEF Return, TypeInv, TypeOK
  <2>2. CASE PauseProceed(h) \/ PausePublished(h) \/ PauseExposed(h) \/ HandlerCollected(h)
    BY <2>2 DEF PauseProceed, PausePublished, PauseExposed, HandlerCollected, TypeInv, TypeOK
  <2> QED
    BY <2>1, <2>2 DEF PauseSuperseded, PausePublishFails, PauseReturns, PauseAborts, PausePersistFails
<1> QED BY <1>1, <1>2, <1>3 DEF Uncounted, Using

LEMMA ContinueUncounted ==
  ASSUME TypeInv, NEW c \in Callers,
         \/ ContinueAnswered(c) \/ ContinueDispatch(c) \/ ContinueReturns(c) \/ ContinueCompletes(c)
         \/ ContinueFails(c) \/ ContinueAborts(c)
         \/ \E i \in Interrupts, r \in RequestKeys, v \in Values : ContinueCall(c, i, r, v)
  PROVE  Uncounted
<1>1. CASE \/ ContinueAnswered(c) \/ ContinueCompletes(c) \/ ContinueAborts(c)
           \/ \E i \in Interrupts, r \in RequestKeys, v \in Values : ContinueCall(c, i, r, v)
  <2>1. /\ \E pc \in {"barrier", "done", "raised"} : cpc' = [cpc EXCEPT ![c] = pc]
        /\ \E l : cl' = [cl EXCEPT ![c] = l]
        /\ cpc[c] # "dispatching" /\ UNCHANGED <<store, hpc, hl>>
    BY <1>1 DEF ContinueAnswered, ThroughBarrier, ContinueCompletes, ContinueAborts, ContinueCall,
                handlerVars
  <2> QED BY <2>1 DEF Uncounted, Using, TypeInv, TypeOK
<1>2. CASE ContinueDispatch(c)
  <2>1. /\ \E pc \in {"dispatching", "rejected"} : cpc' = [cpc EXCEPT ![c] = pc]
        /\ cpc[c] = "resuming" /\ UNCHANGED <<store, cl, hpc, hl>>
    BY <1>2 DEF ContinueDispatch, handlerVars
  <2> QED BY <2>1 DEF Uncounted, Using, TypeInv, TypeOK
<1>3. CASE ContinueReturns(c) \/ ContinueFails(c)
  <2> DEFINE e == store[cl[c].id]
  <2>1. cl[c].id \in Interrupts /\ e \in Entry
    BY <1>3 DEF ContinueReturns, ContinueFails, TypeInv, TypeOK, Engaged
  <2>2. \E f : /\ store' = store \/ store' = [store EXCEPT ![cl[c].id] = f]
               /\ f.count = e.count /\ f.loops = e.loops
    <3>1. CASE ContinueReturns(c)
      <4> DEFINE f == [e EXCEPT !.reqs[cl[c].req] =
                                  [cl[c].entry.reqs[cl[c].req] EXCEPT !.state = "completed"],
                                !.wait = IF SameGeneration(c) THEN "completed" ELSE @]
      <4>1. f.count = e.count /\ f.loops = e.loops  BY <2>1 DEF Entry
      <4>2. store' = store \/ store' = [store EXCEPT ![cl[c].id] = f]
        BY <3>1 DEF ContinueReturns
      <4> HIDE DEF f
      <4> QED BY <4>1, <4>2
    <3>2. CASE ContinueFails(c)
      <4> DEFINE reqs == [e.reqs EXCEPT ![cl[c].req] =
                            [cl[c].entry.reqs[cl[c].req] EXCEPT !.state = "dispatch_failed"]]
                 failed == [e EXCEPT !.reqs = reqs]
                 reopened == [e EXCEPT !.reqs = reqs, !.status = "waiting", !.claim = Nobody,
                                       !.wait = "dispatch_failed"]
      <4>1. /\ failed.count = e.count /\ failed.loops = e.loops
            /\ reopened.count = e.count /\ reopened.loops = e.loops
        BY <2>1 DEF Entry
      <4>2. \/ store' = store \/ store' = [store EXCEPT ![cl[c].id] = failed]
            \/ store' = [store EXCEPT ![cl[c].id] = reopened]
        BY <3>2 DEF ContinueFails
      <4> HIDE DEF failed, reopened
      <4> QED BY <4>1, <4>2
    <3> QED BY <1>3, <3>1, <3>2
  <2>3. \A i \in Interrupts : store'[i].count = store[i].count /\ store'[i].loops = store[i].loops
    BY <2>1, <2>2 DEF TypeInv, TypeOK
  <2>4. /\ \E pc \in {"done", "raised", "completing"} : cpc' = [cpc EXCEPT ![c] = pc]
        /\ \E l : cl' = [cl EXCEPT ![c] = l]
        /\ Collect(c)
        /\ cpc[c] = "dispatching" /\ cl[c].child # Nobody => hpc[cl[c].child] \in {"done", "failed"}
    BY <1>3 DEF ContinueReturns, ContinueFails
  <2>5. \A k \in Handlers : hpc'[k] \in {"lock", "planned", "persisting"} =>
          hpc'[k] = hpc[k] /\ hl'[k] = hl[k]
    BY <2>4 DEF Collect, TypeInv, TypeOK
  <2>6. \A d \in Callers : d # c => cpc'[d] = cpc[d] /\ cl'[d] = cl[d]
    BY <2>4 DEF TypeInv, TypeOK
  <2>7. cpc'[c] \in {"done", "raised", "completing"}
    BY <2>4 DEF TypeInv, TypeOK
  <2>8. \A d \in Callers : Using(d)' => d # c
    BY <2>7 DEF Using
  <2> QED BY <2>3, <2>4, <2>5, <2>6, <2>8 DEF Uncounted, Using
<1> QED BY <1>1, <1>2, <1>3

LEMMA OthersUncounted ==
  ASSUME TypeInv,
         \/ Seal \/ Unseal \/ CloseStep \/ UNCHANGED vars
         \/ \E policy \in {"error", "cancel"} : CloseCall(policy)
         \/ \E S \in SUBSET Interrupts : EventResumes(S)
  PROVE  Uncounted
<1> DEFINE f(e, s, w) == [e EXCEPT !.status = s, !.wait = w]
<1>1. \A e \in Entry : \A s, w : f(e, s, w).count = e.count /\ f(e, s, w).loops = e.loops
  BY DEF Entry
<1>2. UNCHANGED <<hpc, hl, cpc, cl>>
  BY DEF Seal, Unseal, CloseStep, CloseCall, CloseSeal, DrainEnds, CloseLook, CloseFreeze, CloseFails,
         CloseFinish, EventResumes, vars, handlerVars, callerVars
<1>3. \A i \in Interrupts :
        store'[i] \in {store[i], f(store[i], "resumed", "completed"), f(store[i], "cancelled", "cancelled")}
  <2>1. CASE CancelPending
    BY <2>1 DEF CancelPending
  <2>2. CASE \E S \in SUBSET Interrupts : EventResumes(S)
    BY <2>2 DEF EventResumes
  <2>3. CASE store' = store
    BY <2>3
  <2> QED
    BY <2>1, <2>2, <2>3 DEF Seal, Unseal, CloseStep, CloseCall, CloseSeal, DrainEnds, CloseLook,
         CloseFreeze, CloseFails, CloseFinish, vars
<1> HIDE DEF f
<1>4. \A i \in Interrupts : store'[i].count = store[i].count /\ store'[i].loops = store[i].loops
  BY <1>1, <1>3 DEF TypeInv, TypeOK
<1> QED BY <1>2, <1>4 DEF Uncounted, Using

\* A plan is made within the budget, and what it stores is covered.
LEMMA PlanWithinBudget ==
  ASSUME TypeInv, BudgetInv, NEW h \in Handlers, PausePlan(h), ~Return(h, "failed")
  PROVE  BudgetInv'
<1> USE DEF BudgetInv
<1>1. /\ hpc[h] = "lock" /\ hpc' = [hpc EXCEPT ![h] = "planned"]
      /\ hl' = [hl EXCEPT ![h] = [hl[h] EXCEPT !.gen = lastGen + 1]]
      /\ UNCHANGED <<store, cpc, cl>>
      /\ ~(ResumeTo[hl[h].id] = "self" /\ InheritedCount(h, hl[h].id) >= MaxResumes)
  BY DEF PausePlan, callerVars
<1>2. LET l == [hl[h] EXCEPT !.gen = lastGen + 1]
      IN  /\ l.id = hl[h].id /\ l.parent = hl[h].parent /\ l.from = hl[h].from
          /\ l.fromCount = hl[h].fromCount /\ l.prev = hl[h].prev
  BY DEF TypeInv, TypeOK, HandlerLocals
<1>3. \A k \in Handlers :
        /\ hl'[k].id = hl[k].id /\ hl'[k].parent = hl[k].parent /\ hl'[k].from = hl[k].from
        /\ hl'[k].fromCount = hl[k].fromCount /\ hl'[k].prev = hl[k].prev
        /\ k # h => hpc'[k] = hpc[k]
  BY <1>1, <1>2 DEF TypeInv, TypeOK
<1>4. hpc'[h] = "planned"
  BY <1>1 DEF TypeInv, TypeOK
<1>5. InheritedCount(h, hl[h].id) \in Nat /\ MaxResumes \in Nat
  BY <1>1, CountsTyped, InterruptsAssumption DEF TypeInv, Engaged
<1>6. Budgeted'
  BY <1>1, <1>3, <1>4 DEF Budgeted, Covered, Using
<1>7. ChildCarries'
  BY <1>1, <1>3, <1>4 DEF ChildCarries
<1>8. PlanIsCovered'
  <2>1. \A k \in Handlers : hpc'[k] = "planned" /\ ResumeTo[hl[k].id] = "self" =>
          InheritedCount(k, hl[k].id) < MaxResumes
    BY <1>1, <1>3, <1>5 DEF PlanIsCovered
  <2> QED BY <1>3, <2>1 DEF PlanIsCovered, InheritedCount
<1> QED BY <1>6, <1>7, <1>8

LEMMA StoreWithinBudget ==
  ASSUME TypeInv, BudgetInv, NEW h \in Handlers, PauseStore(h)
  PROVE  BudgetInv'
<1> DEFINE i == hl[h].id
           n == InheritedCount(h, i)
           m == Loops(h, i)
           e == NewEntry(hl[h].gen, n, m)
<1> USE DEF BudgetInv
<1>1. /\ hpc[h] = "planned" /\ hpc' = [hpc EXCEPT ![h] = "persisting"]
      /\ hl' = [hl EXCEPT ![h] = [hl[h] EXCEPT !.prev = store[i], !.prevStatus = status]]
      /\ store' = [store EXCEPT ![i] = e]
      /\ UNCHANGED <<cpc, cl>>
  BY DEF PauseStore, callerVars
<1>2. i \in Interrupts
  BY <1>1 DEF TypeInv, Engaged, InPause
<1>3. n \in Nat /\ m \in Nat /\ MaxResumes \in Nat
  BY <1>2, CountsTyped, InterruptsAssumption
<1>4. e.count = n /\ e.loops = m
  BY DEF NewEntry
<1>5. ResumeTo[i] = "self" => n < MaxResumes
  BY <1>1 DEF PlanIsCovered
<1>6. ResumeTo[i] = "self" => m <= n
  <2>1. CASE hl[h].parent # Nobody /\ hl[h].from = i /\ ResumeTo[i] = "self"
    <3> DEFINE c == hl[h].parent
    <3>1. cpc[c] = "dispatching" /\ cl[c].id = i /\ hl[h].fromCount = cl[c].entry.count
      BY <1>1, <2>1 DEF ChildCarries
    <3>2. c \in Callers
      BY <2>1 DEF TypeInv, TypeOK, HandlerLocals
    <3>3. cl[c].entry.loops <= cl[c].entry.count
      BY <2>1, <3>1, <3>2 DEF Budgeted, Using, Covered
    <3>4. m = cl[c].entry.loops /\ n = hl[h].fromCount
      BY <2>1 DEF Loops, InheritedCount
    <3> QED BY <3>1, <3>3, <3>4
  <2>2. CASE ~(hl[h].parent # Nobody /\ hl[h].from = i)
    <3>1. m = 0  BY <2>2 DEF Loops
    <3> QED BY <1>3, <3>1
  <2> QED BY <2>1, <2>2
<1> HIDE DEF e, n, m
<1>7. Covered(i, e)
  BY <1>3, <1>4, <1>5, <1>6 DEF Covered
<1>8. LET l == [hl[h] EXCEPT !.prev = store[i], !.prevStatus = status]
      IN  l.id = i /\ l.prev = store[i]
  BY DEF TypeInv, TypeOK, HandlerLocals
<1>9. /\ hl'[h].id = i /\ hl'[h].prev = store[i] /\ hpc'[h] = "persisting"
      /\ \A k \in Handlers : k # h => hl'[k] = hl[k] /\ hpc'[k] = hpc[k]
  BY <1>1, <1>8 DEF TypeInv, TypeOK
<1>10. store'[i] = e /\ \A j \in Interrupts : j # i => store'[j] = store[j]
  BY <1>1, <1>2 DEF TypeInv, TypeOK
<1> HIDE DEF i
<1>11. Budgeted'
  <2>1. \A j \in Interrupts : Covered(j, store'[j])
    BY <1>7, <1>10 DEF Budgeted
  <2>2. \A k \in Handlers : hpc'[k] = "persisting" => Covered(hl'[k].id, hl'[k].prev)
    <3>1. Covered(i, store[i])  BY <1>2 DEF Budgeted
    <3> QED BY <1>9, <3>1 DEF Budgeted
  <2> QED BY <1>1, <2>1, <2>2 DEF Budgeted, Using, Covered
<1>12. ChildCarries'
  <2>1. \A k \in Handlers : hpc'[k] \in {"lock", "planned"} => k # h
    BY <1>9
  <2> QED BY <1>1, <1>9, <2>1 DEF ChildCarries
<1>13. PlanIsCovered'
  BY <1>9 DEF PlanIsCovered, InheritedCount
<1> QED BY <1>11, <1>12, <1>13

LEMMA RollbackWithinBudget ==
  ASSUME TypeInv, BudgetInv, NEW h \in Handlers, PausePersistFails(h), OwnsBoundary(h)
  PROVE  BudgetInv'
<1> USE DEF BudgetInv
<1>1. /\ hpc[h] = "persisting" /\ store' = [store EXCEPT ![hl[h].id] = hl[h].prev]
      /\ Return(h, "failed") /\ UNCHANGED <<cpc, cl>>
  BY DEF PausePersistFails, callerVars
<1>2. hl[h].id \in Interrupts
  BY <1>1 DEF TypeInv, Engaged, InPause
<1>3. \A j \in Interrupts : Covered(j, store'[j])
  BY <1>1, <1>2 DEF Budgeted, TypeInv, TypeOK
<1>4. \A k \in Handlers : hpc'[k] \in {"lock", "planned", "persisting"} =>
        hpc'[k] = hpc[k] /\ hl'[k] = hl[k]
  BY <1>1 DEF Return, TypeInv, TypeOK
<1>5. Budgeted'
  BY <1>1, <1>3, <1>4 DEF Budgeted, Covered, Using
<1>6. ChildCarries'
  BY <1>1, <1>4 DEF ChildCarries
<1>7. PlanIsCovered'
  BY <1>4 DEF PlanIsCovered, InheritedCount
<1> QED BY <1>5, <1>6, <1>7

\* A pause_for that a resumed chunk calls starts from the count the resume carried.
LEMMA CallsWithinBudget ==
  ASSUME TypeInv, BudgetInv, NEW h \in Handlers, NEW i \in Interrupts,
         PauseCall(h, i) \/ \E c \in Callers : PauseAgainCall(h, c, i)
  PROVE  BudgetInv'
<1> USE DEF BudgetInv
<1>1. /\ hpc' = [hpc EXCEPT ![h] = "lock"] /\ store' = store /\ cpc' = cpc
      /\ \E l : hl' = [hl EXCEPT ![h] = l]
  BY Zenon DEF PauseCall, PauseAgainCall, callerVars
<1>2. \A k \in Handlers : k # h => hl'[k] = hl[k] /\ hpc'[k] = hpc[k]
  BY <1>1 DEF TypeInv, TypeOK
<1>3. hpc'[h] = "lock"
  BY <1>1 DEF TypeInv, TypeOK
<1>4. PlanIsCovered'
  BY <1>2, <1>3 DEF PlanIsCovered, InheritedCount
<1>5. CASE PauseCall(h, i)
  <2>1. cl' = cl /\ hl'[h].parent = Nobody
    BY <1>5 DEF PauseCall, callerVars, TypeInv, TypeOK, FreshHandler
  <2>2. Budgeted'
    BY <1>1, <1>2, <1>3, <2>1 DEF Budgeted, Covered, Using
  <2>3. ChildCarries'
    BY <1>1, <1>2, <2>1 DEF ChildCarries
  <2> QED BY <1>4, <2>2, <2>3
<1>6. ASSUME NEW c \in Callers, PauseAgainCall(h, c, i) PROVE BudgetInv'
  <2> DEFINE n == IF ResumeTo[cl[c].id] = "self" THEN cl[c].entry.count ELSE 0
             l == [FreshHandler EXCEPT !.id = i, !.parent = c, !.from = cl[c].id, !.fromCount = n]
  <2>1. /\ cpc[c] = "dispatching" /\ cl[c].child = Nobody
        /\ hl' = [hl EXCEPT ![h] = l]
        /\ cl' = [cl EXCEPT ![c] = [cl[c] EXCEPT !.child = h]]
    BY <1>6 DEF PauseAgainCall
  <2>2. l.parent = c /\ l.from = cl[c].id /\ l.fromCount = n
    BY DEF FreshHandler
  <2>3. [cl[c] EXCEPT !.child = h].id = cl[c].id /\ [cl[c] EXCEPT !.child = h].entry = cl[c].entry
        /\ [cl[c] EXCEPT !.child = h].child = h
    BY DEF TypeInv, TypeOK, CallerLocals
  <2>4. /\ \A d \in Callers : cl'[d].id = cl[d].id /\ cl'[d].entry = cl[d].entry
        /\ cl'[c].child = h /\ \A d \in Callers : d # c => cl'[d] = cl[d]
    BY <2>1, <2>3 DEF TypeInv, TypeOK
  <2> HIDE DEF l
  <2>5. hl'[h].parent = c /\ hl'[h].from = cl[c].id /\ hl'[h].fromCount = n
    BY <2>1, <2>2 DEF TypeInv, TypeOK
  <2>6. Budgeted'
    BY <1>1, <1>2, <1>3, <2>4 DEF Budgeted, Covered, Using
  <2>7. ChildCarries'
    <3> SUFFICES ASSUME NEW k \in Handlers, hpc'[k] \in {"lock", "planned"}, hl'[k].parent # Nobody,
                        NEW d, d = hl'[k].parent
                 PROVE  /\ cpc'[d] = "dispatching" /\ cl'[d].child = k /\ cl'[d].id = hl'[k].from
                        /\ ResumeTo[hl'[k].from] = "self" => hl'[k].fromCount = cl'[d].entry.count
      BY DEF ChildCarries
    <3>1. CASE k = h
      BY <1>1, <2>1, <2>4, <2>5, <3>1
    <3>2. CASE k # h
      <4>1. /\ hl'[k] = hl[k] /\ hpc'[k] = hpc[k] /\ d \in Callers /\ k # Nobody
        BY <1>2, <3>2, InterruptsAssumption DEF TypeInv, TypeOK, HandlerLocals
      <4>2. /\ cpc[d] = "dispatching" /\ cl[d].child = k /\ cl[d].id = hl[k].from
            /\ ResumeTo[hl[k].from] = "self" => hl[k].fromCount = cl[d].entry.count
        BY <4>1 DEF ChildCarries
      <4>3. d # c  BY <2>1, <4>1, <4>2
      <4> QED BY <1>1, <2>4, <4>1, <4>2, <4>3
    <3> QED BY <3>1, <3>2
  <2> QED BY <1>4, <2>6, <2>7
<1> QED BY <1>5, <1>6

\* What c writes is covered; until it is resumed, it covers one more resume.
CoveredCopy(c, e, pc) ==
  /\ Covered(cl[c].id, e)
  /\ pc \in {"accepted", "dispatched"} /\ ResumeTo[cl[c].id] = "self" => e.loops < e.count

LEMMA CopiesCover ==
  ASSUME TypeInv, Budgeted, NEW c \in Callers,
         ContinueClaim(c) \/ ContinueDispatched(c) \/ ContinueResumed(c)
  PROVE  \E e, pc :
           /\ CoveredCopy(c, e, pc) /\ StoreCopy(c, e) /\ cl[c].id \in Interrupts
           /\ cpc' = [cpc EXCEPT ![c] = pc] /\ cpc[c] # "dispatching"
           /\ pc \in {"accepted", "dispatched", "resuming"} /\ UNCHANGED <<hpc, hl>>
<1> DEFINE i == cl[c].id
<1>1. i \in Interrupts /\ cl[c].entry \in Entry /\ store[i] \in Entry
  BY DEF ContinueClaim, ThroughBarrier, ContinueDispatched, ContinueResumed,
         TypeInv, TypeOK, Engaged, CallerLocals
<1>2. \A e \in Entry : /\ e.count \in Nat /\ e.loops \in Nat
                       /\ Resumed(e).count = e.count /\ Resumed(e).loops = e.loops + 1
  BY DEF Resumed, Entry
<1>3. \A s : \A e \in Entry : /\ WithRecord(e, c, s).count = e.count
                              /\ WithRecord(e, c, s).loops = e.loops
  BY DEF WithRecord, Entry
<1>4. cpc[c] # "dispatching" /\ UNCHANGED <<hpc, hl>>
  BY DEF ContinueClaim, ThroughBarrier, ContinueDispatched, ContinueResumed, handlerVars
<1>5. CASE ContinueClaim(c)
  <2> DEFINE b == Counted(c)
  <2>1. ~Refused(c) /\ ~Replayed(c)
    BY <1>5 DEF ContinueClaim, Entitled
  <2>2. store[i].claim = Nobody  BY <2>1 DEF Refused, Replayed
  <2>3. ResumeTo[i] = "self" => ~(store[i].count + 1 > MaxResumes)
    BY <2>1, <2>2 DEF Refused, Replayed
  <2>4. b \in Entry  BY <1>1, EntriesTyped
  <2>5. b.loops = store[i].loops
        /\ (ResumeTo[i] = "self" => b.count = store[i].count + 1)
    BY <1>1 DEF Counted, Entry
  <2>6. ResumeTo[i] = "self" => store[i].loops <= store[i].count
    BY <1>1 DEF Budgeted, Covered
  <2> HIDE DEF b
  <2>7. ResumeTo[i] = "self" => b.loops < b.count /\ b.count <= MaxResumes
    BY <1>1, <1>2, <2>3, <2>5, <2>6, InterruptsAssumption
  <2>8. CASE StoreCopy(c, Resumed(b)) /\ cpc' = [cpc EXCEPT ![c] = "resuming"]
    <3> DEFINE e == Resumed(b)
    <3>1. e.count = b.count /\ e.loops = b.loops + 1 /\ b.count \in Nat /\ b.loops \in Nat
      BY <1>2, <2>4
    <3>2. StoreCopy(c, e)  BY <2>8
    <3> HIDE DEF e
    <3>3. CoveredCopy(c, e, "resuming")
      BY <2>7, <3>1, InterruptsAssumption DEF CoveredCopy, Covered
    <3> QED BY <1>1, <1>4, <2>8, <3>2, <3>3
  <2>9. ASSUME NEW s \in {"accepted", "dispatched"},
               StoreCopy(c, WithRecord(b, c, s)), cpc' = [cpc EXCEPT ![c] = s]
        PROVE  \E e : CoveredCopy(c, e, s) /\ StoreCopy(c, e)
    <3> DEFINE e == WithRecord(b, c, s)
    <3>1. e.count = b.count /\ e.loops = b.loops /\ b.count \in Nat /\ b.loops \in Nat
      BY <1>2, <1>3, <2>4
    <3>2. StoreCopy(c, e)  BY <2>9
    <3> HIDE DEF e
    <3>3. CoveredCopy(c, e, s)
      BY <2>7, <3>1, InterruptsAssumption DEF CoveredCopy, Covered
    <3> QED BY <3>2, <3>3
  <2> QED BY <1>1, <1>4, <1>5, <2>8, <2>9 DEF ContinueClaim, b
<1>6. CASE ContinueDispatched(c) \/ ContinueResumed(c)
  <2>1. ResumeTo[i] = "self" => /\ cl[c].entry.loops < cl[c].entry.count
                                /\ cl[c].entry.count <= MaxResumes
    BY <1>6 DEF ContinueDispatched, ContinueResumed, Budgeted, Using, Covered
  <2>2. cl[c].entry.count \in Nat /\ cl[c].entry.loops \in Nat
    BY <1>1, <1>2
  <2>3. CASE ContinueDispatched(c)
    <3> DEFINE e == WithRecord(cl[c].entry, c, "dispatched")
    <3>1. e.count = cl[c].entry.count /\ e.loops = cl[c].entry.loops
      BY <1>1, <1>3
    <3>2. StoreCopy(c, e) /\ cpc' = [cpc EXCEPT ![c] = "dispatched"]
      BY <2>3 DEF ContinueDispatched
    <3> HIDE DEF e
    <3>3. CoveredCopy(c, e, "dispatched")
      BY <2>1, <2>2, <3>1, InterruptsAssumption DEF CoveredCopy, Covered
    <3> QED BY <1>1, <1>4, <3>2, <3>3
  <2>4. CASE ContinueResumed(c)
    <3> DEFINE e == Resumed(cl[c].entry)
    <3>1. e.count = cl[c].entry.count /\ e.loops = cl[c].entry.loops + 1
      BY <1>1, <1>2
    <3>2. StoreCopy(c, e) /\ cpc' = [cpc EXCEPT ![c] = "resuming"]
      BY <2>4 DEF ContinueResumed
    <3> HIDE DEF e
    <3>3. CoveredCopy(c, e, "resuming")
      BY <2>1, <2>2, <3>1, InterruptsAssumption DEF CoveredCopy, Covered
    <3> QED BY <1>1, <1>4, <3>2, <3>3
  <2> QED BY <1>6, <2>3, <2>4
<1> QED BY <1>5, <1>6

LEMMA CopyWithinBudget ==
  ASSUME TypeInv, BudgetInv, NEW c \in Callers,
         ContinueClaim(c) \/ ContinueDispatched(c) \/ ContinueResumed(c)
  PROVE  BudgetInv'
<1> USE DEF BudgetInv
<1>1. PICK e, pc :
        /\ CoveredCopy(c, e, pc) /\ StoreCopy(c, e) /\ cl[c].id \in Interrupts
        /\ cpc' = [cpc EXCEPT ![c] = pc] /\ cpc[c] # "dispatching"
        /\ pc \in {"accepted", "dispatched", "resuming"} /\ UNCHANGED <<hpc, hl>>
  BY CopiesCover
<1>2. /\ store' = [store EXCEPT ![cl[c].id] = e]
      /\ cl' = [cl EXCEPT ![c] = [cl[c] EXCEPT !.entry = e]]
  BY <1>1 DEF StoreCopy
<1>3. /\ cl'[c].id = cl[c].id /\ cl'[c].entry = e /\ cpc'[c] = pc
      /\ \A d \in Callers : d # c => cl'[d] = cl[d] /\ cpc'[d] = cpc[d]
  BY <1>1, <1>2 DEF TypeInv, TypeOK, CallerLocals
<1>4. store'[cl[c].id] = e /\ \A i \in Interrupts : i # cl[c].id => store'[i] = store[i]
  BY <1>1, <1>2 DEF TypeInv, TypeOK
<1>5. Budgeted'
  <2>1. \A i \in Interrupts : Covered(i, store'[i])
    BY <1>1, <1>4 DEF Budgeted, CoveredCopy
  <2>2. ASSUME NEW d \in Callers, Using(d)'
        PROVE  /\ Covered(cl'[d].id, cl'[d].entry)
               /\ cpc'[d] \in {"accepted", "dispatched"} /\ ResumeTo[cl'[d].id] = "self" =>
                    cl'[d].entry.loops < cl'[d].entry.count
    <3>1. CASE d = c  BY <1>1, <1>3, <3>1 DEF CoveredCopy
    <3>2. CASE d # c  BY <1>3, <2>2, <3>2 DEF Budgeted, Using
    <3> QED BY <3>1, <3>2
  <2> QED BY <1>1, <2>1, <2>2 DEF Budgeted, Covered
<1>6. ChildCarries'
  <2> SUFFICES ASSUME NEW h \in Handlers, hpc'[h] \in {"lock", "planned"}, hl'[h].parent # Nobody,
                      NEW d, d = hl'[h].parent
               PROVE  /\ cpc'[d] = "dispatching" /\ cl'[d].child = h /\ cl'[d].id = hl'[h].from
                      /\ ResumeTo[hl'[h].from] = "self" => hl'[h].fromCount = cl'[d].entry.count
    BY DEF ChildCarries
  <2>1. /\ cpc[d] = "dispatching" /\ cl[d].child = h /\ cl[d].id = hl[h].from
        /\ ResumeTo[hl[h].from] = "self" => hl[h].fromCount = cl[d].entry.count
        /\ d \in Callers
    BY <1>1 DEF ChildCarries, TypeInv, TypeOK, HandlerLocals
  <2>2. d # c  BY <1>1, <2>1
  <2> QED BY <1>1, <1>3, <2>1, <2>2
<1>7. PlanIsCovered'
  BY <1>1 DEF PlanIsCovered, InheritedCount
<1> QED BY <1>5, <1>6, <1>7

LEMMA StepWithinBudget == TypeInv /\ BudgetInv /\ [Next]_vars => BudgetInv'
<1> SUFFICES ASSUME TypeInv, BudgetInv, [Next]_vars PROVE BudgetInv'
  OBVIOUS
<1>1. ASSUME NEW h \in Handlers, PauseStep(h) PROVE BudgetInv'
  <2>1. CASE PausePlan(h)
    <3>1. CASE Return(h, "failed")  BY <2>1, <3>1, PauseUncounted, UncountedKeeps
    <3>2. CASE ~Return(h, "failed")  BY <2>1, <3>2, PlanWithinBudget
    <3> QED BY <3>1, <3>2
  <2>2. CASE PauseStore(h)  BY <2>2, StoreWithinBudget
  <2>3. CASE PausePersistFails(h) /\ OwnsBoundary(h)  BY <2>3, RollbackWithinBudget
  <2> QED BY <1>1, <2>1, <2>2, <2>3, PauseUncounted, UncountedKeeps DEF PauseStep
<1>2. ASSUME NEW h \in Handlers, NEW i \in Interrupts,
             PauseCall(h, i) \/ \E c \in Callers : PauseAgainCall(h, c, i)
      PROVE  BudgetInv'
  BY <1>2, CallsWithinBudget
<1>3. ASSUME NEW c \in Callers, ContinueStep(c) \/ ContinueAborts(c) PROVE BudgetInv'
  <2>1. CASE ContinueClaim(c) \/ ContinueDispatched(c) \/ ContinueResumed(c)
    BY <2>1, CopyWithinBudget
  <2> QED BY <1>3, <2>1, ContinueUncounted, UncountedKeeps DEF ContinueStep
<1>4. ASSUME NEW c \in Callers, NEW i \in Interrupts, NEW r \in RequestKeys, NEW v \in Values,
             ContinueCall(c, i, r, v)
      PROVE  BudgetInv'
  BY <1>4, ContinueUncounted, UncountedKeeps
<1>5. CASE \/ Seal \/ Unseal \/ CloseStep \/ UNCHANGED vars
           \/ \E policy \in {"error", "cancel"} : CloseCall(policy)
           \/ \E S \in SUBSET Interrupts : EventResumes(S)
  BY <1>5, OthersUncounted, UncountedKeeps
<1> QED BY <1>1, <1>2, <1>3, <1>4, <1>5 DEF Next

LEMMA InitWithinBudget == Init => BudgetInv
BY InterruptsAssumption
   DEF Init, BudgetInv, Budgeted, Covered, ChildCarries, PlanIsCovered, Using, Absent

\* A chunk that pauses itself again on every resume is resumed at most
\* MaxResumes times in a row, whatever fails, is rolled back or is paused in
\* between: the count that pause_for inherits through the resume signal is
\* never behind the resumes there were.
THEOREM ResumesWithinBudget == Spec => []WithinBudget
<1>1. Init => TypeInv /\ BudgetInv
  BY InitTyped, InitWithinBudget
<1>2. TypeInv /\ BudgetInv /\ [Next]_vars => (TypeInv /\ BudgetInv)'
  BY StepTyped, StepWithinBudget
<1>3. TypeInv /\ BudgetInv => WithinBudget
  <2> SUFFICES ASSUME TypeInv, BudgetInv, NEW i \in Interrupts, ResumeTo[i] = "self"
               PROVE  store[i].loops <= MaxResumes
    BY DEF WithinBudget
  <2>1. store[i].loops \in Nat /\ store[i].count \in Nat
    BY DEF TypeInv, TypeOK, Entry
  <2> QED BY <2>1, InterruptsAssumption DEF BudgetInv, Budgeted, Covered
<1> QED BY <1>1, <1>2, <1>3, PTL DEF Spec

-----------------------------------------------------------------------------
(* The close *)

\* What the close knows of the waits that its drain let through: each pause_for under
\* way began after the drain ended.
DrainSawAll ==
  closer.pc \in {"drained", "settled"} =>
    /\ closer.gen <= lastGen
    /\ \A h \in Handlers : hpc[h] \in InPause => hl[h].gen > closer.gen

Watching == closer.pc = "settled" /\ closer.policy = "error"

\* The wait e of i is one that the close could not see at its second look.
Later(i, e) == e.gen > closer.gen \/ i \in closer.back

\* Past the second look of a default close each pending wait is a later one, and so is
\* the wait that a pause_for would roll back to.
OnlyLaterWaits ==
  Watching =>
    /\ \A i \in Waiting(store) : Later(i, store[i])
    /\ \A h \in Handlers :
         (/\ hpc[h] = "persisting" /\ hl[h].prev.status = "waiting"
          /\ hl[h].id \in Waiting(store) /\ store[hl[h].id].gen = hl[h].gen)
         => Later(hl[h].id, hl[h].prev)

SettledInv == TypeInv /\ OneInBoundary /\ DrainSawAll /\ OnlyLaterWaits

\* The pause_for calls under way go on as they are, or return.
PausesStay ==
  /\ lastGen' = lastGen
  /\ \A h \in Handlers : hpc'[h] \in InPause =>
       /\ hpc[h] \in InPause /\ (hpc'[h] = "persisting" => hpc[h] = "persisting")
       /\ hl'[h].id = hl[h].id /\ hl'[h].gen = hl[h].gen /\ hl'[h].prev = hl[h].prev

\* No wait but that of the interrupts in S becomes pending.
OpensOnly(S) ==
  \A i \in Interrupts \ S : i \in Waiting(store') =>
    i \in Waiting(store) /\ store'[i].gen = store[i].gen

LEMMA BlindKeepsSettled ==
  ASSUME SettledInv, TypeInv', PausesStay, OpensOnly({}), closer' = closer
  PROVE  DrainSawAll' /\ OnlyLaterWaits'
<1> USE DEF SettledInv
<1>1. DrainSawAll'
  BY DEF DrainSawAll, PausesStay
<1>2. ASSUME Watching'
      PROVE  \A i \in Waiting(store') : Later(i, store[i])'
  BY <1>2 DEF OnlyLaterWaits, OpensOnly, Watching, Later, Waiting
<1>3. ASSUME Watching', NEW h \in Handlers, hpc'[h] = "persisting", hl'[h].prev.status = "waiting",
             hl'[h].id \in Waiting(store'), store'[hl'[h].id].gen = hl'[h].gen
      PROVE  Later(hl[h].id, hl[h].prev)'
  <2>1. hpc[h] = "persisting" /\ hl'[h].id = hl[h].id /\ hl'[h].gen = hl[h].gen /\ hl'[h].prev = hl[h].prev
    BY <1>3 DEF PausesStay, InPause
  <2>2. hl[h].id \in Interrupts
    BY <2>1 DEF TypeInv, Engaged, InPause
  <2>3. hl[h].id \in Waiting(store) /\ store[hl[h].id].gen = hl[h].gen
    BY <1>3, <2>1, <2>2 DEF OpensOnly
  <2>4. Later(hl[h].id, hl[h].prev)
    BY <1>3, <2>1, <2>3 DEF OnlyLaterWaits, Watching
  <2> QED BY <2>1, <2>4 DEF Later
<1>4. OnlyLaterWaits'
  BY <1>2, <1>3 DEF OnlyLaterWaits
<1> QED BY <1>1, <1>4

LEMMA PutBackKeepsSettled ==
  ASSUME SettledInv, TypeInv', NEW i \in Interrupts, PausesStay, OpensOnly({i}), PutBack(i)
  PROVE  DrainSawAll' /\ OnlyLaterWaits'
<1> USE DEF SettledInv
<1>1. closer'.pc = closer.pc /\ closer'.gen = closer.gen /\ closer'.policy = closer.policy
  BY DEF PutBack, TypeInv, TypeOK, CloserStates
<1>2. DrainSawAll'
  BY <1>1 DEF DrainSawAll, PausesStay
<1>3. Watching' => closer'.back = closer.back \cup {i}
  BY <1>1 DEF PutBack, Watching, TypeInv, TypeOK, CloserStates
<1>4. ASSUME Watching'
      PROVE  \A j \in Waiting(store') : Later(j, store[j])'
  BY <1>1, <1>3, <1>4 DEF OnlyLaterWaits, OpensOnly, Watching, Later, Waiting
<1>5. ASSUME Watching', NEW h \in Handlers, hpc'[h] = "persisting", hl'[h].prev.status = "waiting",
             hl'[h].id \in Waiting(store'), store'[hl'[h].id].gen = hl'[h].gen
      PROVE  Later(hl[h].id, hl[h].prev)'
  <2>1. hpc[h] = "persisting" /\ hl'[h].id = hl[h].id /\ hl'[h].gen = hl[h].gen /\ hl'[h].prev = hl[h].prev
    BY <1>5 DEF PausesStay, InPause
  <2>2. hl[h].id \in Interrupts
    BY <2>1 DEF TypeInv, Engaged, InPause
  <2>3. CASE hl[h].id = i
    BY <1>3, <1>5, <2>1, <2>3 DEF Later
  <2>4. CASE hl[h].id # i
    <3>1. hl[h].id \in Waiting(store) /\ store[hl[h].id].gen = hl[h].gen
      BY <1>5, <2>1, <2>2, <2>4 DEF OpensOnly
    <3>2. Later(hl[h].id, hl[h].prev)
      BY <1>1, <1>5, <2>1, <3>1 DEF OnlyLaterWaits, Watching
    <3> QED BY <1>1, <1>3, <1>5, <2>1, <3>2 DEF Later
  <2> QED BY <2>3, <2>4
<1>6. OnlyLaterWaits'
  BY <1>4, <1>5 DEF OnlyLaterWaits
<1> QED BY <1>2, <1>6

LEMMA ReturnStays ==
  ASSUME TypeInv, NEW h \in Handlers, NEW outcome \in {"done", "failed"},
         Return(h, outcome), UNCHANGED lastGen
  PROVE  PausesStay
BY DEF Return, PausesStay, TypeInv, TypeOK, InPause

LEMMA EnvelopeOpensNone ==
  ASSUME TypeInv, NEW h \in Handlers, hpc[h] \in InPause, NEW w, ApplyEnvelope(h, w)
  PROVE  OpensOnly({})
<1>1. hl[h].id \in Interrupts /\ store[hl[h].id] \in Entry
  BY DEF TypeInv, TypeOK, Engaged
<1>2. store' = store \/ store' = [store EXCEPT ![hl[h].id] = [store[hl[h].id] EXCEPT !.wait = w]]
  BY DEF ApplyEnvelope
<1>3. LET e == store[hl[h].id] IN [e EXCEPT !.wait = w].gen = e.gen /\ [e EXCEPT !.wait = w].status = e.status
  BY <1>1 DEF Entry
<1> QED BY <1>1, <1>2, <1>3 DEF OpensOnly, Waiting, TypeInv, TypeOK

\* A planned pause_for is later than the drain, and so is the wait it stores.
LEMMA PausesKeepSettled ==
  ASSUME SettledInv, TypeInv', NEW h \in Handlers, PauseStep(h)
  PROVE  DrainSawAll' /\ OnlyLaterWaits'
<1> USE DEF SettledInv
<1>1. closer' = closer
  BY DEF PauseStep, PausePlan, PauseStore, PausePersistFails, PauseProceed, PauseSuperseded,
         PausePublished, PausePublishFails, PauseExposed, PauseReturns, PauseAborts,
         HandlerCollected, execVars
<1>2. store' = store => OpensOnly({})
  BY DEF OpensOnly
<1>3. CASE PausePlan(h)
  <2>1. CASE Return(h, "failed")
    <3>1. lastGen' = lastGen \/ ~Return(h, "failed")
      BY <1>3, <2>1 DEF PausePlan, Return, TypeInv, TypeOK
    <3> QED BY <1>1, <1>2, <1>3, <2>1, <3>1, ReturnStays, BlindKeepsSettled DEF PausePlan
  <2>2. CASE ~Return(h, "failed")
    <3>1. /\ lastGen' = lastGen + 1 /\ store' = store
          /\ hl' = [hl EXCEPT ![h] = [hl[h] EXCEPT !.gen = lastGen + 1]]
          /\ hpc' = [hpc EXCEPT ![h] = "planned"]
      BY <1>3, <2>2 DEF PausePlan
    <3>2. hl'[h].gen = lastGen + 1 /\ hpc'[h] = "planned"
          /\ \A k \in Handlers \ {h} : hl'[k] = hl[k] /\ hpc'[k] = hpc[k]
      BY <3>1 DEF TypeInv, TypeOK, HandlerLocals
    <3>3. lastGen \in Nat /\ closer.gen \in Nat
      BY DEF TypeInv, TypeOK, CloserStates
    <3>4. DrainSawAll'
      BY <1>1, <3>1, <3>2, <3>3 DEF DrainSawAll
    <3>5. OnlyLaterWaits'
      BY <1>1, <3>1, <3>2 DEF OnlyLaterWaits, Watching, Later
    <3> QED BY <3>4, <3>5
  <2> QED BY <2>1, <2>2
<1>4. CASE PauseStore(h)
  <2> DEFINE i == hl[h].id
             e == NewEntry(hl[h].gen, InheritedCount(h, i), Loops(h, i))
             l == [hl[h] EXCEPT !.prev = store[i], !.prevStatus = status]
  <2>1. /\ hpc[h] = "planned" /\ lastGen' = lastGen
        /\ hl' = [hl EXCEPT ![h] = l]
        /\ store' = [store EXCEPT ![i] = e]
        /\ hpc' = [hpc EXCEPT ![h] = "persisting"]
    BY <1>4 DEF PauseStore
  <2>2. i \in Interrupts
    BY <2>1 DEF TypeInv, Engaged, InPause
  <2>3. e.gen = hl[h].gen /\ l.id = i /\ l.gen = hl[h].gen /\ l.prev = store[i]
    BY DEF NewEntry, TypeInv, TypeOK, HandlerLocals
  <2> HIDE DEF e, l
  <2>4. /\ hl'[h] = l /\ hpc'[h] = "persisting" /\ store'[i] = e
        /\ \A k \in Handlers \ {h} : hl'[k] = hl[k] /\ hpc'[k] = hpc[k]
        /\ \A j \in Interrupts \ {i} : store'[j] = store[j]
    BY <2>1, <2>2 DEF TypeInv, TypeOK
  <2> HIDE DEF i
  <2>5. DrainSawAll'
    BY <1>1, <2>1, <2>3, <2>4 DEF DrainSawAll, InPause
  <2>6. closer.pc = "settled" => hl[h].gen > closer.gen
    BY <2>1 DEF DrainSawAll, InPause
  <2>7. ASSUME Watching' PROVE \A j \in Waiting(store') : Later(j, store[j])'
    BY <1>1, <2>3, <2>4, <2>6, <2>7 DEF OnlyLaterWaits, Watching, Later, Waiting
  <2>8. ASSUME Watching', NEW k \in Handlers, hpc'[k] = "persisting", hl'[k].prev.status = "waiting",
               hl'[k].id \in Waiting(store'), store'[hl'[k].id].gen = hl'[k].gen
        PROVE  Later(hl[k].id, hl[k].prev)'
    <3>1. CASE k = h
      <4>1. i \in Waiting(store)
        BY <2>2, <2>3, <2>4, <2>8, <3>1 DEF Waiting
      <4>2. Later(i, store[i])
        BY <1>1, <2>8, <4>1 DEF OnlyLaterWaits, Watching
      <4> QED BY <1>1, <2>3, <2>4, <3>1, <4>2 DEF Later
    <3>2. CASE k # h
      <4>1. hl'[k] = hl[k] /\ hpc[k] = "persisting"
        BY <2>4, <2>8, <3>2
      <4>2. hl[k].id # i
        BY <2>1, <3>2, <4>1 DEF OneInBoundary, InPause, i
      <4>3. Later(hl[k].id, hl[k].prev)
        BY <1>1, <2>4, <2>8, <4>1, <4>2 DEF OnlyLaterWaits, Watching, Waiting
      <4> QED BY <1>1, <4>1, <4>3 DEF Later
    <3> QED BY <3>1, <3>2
  <2>9. OnlyLaterWaits'
    BY <2>7, <2>8 DEF OnlyLaterWaits
  <2> QED BY <2>5, <2>9
<1>5. CASE PausePersistFails(h) /\ OwnsBoundary(h)
  <2> DEFINE i == hl[h].id
  <2>1. /\ hpc[h] = "persisting" /\ lastGen' = lastGen
        /\ store' = [store EXCEPT ![i] = hl[h].prev]
        /\ Return(h, "failed")
    BY <1>5 DEF PausePersistFails
  <2>2. i \in Interrupts
    BY <2>1 DEF TypeInv, Engaged, InPause
  <2>3. /\ store'[i] = hl[h].prev /\ \A j \in Interrupts \ {i} : store'[j] = store[j]
    BY <2>1, <2>2 DEF TypeInv, TypeOK
  <2>4. /\ hpc'[h] = "failed"
        /\ \A k \in Handlers \ {h} : hl'[k] = hl[k] /\ hpc'[k] = hpc[k]
    BY <2>1 DEF Return, TypeInv, TypeOK
  <2>5. i \in Waiting(store) /\ store[i].gen = hl[h].gen
    BY <1>5, <2>2 DEF OwnsBoundary, Waiting
  <2>6. DrainSawAll'
    BY <1>1, <2>1, <2>4 DEF DrainSawAll, InPause
  <2>7. ASSUME Watching' PROVE \A j \in Waiting(store') : Later(j, store[j])'
    BY <1>1, <2>1, <2>3, <2>5, <2>7 DEF OnlyLaterWaits, Watching, Later, Waiting
  <2>8. ASSUME Watching', NEW k \in Handlers, hpc'[k] = "persisting", hl'[k].prev.status = "waiting",
               hl'[k].id \in Waiting(store'), store'[hl'[k].id].gen = hl'[k].gen
        PROVE  Later(hl[k].id, hl[k].prev)'
    <3>1. k # h /\ hl'[k] = hl[k] /\ hpc[k] = "persisting"
      BY <2>4, <2>8
    <3>2. hl[k].id # i
      BY <2>1, <3>1 DEF OneInBoundary, InPause
    <3>3. Later(hl[k].id, hl[k].prev)
      BY <1>1, <2>3, <2>8, <3>1, <3>2 DEF OnlyLaterWaits, Watching, Waiting
    <3> QED BY <1>1, <3>1, <3>3 DEF Later
  <2>9. OnlyLaterWaits'
    BY <2>7, <2>8 DEF OnlyLaterWaits
  <2> QED BY <2>6, <2>9
<1>6. CASE PausePersistFails(h) /\ ~OwnsBoundary(h)
  BY <1>1, <1>2, <1>6, ReturnStays, BlindKeepsSettled DEF PausePersistFails
<1>7. CASE PauseSuperseded(h) \/ PauseReturns(h) \/ PauseAborts(h)
  BY <1>1, <1>2, <1>7, ReturnStays, BlindKeepsSettled DEF PauseSuperseded, PauseReturns, PauseAborts
<1>8. CASE PausePublishFails(h)
  BY <1>1, <1>8, EnvelopeOpensNone, ReturnStays, BlindKeepsSettled DEF PausePublishFails, InPause
<1>9. CASE PausePublished(h) \/ PauseExposed(h)
  <2>1. PausesStay
    BY <1>9 DEF PausePublished, PauseExposed, PausesStay, TypeInv, TypeOK, InPause
  <2> QED BY <1>1, <1>9, <2>1, EnvelopeOpensNone, BlindKeepsSettled
             DEF PausePublished, PauseExposed, InPause
<1>10. CASE PauseProceed(h)
  <2>1. PausesStay
    BY <1>10 DEF PauseProceed, PausesStay, TypeInv, TypeOK, InPause
  <2> QED BY <1>1, <1>2, <1>10, <2>1, BlindKeepsSettled DEF PauseProceed
<1>11. CASE HandlerCollected(h)
  <2>1. PausesStay
    BY <1>11 DEF HandlerCollected, PausesStay, TypeInv, TypeOK, InPause
  <2> QED BY <1>1, <1>2, <1>11, <2>1, BlindKeepsSettled DEF HandlerCollected
<1> QED
  BY <1>3, <1>4, <1>5, <1>6, <1>7, <1>8, <1>9, <1>10, <1>11 DEF PauseStep

LEMMA CollectStays ==
  ASSUME TypeInv, NEW c \in Callers, Collect(c), UNCHANGED lastGen
  PROVE  PausesStay
BY DEF Collect, PausesStay, TypeInv, TypeOK, InPause

\* A call makes a wait pending again when it writes back its copy of a claimed one, or
\* when the resume it dispatched failed.
LEMMA CallsKeepSettled ==
  ASSUME SettledInv, TypeInv', NEW c \in Callers, ContinueStep(c) \/ ContinueAborts(c)
  PROVE  DrainSawAll' /\ OnlyLaterWaits'
<1> USE DEF SettledInv
<1> DEFINE i == cl[c].id
<1>1. store' = store => OpensOnly({})
  BY DEF OpensOnly
<1>2. UNCHANGED handlerVars => PausesStay
  BY DEF PausesStay, handlerVars
<1>3. cpc[c] \notin {"idle", "done", "raised"} => i \in Interrupts /\ store[i] \in Entry
  BY DEF TypeInv, TypeOK, Engaged
<1>4. CASE \/ ContinueAnswered(c) \/ ContinueDispatch(c) \/ ContinueCompletes(c)
           \/ ContinueAborts(c)
  BY <1>1, <1>2, <1>4, BlindKeepsSettled
     DEF ContinueAnswered, ContinueDispatch, ContinueCompletes, ContinueAborts, execVars
<1>5. CASE ContinueClaim(c)
  <2>1. i \in Interrupts /\ store[i] \in Entry
    BY <1>3, <1>5 DEF ContinueClaim, ThroughBarrier
  <2>2. store[i].status = "waiting"
    BY <1>5 DEF ContinueClaim, Entitled, Refused, Replayed
  <2>3. Counted(c) \in Entry /\ Counted(c).gen = store[i].gen
    BY <2>1, EntriesTyped, CopyFacts
  <2>4. PICK e \in {Resumed(Counted(c)), WithRecord(Counted(c), c, "dispatched"),
                    WithRecord(Counted(c), c, "accepted")} :
          StoreCopy(c, e)
    BY <1>5 DEF ContinueClaim
  <2>5. e.gen = store[i].gen
    BY <2>3, <2>4, CopyFacts
  <2>6. OpensOnly({})
    BY <2>1, <2>2, <2>4, <2>5 DEF OpensOnly, StoreCopy, Waiting, TypeInv, TypeOK
  <2> QED BY <1>2, <1>5, <2>6, BlindKeepsSettled DEF ContinueClaim
<1>6. CASE ContinueDispatched(c)
  <2>1. i \in Interrupts
    BY <1>3, <1>6 DEF ContinueDispatched
  <2>2. OpensOnly({i})
    BY <1>6 DEF ContinueDispatched, StoreCopy, OpensOnly, Waiting, TypeInv, TypeOK
  <2>3. PausesStay /\ PutBack(i)
    BY <1>2, <1>6 DEF ContinueDispatched
  <2> QED BY <2>1, <2>2, <2>3, PutBackKeepsSettled
<1>7. CASE ContinueResumed(c)
  <2>1. i \in Interrupts /\ cl[c].entry \in Entry
    BY <1>3, <1>7 DEF ContinueResumed, TypeInv, TypeOK, CallerLocals
  <2>2. Resumed(cl[c].entry).status = "resumed"
    BY <2>1, CopyFacts
  <2>3. store' = [store EXCEPT ![i] = Resumed(cl[c].entry)]
    BY <1>7 DEF ContinueResumed, StoreCopy
  <2>4. OpensOnly({})
    BY <2>1, <2>2, <2>3 DEF OpensOnly, Waiting, TypeInv, TypeOK
  <2> QED BY <1>2, <1>7, <2>4, BlindKeepsSettled DEF ContinueResumed
<1>8. CASE ContinueReturns(c)
  <2> DEFINE e == store[i]
             recorded == [e EXCEPT !.reqs[cl[c].req] =
                            [cl[c].entry.reqs[cl[c].req] EXCEPT !.state = "completed"],
                            !.wait = IF SameGeneration(c) THEN "completed" ELSE @]
  <2>1. i \in Interrupts /\ e \in Entry
    BY <1>3, <1>8 DEF ContinueReturns
  <2>2. recorded.gen = e.gen /\ recorded.status = e.status
    BY <2>1 DEF Entry
  <2>3. store' = store \/ store' = [store EXCEPT ![i] = recorded]
    BY <1>8 DEF ContinueReturns
  <2> HIDE DEF recorded
  <2>4. OpensOnly({})
    BY <2>1, <2>2, <2>3 DEF OpensOnly, Waiting, TypeInv, TypeOK
  <2> QED BY <1>8, <2>4, CollectStays, BlindKeepsSettled DEF ContinueReturns
<1>9. CASE ContinueFails(c)
  <2> DEFINE e == store[i]
             failed == [e EXCEPT !.reqs[cl[c].req] =
                          [cl[c].entry.reqs[cl[c].req] EXCEPT !.state = "dispatch_failed"]]
             reopened == [failed EXCEPT !.status = "waiting", !.claim = Nobody,
                                        !.wait = "dispatch_failed"]
  <2>1. i \in Interrupts /\ e \in Entry
    BY <1>3, <1>9 DEF ContinueFails
  <2>2. failed.gen = e.gen /\ failed.status = e.status
    BY <2>1 DEF Entry
  <2>3. PausesStay
    BY <1>9, CollectStays DEF ContinueFails
  <2> HIDE DEF failed
  <2>4. \/ store' = store /\ closer' = closer
        \/ store' = [store EXCEPT ![i] = failed] /\ closer' = closer
        \/ store' = [store EXCEPT ![i] = reopened] /\ PutBack(i)
    BY <1>9 DEF ContinueFails, failed
  <2> HIDE DEF reopened
  <2>5. CASE store' = [store EXCEPT ![i] = reopened] /\ PutBack(i)
    <3>1. OpensOnly({i})
      BY <2>5 DEF OpensOnly, Waiting, TypeInv, TypeOK
    <3> QED BY <2>1, <2>3, <2>5, <3>1, PutBackKeepsSettled
  <2>6. CASE closer' = closer /\ (store' = store \/ store' = [store EXCEPT ![i] = failed])
    <3>1. OpensOnly({})
      BY <2>1, <2>2, <2>6 DEF OpensOnly, Waiting, TypeInv, TypeOK
    <3> QED BY <2>3, <2>6, <3>1, BlindKeepsSettled
  <2> QED BY <2>4, <2>5, <2>6
<1> QED
  BY <1>4, <1>5, <1>6, <1>7, <1>8, <1>9 DEF ContinueStep

\* The drain ends when no handler runs, and the second look passes when nothing waits.
LEMMA ClosesKeepSettled ==
  ASSUME SettledInv, TypeInv',
         \/ CloseStep \/ Seal \/ Unseal \/ UNCHANGED vars
         \/ \E policy \in {"error", "cancel"} : CloseCall(policy)
  PROVE  DrainSawAll' /\ OnlyLaterWaits'
<1> USE DEF SettledInv
<1>1. UNCHANGED handlerVars /\ PausesStay
  BY DEF CloseStep, CloseCall, Seal, Unseal, CloseSeal, DrainEnds, CloseLook, CloseFreeze, CloseFails,
         CloseFinish, PausesStay, handlerVars, vars
<1>2. closer \in CloserStates /\ lastGen \in Nat
  BY DEF TypeInv, TypeOK
<1>3. CASE closer'.pc \notin {"drained", "settled"}
  BY <1>3 DEF DrainSawAll, OnlyLaterWaits, Watching
<1>4. CASE DrainEnds
  <2>1. /\ closer'.pc = "drained" /\ closer'.gen = lastGen
        /\ \A h \in Handlers : hpc[h] = "idle"
    BY <1>2, <1>4 DEF DrainEnds, Drained, CloserStates
  <2>2. DrainSawAll'
    BY <1>1, <1>2, <2>1 DEF DrainSawAll, InPause, handlerVars
  <2> QED BY <2>1, <2>2 DEF OnlyLaterWaits, Watching
<1>5. CASE CloseLook
  <2>1. /\ closer.pc = "drained" /\ closer'.policy = closer.policy /\ closer'.gen = closer.gen
        /\ closer'.pc = "settled" /\ closer'.policy = "error" =>
             Waiting(store) = {} /\ store' = store
    BY <1>2, <1>5 DEF CloseLook, MustCancel, MayGoOn, CloserStates
  <2>2. DrainSawAll'
    BY <1>1, <2>1 DEF DrainSawAll, handlerVars
  <2>3. OnlyLaterWaits'
    BY <2>1 DEF OnlyLaterWaits, Watching
  <2> QED BY <2>2, <2>3
<1>6. CASE closer' = closer /\ store' = store
  <2>1. OpensOnly({})
    BY <1>6 DEF OpensOnly
  <2> QED BY <1>1, <1>6, <2>1, BlindKeepsSettled
<1>7. CASE CloseSeal \/ CloseFreeze \/ CloseFails \/ CloseFinish
           \/ \E policy \in {"error", "cancel"} : CloseCall(policy)
  <2>1. closer'.pc \notin {"drained", "settled"}
    BY <1>2, <1>7 DEF CloseSeal, CloseFreeze, CloseFails, CloseFinish, CloseCall, NoCloser, Closer,
                      CloserStates
  <2> QED BY <1>3, <2>1
<1> QED
  BY <1>4, <1>5, <1>6, <1>7 DEF CloseStep, Seal, Unseal, vars, execVars

LEMMA NewCallsKeepSettled ==
  ASSUME SettledInv, TypeInv',
         \/ \E h \in Handlers, i \in Interrupts : PauseCall(h, i)
         \/ \E h \in Handlers, c \in Callers, i \in Interrupts : PauseAgainCall(h, c, i)
         \/ \E c \in Callers, i \in Interrupts, r \in RequestKeys, v \in Values :
              ContinueCall(c, i, r, v)
         \/ \E S \in SUBSET Interrupts : EventResumes(S)
  PROVE  DrainSawAll' /\ OnlyLaterWaits'
<1> USE DEF SettledInv
<1>1. ASSUME NEW h \in Handlers, NEW i \in Interrupts,
             PauseCall(h, i) \/ \E c \in Callers : PauseAgainCall(h, c, i)
      PROVE  PausesStay
  <2>1. /\ hpc' = [hpc EXCEPT ![h] = "lock"] /\ lastGen' = lastGen
        /\ \A k \in Handlers \ {h} : hl'[k] = hl[k]
    <3>1. CASE PauseCall(h, i)
      BY <3>1 DEF PauseCall, TypeInv, TypeOK
    <3>2. ASSUME NEW c \in Callers, PauseAgainCall(h, c, i) PROVE <2>1!:
      <4>1. PICK l : hl' = [hl EXCEPT ![h] = l]
        BY <3>2 DEF PauseAgainCall
      <4> QED BY <3>2, <4>1 DEF PauseAgainCall, TypeInv, TypeOK
    <3> QED BY <1>1, <3>1, <3>2
  <2> QED BY <2>1 DEF PausesStay, TypeInv, TypeOK, InPause
<1>2. store' = store => OpensOnly({})
  BY DEF OpensOnly
<1>3. ASSUME NEW h \in Handlers, NEW i \in Interrupts,
             PauseCall(h, i) \/ \E c \in Callers : PauseAgainCall(h, c, i)
      PROVE  DrainSawAll' /\ OnlyLaterWaits'
  BY <1>1, <1>2, <1>3, BlindKeepsSettled DEF PauseCall, PauseAgainCall, execVars
<1>4. ASSUME NEW c \in Callers, NEW i \in Interrupts, NEW r \in RequestKeys, NEW v \in Values,
             ContinueCall(c, i, r, v)
      PROVE  DrainSawAll' /\ OnlyLaterWaits'
  <2>1. PausesStay
    BY <1>4 DEF ContinueCall, PausesStay, handlerVars
  <2> QED BY <1>2, <1>4, <2>1, BlindKeepsSettled DEF ContinueCall, execVars
<1>5. ASSUME NEW S \in SUBSET Interrupts, EventResumes(S)
      PROVE  DrainSawAll' /\ OnlyLaterWaits'
  <2>1. PausesStay /\ closer' = closer
    BY <1>5 DEF EventResumes, PausesStay, handlerVars
  <2>2. \A e \in Entry : [e EXCEPT !.status = "resumed", !.wait = "completed"].status = "resumed"
    BY DEF Entry
  <2>3. OpensOnly({})
    BY <1>5, <2>2 DEF EventResumes, OpensOnly, Waiting, TypeInv, TypeOK
  <2> QED BY <2>1, <2>3, BlindKeepsSettled
<1> QED BY <1>3, <1>4, <1>5

\* A close with the default policy leaves no wait behind that its drain let through.  The
\* look at the pending interrupts and the freeze are two steps, with the expiry of the
\* interventions awaited between them: what is pending at the freeze began to pause
\* after the drain ended, or was put back by a call after the look.  The rollback
\* of a pause_for brings back nothing older, since one pause_for at a time holds
\* the boundary of its interrupt.
THEOREM DefaultClosesSettle == Spec => DefaultCloseSettled
<1>1. Init => SettledInv
  <2>1. Init => OneInBoundary
    BY InterruptsAssumption DEF Init, OneInBoundary, InPause, FreshHandler
  <2>2. Init => DrainSawAll /\ OnlyLaterWaits
    BY DEF Init, NoCloser, Closer, DrainSawAll, OnlyLaterWaits, Watching
  <2> QED BY <2>1, <2>2, InitTyped DEF SettledInv
<1>2. SettledInv /\ [Next]_vars => SettledInv'
  <2> SUFFICES ASSUME SettledInv, [Next]_vars PROVE SettledInv'
    OBVIOUS
  <2>1. TypeInv' /\ OneInBoundary'
    BY StepTyped, BoundaryKept DEF SettledInv
  <2>2. DrainSawAll' /\ OnlyLaterWaits'
    BY <2>1, PausesKeepSettled, CallsKeepSettled, ClosesKeepSettled, NewCallsKeepSettled DEF Next
  <2> QED BY <2>1, <2>2 DEF SettledInv
<1>3. SettledInv /\ [Next]_vars =>
        [(closer.pc # "frozen" /\ closer'.pc = "frozen" /\ closer.policy = "error")
           => \A i \in Waiting(store) : store[i].gen > closer.gen \/ i \in closer.back]_vars
  <2> SUFFICES ASSUME SettledInv, [Next]_vars, closer.pc # "frozen", closer'.pc = "frozen",
                      closer.policy = "error", NEW i \in Waiting(store)
               PROVE  store[i].gen > closer.gen \/ i \in closer.back
    OBVIOUS
  <2>1. closer.pc = "settled"
    <3>1. closer \in CloserStates
      BY DEF SettledInv, TypeInv, TypeOK
    <3>2. CASE CloseStep \/ \E policy \in {"error", "cancel"} : CloseCall(policy)
      <4>1. CASE CloseFreeze
        BY <4>1 DEF CloseFreeze
      <4>2. CASE CloseSeal \/ DrainEnds \/ CloseLook
        <5>1. closer'.pc \in {"draining", "drained", "settled", "refusing"}
          BY <3>1, <4>2 DEF CloseSeal, DrainEnds, CloseLook, CloserStates
        <5> QED BY <5>1
      <4>4. CASE CloseFails \/ CloseFinish
        BY <4>4 DEF CloseFails, CloseFinish, NoCloser, Closer
      <4>3. CASE \E policy \in {"error", "cancel"} : CloseCall(policy)
        BY <4>3 DEF CloseCall, Closer
      <4> QED BY <3>2, <4>1, <4>2, <4>3, <4>4 DEF CloseStep
    <3>3. CASE \E h \in Handlers : PauseStep(h)
      BY <3>3 DEF PauseStep, PausePlan, PauseStore, PausePersistFails, PauseProceed, PauseSuperseded,
           PausePublished, PausePublishFails, PauseExposed, PauseReturns, PauseAborts,
           HandlerCollected, execVars
    <3>4. ASSUME NEW c \in Callers, ContinueStep(c) \/ ContinueAborts(c) PROVE FALSE
      <4>1. closer'.pc = closer.pc
        BY <3>1, <3>4 DEF ContinueStep, ContinueAnswered, ContinueClaim, ContinueDispatched,
             ContinueResumed, ContinueDispatch, ContinueReturns, ContinueCompletes, ContinueFails,
             ContinueAborts, PutBack, CloserStates, execVars
      <4> QED BY <4>1
    <3>5. CASE \/ \E h \in Handlers, j \in Interrupts : PauseCall(h, j)
               \/ \E h \in Handlers, c \in Callers, j \in Interrupts : PauseAgainCall(h, c, j)
               \/ \E c \in Callers, j \in Interrupts, r \in RequestKeys, v \in Values :
                    ContinueCall(c, j, r, v)
               \/ \E S \in SUBSET Interrupts : EventResumes(S)
               \/ Seal \/ Unseal \/ UNCHANGED vars
      BY <3>5 DEF PauseCall, PauseAgainCall, ContinueCall, EventResumes, Seal, Unseal, vars, execVars
    <3> QED BY <3>2, <3>3, <3>4, <3>5 DEF Next
  <2> QED BY <2>1 DEF SettledInv, OnlyLaterWaits, Watching, Later
<1> QED BY <1>1, <1>2, <1>3, PTL DEF Spec, DefaultCloseSettled
=============================================================================
