------------------------ MODULE PauseContractProofs ------------------------
(***************************************************************************)
(* The stored interrupts implement PauseContract, for any numbers of       *)
(* interrupts, handlers, callers and requests, if no id is paused again    *)
(* while it is in use, or pause_for generates every id: each step of       *)
(* pause_for, continue_with, an event or a close is a step of the contract *)
(* or leaves it alone.                                                     *)
(*                                                                         *)
(* The contract knows waits and deliveries, not who is suspended where.    *)
(* The argument is therefore what a suspended coroutine may still rely on  *)
(* when it goes on: a pause_for on its id, a rollback on the entry it      *)
(* saved, and a caller on the copy it took.                                *)
(*                                                                         *)
(* The same argument says that a claim is held until its resume, and, for  *)
(* ids that are used once, that a copy which is written back has all the   *)
(* records of the stored ledger (LedgerInv).                               *)
(***************************************************************************)
EXTENDS TriggerFlowInterruptsProofs

\* An id that its chunks choose is not paused again while it is in use.
OneUseAtATime == OverlappingPauses => Interrupts \subseteq Anonymous

OnePause ==
  \A h, k \in Handlers : hl[h].id = hl[k].id /\ hl[h].id # Nobody => h = k

\* Until a pause_for stores its wait, its id is not in use, but for the resume that runs it.
AloneBeforeStore ==
  \A h \in Handlers : hpc[h] \in {"lock", "planned"} =>
    /\ store[hl[h].id].status # "waiting"
    /\ \A c \in Callers : Using(c) /\ cl[c].id = hl[h].id =>
         cpc[c] = "dispatching" /\ cl[c].child = h

\* What c has resumed is older than e, or e as resumed.
Before(c, e) ==
  cl[c].entry.gen < e.gen \/ (cl[c].entry.gen = e.gen /\ e.status = "resumed")

\* A pause_for that may roll back saved a settled entry, and its own is not claimed
\* while the rollback may still withdraw it.
PreviousIsSettled ==
  \A h \in Handlers : hpc[h] = "persisting" =>
    LET e == store[hl[h].id]
        p == hl[h].prev
    IN  /\ e.gen = hl[h].gen /\ p.gen < hl[h].gen /\ p.status # "waiting"
        /\ e.claim # Nobody => e.wait # "persisted"
        /\ \A c \in Callers : cpc[c] = "dispatching" /\ cl[c].id = hl[h].id =>
             cl[c].entry.gen = hl[h].gen \/ Before(c, p)

\* The copy of a caller is about the stored generation until its resume is dispatched.
CopyIsCurrent ==
  \A c \in Callers :
    LET e == store[cl[c].id] IN
    /\ cpc[c] \in {"accepted", "dispatched"} =>
         /\ e.status = "waiting" /\ e.claim = cl[c].req /\ e.gen = cl[c].entry.gen
         /\ cl[c].entry.status = "waiting" /\ cl[c].entry.claim = cl[c].req
    /\ cpc[c] = "resuming" => e.status = "resumed" /\ e.gen = cl[c].entry.gen
    /\ cpc[c] = "dispatching" => Before(c, e)

\* An id is absent only until its first wait is stored, or if that was rolled back.
NeverOpened ==
  /\ \A i \in Interrupts : store[i].status = "absent" => store[i].gen = 0
  /\ \A h \in Handlers :
       hpc[h] = "persisting" /\ hl[h].prev.status = "absent" => hl[h].prev.gen = 0

WithinGen == lastGen <= MaxGen

Orderly == OnePause /\ AloneBeforeStore /\ PreviousIsSettled /\ CopyIsCurrent /\ WithinGen

-----------------------------------------------------------------------------
(* Steps that no wait can tell: what they leave alone *)

SameWaits ==
  \A i \in Interrupts :
    /\ store'[i].gen = store[i].gen /\ store'[i].status = store[i].status
    /\ store'[i].claim = store[i].claim
    /\ store'[i].wait = "persisted" =>
         store[i].wait = "persisted" \/ \E h \in Handlers : hl[h].id = i /\ hpc[h] = "publishing"

HandlersGoOn ==
  \A h \in Handlers :
    /\ hl'[h].id \in {hl[h].id, Nobody}
    /\ hpc'[h] \in {"lock", "planned", "persisting"} =>
         /\ hl'[h].id = hl[h].id
         /\ \/ hpc'[h] = hpc[h] /\ hl'[h] = hl[h]
            \/ hpc[h] = "lock" /\ hpc'[h] = "planned"

CallersGoOn ==
  \A c \in Callers : Using(c)' =>
    /\ cpc'[c] = cpc[c] /\ cl'[c].id = cl[c].id /\ cl'[c].req = cl[c].req
    /\ cl'[c].entry = cl[c].entry
    /\ cl[c].child # Nobody => cl'[c].child = cl[c].child

LEMMA Suspended ==
  ASSUME TypeInv
  PROVE  /\ \A h \in Handlers : hpc[h] \in {"lock"} \cup InPause =>
              hl[h].id \in Interrupts /\ hl[h].id # Nobody /\ store[hl[h].id] \in Entry
         /\ \A c \in Callers : Using(c) \/ cpc[c] = "barrier" =>
              cl[c].id \in Interrupts /\ store[cl[c].id] \in Entry
         /\ \A c \in Callers : cl[c].req # Nobody /\ cl[c].entry \in Entry /\ cl[c].entry.gen \in Nat
         /\ \A h \in Handlers : h # Nobody /\ hl[h].prev \in Entry /\ hl[h].prev.gen \in Nat /\ hl[h].gen \in Nat
         /\ \A i \in Interrupts : store[i] \in Entry /\ store[i].gen \in Nat
         /\ lastGen \in Nat
<1>1. /\ \A h \in Handlers : hl[h] \in HandlerLocals
      /\ \A c \in Callers : cl[c] \in CallerLocals
      /\ \A i \in Interrupts : store[i] \in Entry
  BY DEF TypeInv, TypeOK
<1>2. \A c \in Callers : cl[c].req # Nobody
  BY <1>1, InterruptsAssumption DEF CallerLocals, RequestKeys
<1>3. \A e \in Entry : e.gen \in Nat
  BY DEF Entry
<1> QED
  BY <1>1, <1>2, <1>3, InterruptsAssumption
     DEF TypeInv, TypeOK, Engaged, InPause, Using, HandlerLocals, CallerLocals

LEMMA GoingOnIsOrderly ==
  ASSUME TypeInv, Orderly, SameWaits, HandlersGoOn, CallersGoOn, WithinGen'
  PROVE  Orderly'
<1> USE DEF Orderly
<1>1. OnePause'
  BY DEF OnePause, HandlersGoOn
<1>2. AloneBeforeStore'
  <2> SUFFICES ASSUME NEW h \in Handlers, hpc'[h] \in {"lock", "planned"}
               PROVE  /\ store'[hl'[h].id].status # "waiting"
                      /\ \A c \in Callers : Using(c)' /\ cl'[c].id = hl'[h].id =>
                           cpc'[c] = "dispatching" /\ cl'[c].child = h
    BY DEF AloneBeforeStore
  <2>1. hl'[h].id = hl[h].id /\ hpc[h] \in {"lock", "planned"} /\ hl[h].id \in Interrupts /\ h # Nobody
    BY Suspended DEF HandlersGoOn, InPause
  <2>2. store'[hl'[h].id].status # "waiting"
    BY <2>1 DEF SameWaits, AloneBeforeStore
  <2>3. ASSUME NEW c \in Callers, Using(c)', cl'[c].id = hl'[h].id
        PROVE  cpc'[c] = "dispatching" /\ cl'[c].child = h
    BY <2>1, <2>3 DEF CallersGoOn, AloneBeforeStore, Using
  <2> QED BY <2>2, <2>3
<1>3. PreviousIsSettled'
  <2> SUFFICES ASSUME NEW h \in Handlers, hpc'[h] = "persisting"
               PROVE  /\ store'[hl'[h].id].gen = hl'[h].gen /\ hl'[h].prev.gen < hl'[h].gen
                      /\ hl'[h].prev.status # "waiting"
                      /\ store'[hl'[h].id].claim # Nobody => store'[hl'[h].id].wait # "persisted"
                      /\ \A c \in Callers : cpc'[c] = "dispatching" /\ cl'[c].id = hl'[h].id =>
                           cl'[c].entry.gen = hl'[h].gen \/ Before(c, hl[h].prev)'
    BY DEF PreviousIsSettled
  <2>1. hl'[h] = hl[h] /\ hpc[h] = "persisting" /\ hl[h].id \in Interrupts /\ hl[h].id # Nobody
    BY Suspended DEF HandlersGoOn, InPause
  <2>2. \A k \in Handlers : hl[k].id = hl[h].id => hpc[k] # "publishing"
    BY <2>1 DEF OnePause
  <2>3. ASSUME NEW c \in Callers, cpc'[c] = "dispatching", cl'[c].id = hl'[h].id
        PROVE  cl'[c].entry.gen = hl'[h].gen \/ Before(c, hl[h].prev)'
    BY <2>1, <2>3 DEF CallersGoOn, PreviousIsSettled, Using, Before
  <2> QED BY <2>1, <2>2, <2>3 DEF PreviousIsSettled, SameWaits
<1>4. CopyIsCurrent'
  <2> SUFFICES ASSUME NEW c \in Callers, Using(c)'
               PROVE  /\ cpc'[c] \in {"accepted", "dispatched"} =>
                           /\ store'[cl'[c].id].status = "waiting" /\ store'[cl'[c].id].claim = cl'[c].req
                           /\ store'[cl'[c].id].gen = cl'[c].entry.gen
                           /\ cl'[c].entry.status = "waiting" /\ cl'[c].entry.claim = cl'[c].req
                      /\ cpc'[c] = "resuming" =>
                           store'[cl'[c].id].status = "resumed" /\ store'[cl'[c].id].gen = cl'[c].entry.gen
                      /\ cpc'[c] = "dispatching" => Before(c, store[cl[c].id])'
    BY DEF CopyIsCurrent, Using
  <2>1. cpc'[c] = cpc[c] /\ cl'[c].id = cl[c].id /\ cl'[c].req = cl[c].req /\ cl'[c].entry = cl[c].entry
    BY DEF CallersGoOn
  <2>2. cl[c].id \in Interrupts
    BY <2>1, Suspended DEF Using
  <2> QED BY <2>1, <2>2 DEF CopyIsCurrent, SameWaits, Before
<1> QED BY <1>1, <1>2, <1>3, <1>4

-----------------------------------------------------------------------------
(* Steps of the waits: each keeps what the suspended coroutines rely on *)

\* A chunk calls pause_for on i.
Enters(h, i) ==
  /\ hpc[h] = "idle" /\ i \in Interrupts
  /\ store[i].status # "waiting"
  /\ \A k \in Handlers : hl[k].id # i
  /\ \A c \in Callers : Using(c) /\ cl[c].id = i => cpc[c] = "dispatching" /\ cl'[c].child = h
  /\ hpc' = [hpc EXCEPT ![h] = "lock"]
  /\ \A k \in Handlers : k # h => hl'[k] = hl[k]
  /\ hl'[h].id = i
  /\ CallersGoOn /\ UNCHANGED <<store, lastGen>>

LEMMA EnteringIsOrderly ==
  ASSUME TypeInv, Orderly, NEW h \in Handlers, NEW i \in Interrupts, Enters(h, i)
  PROVE  Orderly'
<1> USE DEF Orderly
<1>1. \A k \in Handlers : k # h => hl'[k] = hl[k] /\ hpc'[k] = hpc[k]
  BY DEF Enters, TypeInv, TypeOK
<1>2. hpc'[h] = "lock" /\ hl'[h].id = i /\ store' = store /\ \A k \in Handlers : hl[k].id # i
  BY DEF Enters, TypeInv, TypeOK
<1>3. CallersGoOn  BY DEF Enters
<1>4. OnePause'  BY <1>1, <1>2 DEF OnePause
<1>5. AloneBeforeStore'
  <2> SUFFICES ASSUME NEW k \in Handlers, hpc'[k] \in {"lock", "planned"}
               PROVE  /\ store'[hl'[k].id].status # "waiting"
                      /\ \A c \in Callers : Using(c)' /\ cl'[c].id = hl'[k].id =>
                           cpc'[c] = "dispatching" /\ cl'[c].child = k
    BY DEF AloneBeforeStore
  <2>1. CASE k = h
    <3>1. \A c \in Callers : Using(c)' => Using(c) /\ cpc'[c] = cpc[c] /\ cl'[c].id = cl[c].id
      BY <1>3 DEF CallersGoOn, Using
    <3> QED BY <1>2, <2>1, <3>1 DEF Enters
  <2>2. CASE k # h
    <3>1. hl'[k].id = hl[k].id /\ hpc[k] \in {"lock", "planned"} /\ k # Nobody
      BY <1>1, <2>2, Suspended
    <3>2. ASSUME NEW c \in Callers, Using(c)', cl'[c].id = hl'[k].id
          PROVE  cpc'[c] = "dispatching" /\ cl'[c].child = k
      BY <1>3, <3>1, <3>2 DEF CallersGoOn, AloneBeforeStore, Using
    <3> QED BY <1>2, <3>1, <3>2 DEF AloneBeforeStore
  <2> QED BY <2>1, <2>2
<1>6. PreviousIsSettled'
  <2> SUFFICES ASSUME NEW k \in Handlers, hpc'[k] = "persisting"
               PROVE  /\ store'[hl'[k].id].gen = hl'[k].gen /\ hl'[k].prev.gen < hl'[k].gen
                      /\ hl'[k].prev.status # "waiting"
                      /\ store'[hl'[k].id].claim # Nobody => store'[hl'[k].id].wait # "persisted"
                      /\ \A c \in Callers : cpc'[c] = "dispatching" /\ cl'[c].id = hl'[k].id =>
                           cl'[c].entry.gen = hl'[k].gen \/ Before(c, hl[k].prev)'
    BY DEF PreviousIsSettled
  <2>1. k # h /\ hl'[k] = hl[k] /\ hpc[k] = "persisting"  BY <1>1, <1>2
  <2>2. ASSUME NEW c \in Callers, cpc'[c] = "dispatching", cl'[c].id = hl'[k].id
        PROVE  cl'[c].entry.gen = hl'[k].gen \/ Before(c, hl[k].prev)'
    BY <1>3, <2>1, <2>2 DEF CallersGoOn, PreviousIsSettled, Using, Before
  <2> QED BY <1>2, <2>1, <2>2 DEF PreviousIsSettled
<1>7. CopyIsCurrent'
  BY <1>2, <1>3 DEF CopyIsCurrent, CallersGoOn, Using, Before
<1> QED BY <1>4, <1>5, <1>6, <1>7 DEF Enters, WithinGen

\* pause_for stores its wait.
LEMMA StoringIsOrderly ==
  ASSUME Inv, Orderly, NEW h \in Handlers, PauseStore(h)
  PROVE  /\ Orderly'
         /\ hl[h].id \in Interrupts /\ store[hl[h].id].status # "waiting"
         /\ hl[h].gen \in 0 .. MaxGen /\ store[hl[h].id].gen < hl[h].gen
         /\ \E e : /\ store' = [store EXCEPT ![hl[h].id] = e]
                   /\ e.status = "waiting" /\ e.claim = Nobody /\ e.gen = hl[h].gen
         /\ UNCHANGED dispatched
<1> DEFINE i == hl[h].id
           e == NewEntry(hl[h].gen, InheritedCount(h, i), Loops(h, i))
           p == store[i]
<1> USE DEF Orderly, Inv
<1>1. /\ hpc[h] = "planned" /\ hpc' = [hpc EXCEPT ![h] = "persisting"]
      /\ hl' = [hl EXCEPT ![h] = [hl[h] EXCEPT !.prev = p, !.prevStatus = status]]
      /\ store' = [store EXCEPT ![i] = e]
      /\ UNCHANGED <<lastGen, cpc, cl, dispatched>>
  BY DEF PauseStore, callerVars
<1>2. /\ e.status = "waiting" /\ e.claim = Nobody /\ e.gen = hl[h].gen
  BY DEF NewEntry
<1>3. i \in Interrupts /\ i # Nobody /\ p \in Entry /\ p.gen \in Nat /\ hl[h].gen \in Nat /\ lastGen \in Nat
  BY <1>1, Suspended DEF InPause
<1>4. /\ p.gen < hl[h].gen /\ p.status # "waiting" /\ hl[h].gen <= lastGen /\ lastGen <= MaxGen
  BY <1>1 DEF Exclusive, PlanIsNew, AloneBeforeStore, ClockAhead, WithinGen
<1>5. /\ hl'[h].id = i /\ hl'[h].gen = hl[h].gen /\ hl'[h].prev = p
      /\ \A k \in Handlers : k # h => hl'[k] = hl[k] /\ hpc'[k] = hpc[k]
      /\ hpc'[h] = "persisting"
  BY <1>1 DEF TypeInv, TypeOK, HandlerLocals
<1>6. store'[i] = e /\ \A j \in Interrupts : j # i => store'[j] = store[j]
  BY <1>1, <1>3 DEF TypeInv, TypeOK
<1>10. hl[h].gen \in 0 .. MaxGen
  BY <1>3, <1>4, InterruptsAssumption
<1> HIDE DEF e, i, p
<1>7. \A k \in Handlers : k # h => hl[k].id # i
  BY <1>3 DEF OnePause, i
<1>8. \A c \in Callers : Using(c) /\ cl[c].id = i => cpc[c] = "dispatching" /\ Before(c, p)
  BY <1>1 DEF AloneBeforeStore, CopyIsCurrent, i, p
<1>9. Orderly'
  <2>1. OnePause'  BY <1>5, <1>7 DEF OnePause, i
  <2>2. AloneBeforeStore'
    <3> SUFFICES ASSUME NEW k \in Handlers, hpc'[k] \in {"lock", "planned"}
                 PROVE  /\ store'[hl'[k].id].status # "waiting"
                        /\ \A c \in Callers : Using(c)' /\ cl'[c].id = hl'[k].id =>
                             cpc'[c] = "dispatching" /\ cl'[c].child = k
      BY DEF AloneBeforeStore
    <3>1. hl'[k] = hl[k] /\ hpc'[k] = hpc[k] /\ hl[k].id # i /\ hl[k].id \in Interrupts
      BY <1>5, <1>7, Suspended DEF InPause
    <3> QED BY <1>1, <1>6, <3>1 DEF AloneBeforeStore, Using
  <2>3. PreviousIsSettled'
    <3> SUFFICES ASSUME NEW k \in Handlers, hpc'[k] = "persisting"
                 PROVE  /\ store'[hl'[k].id].gen = hl'[k].gen /\ hl'[k].prev.gen < hl'[k].gen
                        /\ hl'[k].prev.status # "waiting"
                        /\ store'[hl'[k].id].claim # Nobody => store'[hl'[k].id].wait # "persisted"
                        /\ \A c \in Callers : cpc'[c] = "dispatching" /\ cl'[c].id = hl'[k].id =>
                             cl'[c].entry.gen = hl'[k].gen \/ Before(c, hl[k].prev)'
      BY DEF PreviousIsSettled
    <3>1. CASE k = h
      <4>1. ASSUME NEW c \in Callers, cpc'[c] = "dispatching", cl'[c].id = hl'[k].id
            PROVE  Before(c, hl[k].prev)'
        BY <1>1, <1>5, <1>8, <3>1, <4>1 DEF Using, Before
      <4> QED BY <1>2, <1>4, <1>5, <1>6, <3>1, <4>1
    <3>2. CASE k # h
      <4>1. hl'[k] = hl[k] /\ hpc[k] = "persisting" /\ hl[k].id # i /\ hl[k].id \in Interrupts
        BY <1>5, <1>7, <3>2, Suspended DEF InPause
      <4> QED BY <1>1, <1>6, <4>1 DEF PreviousIsSettled, Before
    <3> QED BY <3>1, <3>2
  <2>4. CopyIsCurrent'
    <3> SUFFICES ASSUME NEW c \in Callers, Using(c)
                 PROVE  /\ cpc'[c] \in {"accepted", "dispatched"} =>
                             /\ store'[cl'[c].id].status = "waiting" /\ store'[cl'[c].id].claim = cl'[c].req
                             /\ store'[cl'[c].id].gen = cl'[c].entry.gen
                             /\ cl'[c].entry.status = "waiting" /\ cl'[c].entry.claim = cl'[c].req
                        /\ cpc'[c] = "resuming" =>
                             store'[cl'[c].id].status = "resumed" /\ store'[cl'[c].id].gen = cl'[c].entry.gen
                        /\ cpc'[c] = "dispatching" => Before(c, store[cl[c].id])'
      BY <1>1 DEF CopyIsCurrent, Using
    <3>1. cl[c].entry.gen \in Nat /\ cl[c].id \in Interrupts  BY Suspended
    <3>2. CASE cl[c].id = i
      <4>1. cpc[c] = "dispatching" /\ Before(c, p)  BY <1>8, <3>2
      <4>2. cl[c].entry.gen < hl[h].gen  BY <1>3, <1>4, <3>1, <4>1 DEF Before
      <4>3. cl' = cl /\ cpc' = cpc /\ store'[cl[c].id].gen = hl[h].gen  BY <1>1, <1>2, <1>6, <3>2
      <4> QED BY <4>1, <4>2, <4>3 DEF Before
    <3>3. CASE cl[c].id # i
      BY <1>1, <1>6, <3>1, <3>3 DEF CopyIsCurrent, Before
    <3> QED BY <3>2, <3>3
  <2> QED BY <1>1, <2>1, <2>2, <2>3, <2>4 DEF WithinGen
<1> QED BY <1>1, <1>2, <1>3, <1>4, <1>9, <1>10 DEF i, p

\* The entries of the ids in S change, those of others stay, and no coroutine moves on but
\* those that drop what they used.
Changes(S) ==
  /\ \A i \in Interrupts \ S : store'[i] = store[i]
  /\ HandlersGoOn /\ CallersGoOn /\ lastGen' = lastGen

\* A change keeps the order if it does so for the ids it changes.
LEMMA ChangeIsOrderly ==
  ASSUME TypeInv, Orderly, NEW S \in SUBSET Interrupts, Changes(S),
         \A h \in Handlers : hpc[h] \in {"lock", "planned"} /\ hl[h].id \in S =>
            store'[hl[h].id].status # "waiting",
         \A h \in Handlers : hpc'[h] = "persisting" /\ hl[h].id \in S =>
            /\ store'[hl[h].id].gen = store[hl[h].id].gen
            /\ store'[hl[h].id].claim # Nobody => store'[hl[h].id].wait # "persisted",
         \A c \in Callers : Using(c)' /\ cl[c].id \in S =>
            cpc[c] = "dispatching" /\ Before(c, store'[cl[c].id])
  PROVE  Orderly'
<1> USE DEF Orderly
<1>1. /\ HandlersGoOn /\ CallersGoOn /\ lastGen' = lastGen
      /\ \A i \in Interrupts : i \notin S => store'[i] = store[i]
  BY DEF Changes
<1>2. OnePause' /\ WithinGen'
  BY <1>1 DEF OnePause, HandlersGoOn, WithinGen
<1>3. AloneBeforeStore'
  <2> SUFFICES ASSUME NEW h \in Handlers, hpc'[h] \in {"lock", "planned"}
               PROVE  /\ store'[hl'[h].id].status # "waiting"
                      /\ \A c \in Callers : Using(c)' /\ cl'[c].id = hl'[h].id =>
                           cpc'[c] = "dispatching" /\ cl'[c].child = h
    BY DEF AloneBeforeStore
  <2>1. hl'[h].id = hl[h].id /\ hpc[h] \in {"lock", "planned"} /\ hl[h].id \in Interrupts /\ h # Nobody
    BY <1>1, Suspended DEF HandlersGoOn, InPause
  <2>2. store'[hl'[h].id].status # "waiting"
    BY <1>1, <2>1 DEF AloneBeforeStore
  <2>3. ASSUME NEW c \in Callers, Using(c)', cl'[c].id = hl'[h].id
        PROVE  cpc'[c] = "dispatching" /\ cl'[c].child = h
    BY <1>1, <2>1, <2>3 DEF CallersGoOn, AloneBeforeStore, Using
  <2> QED BY <2>2, <2>3
<1>4. PreviousIsSettled'
  <2> SUFFICES ASSUME NEW h \in Handlers, hpc'[h] = "persisting"
               PROVE  /\ store'[hl'[h].id].gen = hl'[h].gen /\ hl'[h].prev.gen < hl'[h].gen
                      /\ hl'[h].prev.status # "waiting"
                      /\ store'[hl'[h].id].claim # Nobody => store'[hl'[h].id].wait # "persisted"
                      /\ \A c \in Callers : cpc'[c] = "dispatching" /\ cl'[c].id = hl'[h].id =>
                           cl'[c].entry.gen = hl'[h].gen \/ Before(c, hl[h].prev)'
    BY DEF PreviousIsSettled
  <2>1. hl'[h] = hl[h] /\ hpc[h] = "persisting" /\ hl[h].id \in Interrupts
    BY <1>1, Suspended DEF HandlersGoOn, InPause
  <2>2. ASSUME NEW c \in Callers, cpc'[c] = "dispatching", cl'[c].id = hl'[h].id
        PROVE  cl'[c].entry.gen = hl'[h].gen \/ Before(c, hl[h].prev)'
    BY <1>1, <2>1, <2>2 DEF CallersGoOn, PreviousIsSettled, Using, Before
  <2> QED BY <1>1, <2>1, <2>2 DEF PreviousIsSettled
<1>5. CopyIsCurrent'
  <2> SUFFICES ASSUME NEW c \in Callers, Using(c)'
               PROVE  /\ cpc'[c] \in {"accepted", "dispatched"} =>
                           /\ store'[cl'[c].id].status = "waiting" /\ store'[cl'[c].id].claim = cl'[c].req
                           /\ store'[cl'[c].id].gen = cl'[c].entry.gen
                           /\ cl'[c].entry.status = "waiting" /\ cl'[c].entry.claim = cl'[c].req
                      /\ cpc'[c] = "resuming" =>
                           store'[cl'[c].id].status = "resumed" /\ store'[cl'[c].id].gen = cl'[c].entry.gen
                      /\ cpc'[c] = "dispatching" => Before(c, store[cl[c].id])'
    BY DEF CopyIsCurrent, Using
  <2>1. cpc'[c] = cpc[c] /\ cl'[c].id = cl[c].id /\ cl'[c].req = cl[c].req /\ cl'[c].entry = cl[c].entry
    BY <1>1 DEF CallersGoOn
  <2>2. cl[c].id \in Interrupts
    BY <2>1, Suspended DEF Using
  <2>3. CASE cl[c].id \in S
    BY <2>1, <2>3 DEF Before
  <2>4. CASE cl[c].id \notin S
    BY <1>1, <2>1, <2>2, <2>4 DEF CopyIsCurrent, Before
  <2> QED BY <2>3, <2>4
<1> QED BY <1>2, <1>3, <1>4, <1>5

LEMMA ReturnGoesOn ==
  ASSUME TypeInv, NEW h \in Handlers, NEW outcome \in {"done", "failed"}, Return(h, outcome)
  PROVE  HandlersGoOn /\ hpc'[h] = outcome /\ hl'[h].id = Nobody
<1>1. [FreshHandler EXCEPT !.parent = hl[h].parent].id = Nobody
  BY DEF FreshHandler
<1> QED BY <1>1 DEF Return, HandlersGoOn, TypeInv, TypeOK

LEMMA CollectGoesOn ==
  ASSUME TypeInv, NEW c \in Callers, Collect(c)
  PROVE  HandlersGoOn
<1>1. FreshHandler.id = Nobody  BY DEF FreshHandler
<1> QED BY <1>1 DEF Collect, HandlersGoOn, TypeInv, TypeOK

LEMMA CallerLeaves ==
  ASSUME TypeInv, NEW c \in Callers, NEW pc \in {"idle", "barrier", "completing", "done", "raised"},
         cpc' = [cpc EXCEPT ![c] = pc],
         \A d \in Callers : d # c => cl'[d] = cl[d]
  PROVE  CallersGoOn /\ ~Using(c)'
<1> QED BY DEF CallersGoOn, Using, TypeInv, TypeOK

\* The snapshot could not be written: pause_for withdraws its wait.
LEMMA WithdrawingIsOrderly ==
  ASSUME Inv, Orderly, NEW h \in Handlers, PausePersistFails(h), OwnsBoundary(h)
  PROVE  /\ Orderly'
         /\ hl[h].id \in Interrupts
         /\ store' = [store EXCEPT ![hl[h].id] = hl[h].prev]
         /\ store[hl[h].id].status = "waiting" /\ store[hl[h].id].claim = Nobody
         /\ hl[h].prev.status # "waiting" /\ hl[h].prev.gen < store[hl[h].id].gen
         /\ hl[h].prev.gen \in 0 .. MaxGen
         /\ UNCHANGED dispatched
<1> DEFINE i == hl[h].id
           p == hl[h].prev
<1> USE DEF Orderly, Inv
<1>1. /\ hpc[h] = "persisting" /\ store' = [store EXCEPT ![i] = p]
      /\ Return(h, "failed") /\ UNCHANGED <<lastGen, cpc, cl, dispatched>>
  BY DEF PausePersistFails, callerVars
<1>2. i \in Interrupts /\ i # Nobody /\ p \in Entry /\ p.gen \in Nat /\ hl[h].gen \in Nat /\ lastGen \in Nat
  BY <1>1, Suspended DEF InPause
<1>3. /\ store[i].status = "waiting" /\ store[i].wait = "persisted" /\ store[i].gen = hl[h].gen
  BY DEF OwnsBoundary
<1>4. /\ store[i].claim = Nobody /\ p.status # "waiting" /\ p.gen < hl[h].gen
      /\ hl[h].gen <= lastGen /\ lastGen <= MaxGen
  BY <1>1, <1>3 DEF PreviousIsSettled, Exclusive, ClockAhead, WithinGen
<1>5. p.gen \in 0 .. MaxGen  BY <1>2, <1>4, InterruptsAssumption
<1>6. store'[i] = p /\ \A j \in Interrupts : j # i => store'[j] = store[j]
  BY <1>1, <1>2 DEF TypeInv, TypeOK
<1>7. HandlersGoOn /\ hpc'[h] = "failed"  BY <1>1, ReturnGoesOn
<1>8. CallersGoOn  BY <1>1 DEF CallersGoOn, Using
<1>9. \A c \in Callers : Using(c) /\ cl[c].id = i => cpc[c] = "dispatching" /\ Before(c, p)
  <2> SUFFICES ASSUME NEW c \in Callers, Using(c), cl[c].id = i
               PROVE  cpc[c] = "dispatching" /\ Before(c, p)
    OBVIOUS
  <2>1. cl[c].req # Nobody  BY Suspended
  <2>2. cpc[c] = "dispatching"  BY <1>3, <1>4, <2>1 DEF Using, CopyIsCurrent
  <2>3. Before(c, store[i])  BY <2>2 DEF CopyIsCurrent
  <2>4. cl[c].entry.gen < hl[h].gen /\ cl[c].entry.gen \in Nat  BY <1>3, <2>3, Suspended DEF Before
  <2> QED BY <1>1, <1>2, <2>2, <2>4 DEF PreviousIsSettled
<1>10. \A k \in Handlers : k # h => hl[k].id # i  BY <1>2 DEF OnePause
<1> HIDE DEF i, p
<1>11. Orderly'
  <2>1. Changes({i})  BY <1>1, <1>6, <1>7, <1>8 DEF Changes
  <2>2. \A k \in Handlers : hpc[k] \in {"lock", "planned"} => hl[k].id # i
    BY <1>1, <1>10
  <2>3. \A k \in Handlers : hpc'[k] = "persisting" => hl[k].id # i
    BY <1>7, <1>10
  <2>4. \A c \in Callers : Using(c)' /\ cl[c].id \in {i} =>
          cpc[c] = "dispatching" /\ Before(c, store'[cl[c].id])
    BY <1>1, <1>6, <1>9 DEF Using, Before
  <2> QED BY <1>2, <2>1, <2>2, <2>3, <2>4, ChangeIsOrderly
<1> QED BY <1>1, <1>2, <1>3, <1>4, <1>5, <1>11 DEF i, p

\* c writes its copy e: it claims an open wait, keeps its claim, or resumes its wait.
Writes(c, e) ==
  /\ cl[c].id \in Interrupts /\ StoreCopy(c, e)
  /\ UNCHANGED <<handlerVars, dispatched>>
  /\ store[cl[c].id].status = "waiting" /\ e.gen = store[cl[c].id].gen
  /\ \/ cpc[c] = "barrier" /\ store[cl[c].id].claim = Nobody
     \/ cpc[c] \in {"accepted", "dispatched"} /\ store[cl[c].id].claim # Nobody
  /\ \/ /\ cpc' \in {[cpc EXCEPT ![c] = "accepted"], [cpc EXCEPT ![c] = "dispatched"]}
        /\ e.status = "waiting" /\ e.claim = cl[c].req /\ e.wait # "persisted"
     \/ /\ cpc' = [cpc EXCEPT ![c] = "resuming"]
        /\ e.status = "resumed" /\ e.claim = Nobody

LEMMA CopiesWrite ==
  ASSUME TypeInv, Orderly, NEW c \in Callers,
         ContinueClaim(c) \/ ContinueDispatched(c) \/ ContinueResumed(c)
  PROVE  \E e : Writes(c, e)
<1> USE DEF Orderly
<1>1. cl[c].id \in Interrupts /\ cl[c].entry \in Entry /\ store[cl[c].id] \in Entry /\ cl[c].req # Nobody
  BY Suspended DEF ContinueClaim, ThroughBarrier, ContinueDispatched, ContinueResumed, Using
<1>2. \A e \in Entry : /\ Resumed(e).gen = e.gen /\ Resumed(e).status = "resumed"
                       /\ Resumed(e).claim = Nobody
  BY DEF Resumed, Entry
<1>3. \A s : \A e \in Entry : /\ WithRecord(e, c, s).gen = e.gen /\ WithRecord(e, c, s).claim = e.claim
                          /\ WithRecord(e, c, s).status = e.status /\ WithRecord(e, c, s).wait = s
  BY DEF WithRecord, Entry
<1>4. CASE ContinueClaim(c)
  <2>1. /\ cpc[c] = "barrier" /\ UNCHANGED <<handlerVars, dispatched>>
        /\ ~Refused(c) /\ ~Replayed(c)
    BY <1>4 DEF ContinueClaim, Entitled, ThroughBarrier
  <2>2. store[cl[c].id].claim = Nobody  BY <2>1 DEF Refused, Replayed
  <2>3. store[cl[c].id].status = "waiting"  BY <2>1, <2>2 DEF Refused, Replayed
  <2>4. /\ Counted(c).gen = store[cl[c].id].gen /\ Counted(c).claim = cl[c].req
        /\ Counted(c).status = "waiting"
    BY <1>1, <2>3 DEF Counted, Entry
  <2>5. Counted(c) \in Entry  BY <1>1, EntriesTyped
  <2>6. CASE StoreCopy(c, Resumed(Counted(c))) /\ cpc' = [cpc EXCEPT ![c] = "resuming"]
    <3> DEFINE e == Resumed(Counted(c))
    <3>1. e.gen = store[cl[c].id].gen /\ e.status = "resumed" /\ e.claim = Nobody
      BY <1>2, <2>4, <2>5
    <3> HIDE DEF e
    <3> QED BY <1>1, <2>1, <2>2, <2>3, <2>6, <3>1 DEF Writes, e
  <2>7. ASSUME NEW s \in {"accepted", "dispatched"},
               StoreCopy(c, WithRecord(Counted(c), c, s)), cpc' = [cpc EXCEPT ![c] = s]
        PROVE  \E e : Writes(c, e)
    <3> DEFINE e == WithRecord(Counted(c), c, s)
    <3>1. e.gen = store[cl[c].id].gen /\ e.status = "waiting" /\ e.claim = cl[c].req /\ e.wait # "persisted"
      BY <1>3, <2>4, <2>5
    <3>2. StoreCopy(c, e)  BY <2>7
    <3> HIDE DEF e
    <3> QED BY <1>1, <2>1, <2>2, <2>3, <2>7, <3>1, <3>2 DEF Writes
  <2> QED BY <1>4, <2>6, <2>7 DEF ContinueClaim
<1>5. CASE ContinueDispatched(c) \/ ContinueResumed(c)
  <2>1. cpc[c] \in {"accepted", "dispatched"} /\ UNCHANGED <<handlerVars, dispatched>>
    BY <1>5 DEF ContinueDispatched, ContinueResumed
  <2>2. /\ store[cl[c].id].status = "waiting" /\ store[cl[c].id].claim = cl[c].req
        /\ store[cl[c].id].gen = cl[c].entry.gen
        /\ cl[c].entry.status = "waiting" /\ cl[c].entry.claim = cl[c].req
    BY <2>1 DEF CopyIsCurrent
  <2>3. CASE ContinueDispatched(c)
    <3> DEFINE e == WithRecord(cl[c].entry, c, "dispatched")
    <3>1. e.gen = store[cl[c].id].gen /\ e.status = "waiting" /\ e.claim = cl[c].req /\ e.wait # "persisted"
      BY <1>1, <1>3, <2>2
    <3>2. StoreCopy(c, e) /\ cpc' = [cpc EXCEPT ![c] = "dispatched"]  BY <2>3 DEF ContinueDispatched
    <3> HIDE DEF e
    <3> QED BY <1>1, <2>1, <2>2, <3>1, <3>2 DEF Writes
  <2>4. CASE ContinueResumed(c)
    <3> DEFINE e == Resumed(cl[c].entry)
    <3>1. e.gen = store[cl[c].id].gen /\ e.status = "resumed" /\ e.claim = Nobody
      BY <1>1, <1>2, <2>2
    <3>2. StoreCopy(c, e) /\ cpc' = [cpc EXCEPT ![c] = "resuming"]  BY <2>4 DEF ContinueResumed
    <3> HIDE DEF e
    <3> QED BY <1>1, <2>1, <2>2, <3>1, <3>2 DEF Writes
  <2> QED BY <1>5, <2>3, <2>4
<1> QED BY <1>4, <1>5

LEMMA WritingIsOrderly ==
  ASSUME Inv, Orderly, NEW c \in Callers, NEW e, Writes(c, e)
  PROVE  Orderly'
<1> DEFINE i == cl[c].id
<1> USE DEF Orderly, Inv
<1>1. /\ i \in Interrupts /\ e.gen = store[i].gen /\ store[i].status = "waiting" /\ store[i].gen \in Nat
      /\ store'[i] = e /\ \A j \in Interrupts : j # i => store'[j] = store[j]
      /\ UNCHANGED <<lastGen, hpc, hl>>
  BY Suspended DEF Writes, StoreCopy, handlerVars, TypeInv, TypeOK
<1>2. /\ cl'[c].entry = e /\ cl'[c].id = i /\ cl'[c].req = cl[c].req
      /\ \A d \in Callers : d # c => cl'[d] = cl[d] /\ cpc'[d] = cpc[d]
      /\ \A d \in Callers : cl'[d].id = cl[d].id /\ cl'[d].child = cl[d].child
  BY DEF Writes, StoreCopy, TypeInv, TypeOK, CallerLocals
<1>3. \/ cpc'[c] \in {"accepted", "dispatched"} /\ e.status = "waiting" /\ e.claim = cl[c].req /\ e.wait # "persisted"
      \/ cpc'[c] = "resuming" /\ e.status = "resumed" /\ e.claim = Nobody
  BY DEF Writes, TypeInv, TypeOK
<1>4. ASSUME NEW d \in Callers, d # c, Using(d), cl[d].id = i
      PROVE  cpc[d] = "dispatching" /\ cl[d].entry.gen < e.gen
  <2>1. cpc[d] # "resuming"  BY <1>1, <1>4 DEF CopyIsCurrent
  <2>2. cpc[d] \notin {"accepted", "dispatched"}
    <3> SUFFICES ASSUME cpc[d] \in {"accepted", "dispatched"} PROVE FALSE  OBVIOUS
    <3>1. store[i].claim = cl[d].req /\ store[i].gen = cl[d].entry.gen /\ cl[d].req # Nobody
      BY <1>4, Suspended DEF CopyIsCurrent
    <3>2. cpc[c] \in {"accepted", "dispatched"}  BY <3>1 DEF Writes
    <3>3. store[i].gen = cl[c].entry.gen  BY <3>2 DEF CopyIsCurrent
    <3> QED BY <1>4, <3>1, <3>2, <3>3 DEF Exclusive, OwedOnce, Owes, OwesOf
  <2>3. cpc[d] = "dispatching"  BY <1>4, <2>1, <2>2 DEF Using
  <2>4. Before(d, store[i])  BY <1>4, <2>3 DEF CopyIsCurrent
  <2> QED BY <1>1, <2>3, <2>4 DEF Before
<1>5. \A h \in Handlers : hpc[h] \in {"lock", "planned"} => hl[h].id # i
  BY <1>1 DEF AloneBeforeStore
<1>6. \A h \in Handlers : hpc[h] \in {"lock"} \cup InPause => hl[h].id \in Interrupts
  BY Suspended
<1>7. cpc[c] # "dispatching" /\ cpc'[c] # "dispatching"
  BY <1>3 DEF Writes
<1> HIDE DEF i
<1>8. OnePause' /\ WithinGen'  BY <1>1 DEF OnePause, WithinGen
<1>9. AloneBeforeStore'
  <2> SUFFICES ASSUME NEW h \in Handlers, hpc[h] \in {"lock", "planned"}
               PROVE  /\ store'[hl[h].id].status # "waiting"
                      /\ \A d \in Callers : Using(d)' /\ cl'[d].id = hl[h].id =>
                           cpc'[d] = "dispatching" /\ cl'[d].child = h
    BY <1>1 DEF AloneBeforeStore
  <2>1. hl[h].id # i /\ hl[h].id \in Interrupts  BY <1>5, <1>6 DEF InPause
  <2>2. \A d \in Callers : Using(d)' /\ cl'[d].id = hl[h].id => d # c /\ Using(d)
    BY <1>2, <2>1 DEF Using
  <2> QED BY <1>1, <1>2, <2>1, <2>2 DEF AloneBeforeStore
<1>10. PreviousIsSettled'
  <2> SUFFICES ASSUME NEW h \in Handlers, hpc[h] = "persisting"
               PROVE  /\ store'[hl[h].id].gen = hl[h].gen /\ hl[h].prev.gen < hl[h].gen
                      /\ hl[h].prev.status # "waiting"
                      /\ store'[hl[h].id].claim # Nobody => store'[hl[h].id].wait # "persisted"
                      /\ \A d \in Callers : cpc'[d] = "dispatching" /\ cl'[d].id = hl[h].id =>
                           cl'[d].entry.gen = hl[h].gen \/ Before(d, hl[h].prev)'
    BY <1>1 DEF PreviousIsSettled
  <2>1. hl[h].id \in Interrupts  BY <1>6 DEF InPause
  <2>2. /\ store'[hl[h].id].gen = hl[h].gen /\ hl[h].prev.gen < hl[h].gen
        /\ hl[h].prev.status # "waiting"
    BY <1>1, <2>1 DEF PreviousIsSettled
  <2>3. store'[hl[h].id].claim # Nobody => store'[hl[h].id].wait # "persisted"
    BY <1>1, <1>3, <2>1 DEF PreviousIsSettled
  <2>4. ASSUME NEW d \in Callers, cpc'[d] = "dispatching", cl'[d].id = hl[h].id
        PROVE  cl'[d].entry.gen = hl[h].gen \/ Before(d, hl[h].prev)'
    BY <1>1, <1>2, <1>7, <2>4 DEF PreviousIsSettled, Before
  <2> QED BY <2>2, <2>3, <2>4
<1>11. CopyIsCurrent'
  <2> SUFFICES ASSUME NEW d \in Callers, Using(d)'
               PROVE  /\ cpc'[d] \in {"accepted", "dispatched"} =>
                           /\ store'[cl'[d].id].status = "waiting" /\ store'[cl'[d].id].claim = cl'[d].req
                           /\ store'[cl'[d].id].gen = cl'[d].entry.gen
                           /\ cl'[d].entry.status = "waiting" /\ cl'[d].entry.claim = cl'[d].req
                      /\ cpc'[d] = "resuming" =>
                           store'[cl'[d].id].status = "resumed" /\ store'[cl'[d].id].gen = cl'[d].entry.gen
                      /\ cpc'[d] = "dispatching" => Before(d, store[cl[d].id])'
    BY DEF CopyIsCurrent, Using
  <2>1. CASE d = c  BY <1>1, <1>2, <1>3, <2>1
  <2>2. CASE d # c /\ cl[d].id = i
    <3>1. cl'[d] = cl[d] /\ cpc'[d] = cpc[d] /\ Using(d)  BY <1>2, <2>2 DEF Using
    <3>2. cpc[d] = "dispatching" /\ cl[d].entry.gen < e.gen  BY <1>4, <2>2, <3>1
    <3> QED BY <1>1, <2>2, <3>1, <3>2 DEF Before
  <2>3. CASE d # c /\ cl[d].id # i
    <3>1. cl'[d] = cl[d] /\ cpc'[d] = cpc[d] /\ Using(d)  BY <1>2, <2>3 DEF Using
    <3>2. cl[d].id \in Interrupts  BY <3>1, Suspended
    <3>3. store'[cl[d].id] = store[cl[d].id]  BY <1>1, <2>3, <3>2
    <3> QED BY <3>1, <3>3 DEF CopyIsCurrent, Before
  <2> QED BY <2>1, <2>2, <2>3
<1> QED BY <1>8, <1>9, <1>10, <1>11

\* The resume signal is dispatched.
LEMMA DispatchingIsOrderly ==
  ASSUME Inv, Orderly, NEW c \in Callers, ContinueDispatch(c),
         lifecycle = "open" \/ closer.started
  PROVE  /\ Orderly'
         /\ cl[c].id \in Interrupts
         /\ store[cl[c].id].status = "resumed" /\ store[cl[c].id].gen = cl[c].entry.gen
         /\ ~Settled(cl[c].id, cl[c].entry.gen)
         /\ dispatched' = dispatched \cup {Dispatch(c)} /\ UNCHANGED store
<1> USE DEF Orderly, Inv
<1>1. /\ cpc[c] = "resuming" /\ cpc' = [cpc EXCEPT ![c] = "dispatching"]
      /\ dispatched' = dispatched \cup {Dispatch(c)}
      /\ UNCHANGED <<store, lastGen, hpc, hl, cl>>
  BY DEF ContinueDispatch, handlerVars
<1>2. /\ cpc'[c] = "dispatching" /\ \A d \in Callers : d # c => cpc'[d] = cpc[d]
      /\ \A d \in Callers : Using(d)' <=> Using(d)
  BY <1>1 DEF Using, TypeInv, TypeOK
<1>3. /\ cl[c].id \in Interrupts /\ store[cl[c].id].status = "resumed"
      /\ store[cl[c].id].gen = cl[c].entry.gen
  BY <1>1, Suspended DEF Using, CopyIsCurrent
<1>4. ~Settled(cl[c].id, cl[c].entry.gen)
  BY <1>1 DEF Exclusive, OwedOnce, Owes
<1>5. OnePause' /\ WithinGen'  BY <1>1 DEF OnePause, WithinGen
<1>6. AloneBeforeStore'
  <2>1. \A h \in Handlers : hpc[h] \in {"lock", "planned"} => hl[h].id # cl[c].id
    BY <1>1 DEF AloneBeforeStore, Using
  <2> QED BY <1>1, <1>2, <2>1 DEF AloneBeforeStore
<1>7. PreviousIsSettled'
  <2>1. \A h \in Handlers : hpc[h] = "persisting" /\ hl[h].id = cl[c].id => cl[c].entry.gen = hl[h].gen
    BY <1>3 DEF PreviousIsSettled
  <2> QED BY <1>1, <1>2, <2>1 DEF PreviousIsSettled, Before
<1>8. CopyIsCurrent'
  BY <1>1, <1>2, <1>3 DEF CopyIsCurrent, Before
<1> QED BY <1>1, <1>3, <1>4, <1>5, <1>6, <1>7, <1>8

\* An event or a close settles waits that nobody has claimed.
SettledAs(e, s, w) == [e EXCEPT !.status = s, !.wait = w]

LEMMA SettlingIsOrderly ==
  ASSUME Inv, Orderly, NEW S \in SUBSET Unclaimed(store), NEW s \in {"resumed", "cancelled"},
         NEW w, w # "persisted",
         store' = [i \in Interrupts |->
                     IF i \in S THEN SettledAs(store[i], s, w) ELSE store[i]],
         UNCHANGED <<handlerVars, callerVars>>
  PROVE  Orderly'
<1> DEFINE f(e) == SettledAs(e, s, w)
<1> USE DEF Orderly, Inv
<1>1. \A i \in S : i \in Interrupts /\ store[i].status = "waiting" /\ store[i].claim = Nobody
  BY DEF Unclaimed, Waiting
<1>2. \A i \in Interrupts : /\ f(store[i]).status = s /\ f(store[i]).wait = w
                            /\ f(store[i]).gen = store[i].gen
  BY DEF TypeInv, TypeOK, Entry, SettledAs
<1>3. \A i \in Interrupts : store'[i] = IF i \in S THEN f(store[i]) ELSE store[i]
  OBVIOUS
<1> HIDE DEF f
<1>4. Changes(S)
  BY <1>3 DEF Changes, HandlersGoOn, CallersGoOn, Using, handlerVars, callerVars
<1>5. S \in SUBSET Interrupts  BY <1>1
<1>6. \A c \in Callers : Using(c) /\ cl[c].id \in S => cpc[c] = "dispatching" /\ Before(c, store[cl[c].id])
  <2> SUFFICES ASSUME NEW c \in Callers, Using(c), cl[c].id \in S
               PROVE  cpc[c] = "dispatching" /\ Before(c, store[cl[c].id])
    OBVIOUS
  <2>1. cl[c].req # Nobody  BY Suspended
  <2> QED BY <1>1, <2>1 DEF Using, CopyIsCurrent
<1>7. \A h \in Handlers : hpc[h] \in {"lock", "planned"} /\ hl[h].id \in S =>
        store'[hl[h].id].status # "waiting"
  BY <1>2, <1>3, <1>5
<1>8. \A h \in Handlers : hpc'[h] = "persisting" /\ hl[h].id \in S =>
        /\ store'[hl[h].id].gen = store[hl[h].id].gen
        /\ store'[hl[h].id].claim # Nobody => store'[hl[h].id].wait # "persisted"
  BY <1>2, <1>3, <1>5
<1>9. \A c \in Callers : Using(c)' /\ cl[c].id \in S =>
        cpc[c] = "dispatching" /\ Before(c, store'[cl[c].id])
  <2> SUFFICES ASSUME NEW c \in Callers, Using(c), cl[c].id \in S
               PROVE  cpc[c] = "dispatching" /\ Before(c, store'[cl[c].id])
    BY DEF Using, callerVars
  <2>1. cpc[c] = "dispatching" /\ cl[c].entry.gen < store[cl[c].id].gen
    BY <1>1, <1>6 DEF Before
  <2> QED BY <1>2, <1>3, <1>5, <2>1 DEF Before
<1> QED BY <1>4, <1>5, <1>7, <1>8, <1>9, ChangeIsOrderly

\* A dispatch failed: the wait of a call with a request id is open again.
Reopens(c) ==
  \E e : /\ store' = [store EXCEPT ![cl[c].id] = e]
         /\ e.status = "waiting" /\ e.claim = Nobody /\ e.gen = store[cl[c].id].gen

LEMMA FailingIsOrderly ==
  ASSUME Inv, Orderly, NEW c \in Callers, ContinueFails(c)
  PROVE  /\ Orderly'
         /\ cl[c].id \in Interrupts /\ cl[c].entry.gen <= store[cl[c].id].gen
         /\ Dispatch(c) \in dispatched /\ dispatched' = dispatched \ {Dispatch(c)}
         /\ \/ SameWaits
            \/ /\ Reopens(c) /\ store[cl[c].id].status = "resumed"
               /\ store[cl[c].id].gen = cl[c].entry.gen
<1> DEFINE i == cl[c].id
           e == store[i]
           reqs == [e.reqs EXCEPT ![cl[c].req] =
                      [cl[c].entry.reqs[cl[c].req] EXCEPT !.state = "dispatch_failed"]]
           failed == [e EXCEPT !.reqs = reqs]
           reopened == [e EXCEPT !.reqs = reqs, !.status = "waiting", !.claim = Nobody,
                                 !.wait = "dispatch_failed"]
<1> USE DEF Orderly, Inv
<1>1. /\ cpc[c] = "dispatching" /\ cpc' = [cpc EXCEPT ![c] = "raised"]
      /\ cl' = [cl EXCEPT ![c] = FreshCaller]
      /\ cl[c].child # Nobody => hpc[cl[c].child] \in {"done", "failed"}
      /\ dispatched' = dispatched \ {Dispatch(c)}
      /\ UNCHANGED lastGen /\ Collect(c)
  BY DEF ContinueFails
<1>2. /\ i \in Interrupts /\ e \in Entry /\ e.gen \in Nat /\ cl[c].entry.gen \in Nat
      /\ Before(c, e)
  BY <1>1, Suspended DEF Using, CopyIsCurrent
<1>3. /\ failed.gen = e.gen /\ failed.status = e.status /\ failed.claim = e.claim /\ failed.wait = e.wait
      /\ reopened.gen = e.gen /\ reopened.status = "waiting" /\ reopened.claim = Nobody
  BY <1>2 DEF Entry
<1>4. \/ store' = store \/ store' = [store EXCEPT ![i] = failed]
      \/ store' = [store EXCEPT ![i] = reopened] /\ e.gen = cl[c].entry.gen
  BY DEF ContinueFails, SameGeneration
<1> HIDE DEF failed, reopened
<1>5. HandlersGoOn  BY <1>1, CollectGoesOn
<1>6. CallersGoOn /\ ~Using(c)'  BY <1>1, CallerLeaves DEF TypeInv, TypeOK
<1>7. Dispatch(c) \in dispatched  BY <1>1 DEF Exclusive, DispatchStands
<1>8. cl[c].entry.gen <= e.gen  BY <1>2 DEF Before
<1>9. CASE store' = store \/ store' = [store EXCEPT ![i] = failed]
  <2>1. SameWaits  BY <1>2, <1>3, <1>9 DEF SameWaits, TypeInv, TypeOK
  <2>2. Orderly'  BY <1>1, <1>5, <1>6, <2>1, GoingOnIsOrderly DEF WithinGen
  <2> QED BY <1>1, <1>2, <1>7, <1>8, <2>1, <2>2
<1>10. CASE store' = [store EXCEPT ![i] = reopened] /\ e.gen = cl[c].entry.gen
  <2>1. e.status = "resumed"  BY <1>2, <1>10 DEF Before
  <2>2. Reopens(c)  BY <1>3, <1>10 DEF Reopens
  <2>3. store'[i] = reopened /\ \A j \in Interrupts : j # i => store'[j] = store[j]
    BY <1>2, <1>10 DEF TypeInv, TypeOK
  <2>4. \A h \in Handlers : hpc[h] \in {"lock", "planned"} => hl[h].id # i
    <3> SUFFICES ASSUME NEW h \in Handlers, hpc[h] \in {"lock", "planned"}, hl[h].id = i PROVE FALSE
      OBVIOUS
    <3>1. cl[c].child = h /\ h # Nobody  BY <1>1, Suspended DEF AloneBeforeStore, Using
    <3> QED BY <1>1, <3>1
  <2>5. ASSUME NEW d \in Callers, Using(d)', cl[d].id = i
        PROVE  cpc[d] = "dispatching" /\ cl[d].entry.gen < e.gen
    <3>1. d # c /\ Using(d)  BY <1>6, <2>5 DEF CallersGoOn, Using
    <3>2. cpc[d] \notin {"accepted", "dispatched"}  BY <2>1, <2>5 DEF CopyIsCurrent
    <3>3. Dispatch(c).id = i /\ Dispatch(c).gen = e.gen /\ Dispatch(c).by = c
      BY <1>10 DEF Dispatch
    <3>4. Settled(i, e.gen)  BY <1>7, <3>3 DEF Settled
    <3>5. cpc[d] # "resuming"
      BY <2>5, <3>4 DEF CopyIsCurrent, Exclusive, OwedOnce, Owes
    <3>6. cpc[d] = "dispatching"  BY <3>1, <3>2, <3>5 DEF Using
    <3>7. Dispatch(d) \in dispatched /\ Dispatch(d).id = i /\ Dispatch(d).by = d
          /\ Dispatch(d).gen = cl[d].entry.gen
      BY <2>5, <3>6 DEF Exclusive, DispatchStands, Dispatch
    <3>8. cl[d].entry.gen # e.gen
      BY <1>7, <3>1, <3>3, <3>7 DEF Exclusive, ResumedAtMostOnce
    <3> QED BY <2>5, <3>6, <3>8 DEF CopyIsCurrent, Before
  <2>6. Changes({i})  BY <1>1, <1>5, <1>6, <2>3 DEF Changes
  <2>7. \A d \in Callers : Using(d)' /\ cl[d].id \in {i} =>
          cpc[d] = "dispatching" /\ Before(d, store'[cl[d].id])
    BY <1>3, <2>3, <2>5 DEF Before
  <2> HIDE DEF i
  <2>8. Orderly'
    BY <1>2, <1>3, <2>3, <2>4, <2>6, <2>7, ChangeIsOrderly
  <2> QED BY <1>1, <1>2, <1>7, <1>8, <1>10, <2>1, <2>2, <2>8 DEF i
<1> QED BY <1>4, <1>9, <1>10

-----------------------------------------------------------------------------
(* The steps that no wait can tell *)

Silent == SameWaits /\ HandlersGoOn /\ CallersGoOn /\ WithinGen' /\ UNCHANGED dispatched

LEMMA EnvelopeIsSilent ==
  ASSUME TypeInv, NEW h \in Handlers, NEW wait, ApplyEnvelope(h, wait),
         wait = "persisted" => hpc[h] = "publishing"
  PROVE  SameWaits
<1> DEFINE i == hl[h].id
           f == [store[i] EXCEPT !.wait = wait]
<1>1. store' = store \/ store' = [store EXCEPT ![i] = f]
  BY DEF ApplyEnvelope
<1>2. i \in Interrupts =>
        f.gen = store[i].gen /\ f.status = store[i].status /\ f.claim = store[i].claim /\ f.wait = wait
  BY DEF TypeInv, TypeOK, Entry
<1> HIDE DEF f
<1> QED BY <1>1, <1>2 DEF SameWaits, TypeInv, TypeOK

LEMMA PausingIsSilent ==
  ASSUME TypeInv, WithinGen, NEW h \in Handlers,
         \/ PausePlan(h)
         \/ PausePersistFails(h) /\ ~OwnsBoundary(h)
         \/ PauseProceed(h) \/ PauseSuperseded(h) \/ PausePublished(h) \/ PausePublishFails(h)
         \/ PauseExposed(h) \/ PauseReturns(h) \/ PauseAborts(h) \/ HandlerCollected(h)
  PROVE  Silent
<1> USE DEF callerVars
<1>1. UNCHANGED callerVars /\ UNCHANGED dispatched
  BY DEF PauseProceed, PauseSuperseded, PausePublished, PausePublishFails, PauseExposed,
         PauseReturns, PauseAborts, HandlerCollected, PausePlan, PausePersistFails
<1>2. CallersGoOn
  BY <1>1 DEF CallersGoOn, Using
<1>3. SameWaits
  <2>1. CASE UNCHANGED store
    BY <2>1 DEF SameWaits
  <2>2. CASE PausePublished(h)
    BY <2>2, EnvelopeIsSilent DEF PausePublished
  <2>3. CASE PausePublishFails(h)
    BY <2>3, EnvelopeIsSilent DEF PausePublishFails
  <2>4. CASE PauseExposed(h)
    BY <2>4, EnvelopeIsSilent DEF PauseExposed
  <2> QED
    BY <2>1, <2>2, <2>3, <2>4
       DEF PauseProceed, PauseSuperseded, PauseReturns, PauseAborts, HandlerCollected,
           PausePlan, PausePersistFails
<1>4. HandlersGoOn /\ WithinGen'
  <2>1. ASSUME NEW outcome \in {"done", "failed"}, Return(h, outcome), UNCHANGED lastGen
        PROVE  HandlersGoOn /\ WithinGen'
    BY <2>1, ReturnGoesOn DEF WithinGen
  <2>2. CASE PausePlan(h)
    <3>1. CASE Return(h, "failed") /\ UNCHANGED lastGen
      BY <2>1, <3>1
    <3>2. CASE /\ lastGen < MaxGen /\ lastGen' = lastGen + 1
               /\ hl' = [hl EXCEPT ![h].gen = lastGen + 1]
               /\ hpc' = [hpc EXCEPT ![h] = "planned"]
      <4>1. hpc[h] = "lock"  BY <2>2 DEF PausePlan
      <4>2. [hl[h] EXCEPT !.gen = lastGen + 1].id = hl[h].id
        BY DEF TypeInv, TypeOK, HandlerLocals
      <4>3. hl' = [hl EXCEPT ![h] = [hl[h] EXCEPT !.gen = lastGen + 1]]  BY <3>2
      <4>4. HandlersGoOn  BY <3>2, <4>1, <4>2, <4>3 DEF HandlersGoOn, TypeInv, TypeOK
      <4>5. WithinGen'  BY <3>2, InterruptsAssumption DEF WithinGen, TypeInv, TypeOK
      <4> QED BY <4>4, <4>5
    <3> QED BY <2>2, <3>1, <3>2 DEF PausePlan
  <2>3. CASE PauseProceed(h) \/ PausePublished(h) \/ PauseExposed(h)
    <3>1. hl' = hl /\ \A k \in Handlers : hpc'[k] = hpc[k] \/ hpc'[k] \in {"announcing", "publishing", "raising", "exposed"}
      BY <2>3 DEF PauseProceed, PausePublished, PauseExposed, TypeInv, TypeOK
    <3>2. UNCHANGED lastGen
      BY <2>3 DEF PauseProceed, PausePublished, PauseExposed
    <3> QED BY <3>1, <3>2 DEF HandlersGoOn, WithinGen
  <2>4. CASE HandlerCollected(h)
    BY <2>4 DEF HandlerCollected, HandlersGoOn, TypeInv, TypeOK, FreshHandler, WithinGen
  <2> QED
    BY <2>1, <2>2, <2>3, <2>4
       DEF PauseSuperseded, PausePublishFails, PauseReturns, PauseAborts, PausePersistFails
<1> QED BY <1>1, <1>2, <1>3, <1>4 DEF Silent

LEMMA ContinuingIsSilent ==
  ASSUME TypeInv, WithinGen, NEW c \in Callers,
         \/ ContinueAnswered(c) \/ ContinueReturns(c) \/ ContinueCompletes(c) \/ ContinueAborts(c)
         \/ ContinueDispatch(c) /\ ~(lifecycle = "open" \/ closer.started)
         \/ \E i \in Interrupts, r \in RequestKeys, v \in Values : ContinueCall(c, i, r, v)
  PROVE  Silent
<1>1. CASE \/ ContinueAnswered(c) \/ ContinueCompletes(c) \/ ContinueAborts(c)
           \/ \E i \in Interrupts, r \in RequestKeys, v \in Values : ContinueCall(c, i, r, v)
  <2>1. /\ \E pc \in {"idle", "barrier", "completing", "done", "raised"} : cpc' = [cpc EXCEPT ![c] = pc]
        /\ \E l : cl' = [cl EXCEPT ![c] = l]
    BY <1>1 DEF ContinueAnswered, ContinueCompletes, ContinueAborts, ContinueCall
  <2>2. CallersGoOn
    BY <2>1, CallerLeaves DEF TypeInv, TypeOK
  <2>3. UNCHANGED <<store, handlerVars, dispatched>>
    BY <1>1 DEF ContinueAnswered, ContinueCompletes, ContinueAborts, ContinueCall
  <2> QED BY <2>2, <2>3 DEF Silent, SameWaits, HandlersGoOn, WithinGen, handlerVars
<1>2. CASE ContinueDispatch(c) /\ ~(lifecycle = "open" \/ closer.started)
  <2>1. CallersGoOn
    BY <1>2 DEF ContinueDispatch, CallersGoOn, Using, TypeInv, TypeOK
  <2> QED
    BY <1>2, <2>1 DEF ContinueDispatch, Silent, SameWaits, HandlersGoOn, WithinGen, handlerVars
<1>3. CASE ContinueReturns(c)
  <2>1. HandlersGoOn
    BY <1>3, CollectGoesOn DEF ContinueReturns
  <2>2. SameWaits
    <3> DEFINE e == store[cl[c].id]
               w == IF SameGeneration(c) THEN "completed" ELSE e.wait
               reqs == [e.reqs EXCEPT ![cl[c].req] =
                          [cl[c].entry.reqs[cl[c].req] EXCEPT !.state = "completed"]]
               recorded == [e EXCEPT !.reqs = reqs, !.wait = w]
    <3>1. cl[c].id \in Interrupts /\ e \in Entry
      BY <1>3 DEF ContinueReturns, TypeInv, TypeOK, Engaged
    <3>2. store' = store \/ store' = [store EXCEPT ![cl[c].id] = recorded]
      BY <1>3 DEF ContinueReturns
    <3>3. w = e.wait \/ w = "completed"
      OBVIOUS
    <3> HIDE DEF w, reqs
    <3>4. recorded.gen = e.gen /\ recorded.status = e.status /\ recorded.claim = e.claim /\ recorded.wait = w
      BY <3>1 DEF Entry
    <3> HIDE DEF recorded
    <3> QED BY <3>1, <3>2, <3>3, <3>4 DEF SameWaits, TypeInv, TypeOK
  <2>3. CallersGoOn
    <3>1. /\ \E pc \in {"done", "completing"} : cpc' = [cpc EXCEPT ![c] = pc]
          /\ \E l : cl' = [cl EXCEPT ![c] = l]
      BY <1>3 DEF ContinueReturns
    <3> QED BY <3>1, CallerLeaves DEF TypeInv, TypeOK
  <2> QED BY <1>3, <2>1, <2>2, <2>3 DEF ContinueReturns, Silent, WithinGen
<1> QED BY <1>1, <1>2, <1>3

LEMMA ClosingIsSilent ==
  ASSUME TypeInv, WithinGen,
         \/ Seal \/ Unseal \/ CloseStep \/ UNCHANGED vars
         \/ \E policy \in {"error", "cancel"} : CloseCall(policy),
         ~CancelPending
  PROVE  Silent
<1>1. UNCHANGED <<store, handlerVars, callerVars, dispatched>>
  BY DEF Seal, Unseal, CloseStep, CloseCall, CloseSeal, DrainEnds, CloseLook, CloseFreeze,
         CloseFails, CloseFinish, vars
<1> QED BY <1>1 DEF Silent, SameWaits, HandlersGoOn, CallersGoOn, Using, WithinGen,
                    handlerVars, callerVars

-----------------------------------------------------------------------------
(* The invariant *)

\* An id in use is not absent.
LEMMA UsedIsOpened ==
  ASSUME TypeInv, Orderly, NeverOpened, NEW c \in Callers, Using(c)
  PROVE  store[cl[c].id].status # "absent"
<1>1. cl[c].id \in Interrupts /\ cl[c].entry.gen \in Nat  BY Suspended
<1>2. CASE cpc[c] # "dispatching"
  BY <1>2 DEF Orderly, CopyIsCurrent, Using
<1>3. CASE cpc[c] = "dispatching"
  <2>1. cl[c].entry.gen < store[cl[c].id].gen \/ store[cl[c].id].status = "resumed"
    BY <1>3 DEF Orderly, CopyIsCurrent, Before
  <2> QED BY <1>1, <2>1 DEF NeverOpened
<1> QED BY <1>2, <1>3

LEMMA MayPauseAlone ==
  ASSUME OneUseAtATime, TypeInv, Orderly, NeverOpened, NEW i \in Interrupts, NEW c, MayPause(i, c)
  PROVE  Undisturbed(i, c)
<1>1. CASE ~OverlappingPauses  BY <1>1 DEF MayPause
<1>2. CASE i \in Anonymous
  <2>1. store[i].status = "absent" /\ \A h \in Handlers : hl[h].id # i  BY <1>2 DEF MayPause
  <2>2. \A d \in Callers : Using(d) => cl[d].id # i  BY <2>1, UsedIsOpened
  <2> QED BY <2>1, <2>2 DEF Undisturbed, Using
<1> QED BY <1>1, <1>2 DEF OneUseAtATime

LEMMA CallsEnter ==
  ASSUME OneUseAtATime, TypeInv, Orderly, NeverOpened, NEW h \in Handlers, NEW i \in Interrupts,
         PauseCall(h, i) \/ \E c \in Callers : PauseAgainCall(h, c, i)
  PROVE  Enters(h, i) /\ UNCHANGED dispatched
<1>1. CASE PauseCall(h, i)
  <2>1. Undisturbed(i, Nobody)  BY <1>1, MayPauseAlone DEF PauseCall
  <2>2. \A c \in Callers : ~(Using(c) /\ cl[c].id = i)
    BY <2>1, InterruptsAssumption DEF Undisturbed, Using
  <2>3. hl'[h].id = i /\ \A k \in Handlers : k # h => hl'[k] = hl[k]
    BY <1>1 DEF PauseCall, TypeInv, TypeOK, FreshHandler
  <2>4. CallersGoOn  BY <1>1 DEF PauseCall, CallersGoOn, Using, callerVars
  <2> QED BY <1>1, <2>1, <2>2, <2>3, <2>4 DEF PauseCall, Enters, Undisturbed
<1>2. ASSUME NEW c \in Callers, PauseAgainCall(h, c, i) PROVE Enters(h, i) /\ UNCHANGED dispatched
  <2>1. Undisturbed(i, c)  BY <1>2, MayPauseAlone DEF PauseAgainCall
  <2>2. cpc[c] = "dispatching" /\ cl[c].child = Nobody /\ cpc' = cpc
        /\ cl' = [cl EXCEPT ![c] = [cl[c] EXCEPT !.child = h]]
    BY <1>2 DEF PauseAgainCall
  <2>3. LET l == [cl[c] EXCEPT !.child = h]
        IN  l.id = cl[c].id /\ l.req = cl[c].req /\ l.entry = cl[c].entry /\ l.child = h
    BY DEF TypeInv, TypeOK, CallerLocals
  <2>4. CallersGoOn  BY <2>2, <2>3 DEF CallersGoOn, Using, TypeInv, TypeOK
  <2>5. \A d \in Callers : Using(d) /\ cl[d].id = i => cpc[d] = "dispatching" /\ cl'[d].child = h
    <3>1. \A d \in Callers : Using(d) /\ cl[d].id = i => d = c
      BY <2>1 DEF Undisturbed, Using
    <3> QED BY <2>2, <2>3, <3>1 DEF TypeInv, TypeOK
  <2>6. \E n, from, parent : hl' = [hl EXCEPT ![h] =
          [FreshHandler EXCEPT !.id = i, !.parent = parent, !.from = from, !.fromCount = n]]
    BY <1>2, Zenon DEF PauseAgainCall
  <2>7. hl'[h].id = i /\ \A k \in Handlers : k # h => hl'[k] = hl[k]
    BY <2>6 DEF TypeInv, TypeOK, FreshHandler
  <2> QED BY <1>2, <2>1, <2>4, <2>5, <2>7 DEF PauseAgainCall, Enters, Undisturbed
<1> QED BY <1>1, <1>2

LEMMA AnsweringIsOrderly ==
  ASSUME Inv, Orderly, NEW S \in SUBSET Interrupts, EventResumes(S)
  PROVE  Orderly'
<1>1. S \cap Unclaimed(store) \in SUBSET Unclaimed(store)
  OBVIOUS
<1> QED BY <1>1, SettlingIsOrderly DEF EventResumes, SettledAs

LEMMA CancellingIsOrderly ==
  ASSUME Inv, Orderly, CancelPending, UNCHANGED <<handlerVars, callerVars>>
  PROVE  Orderly'
<1>1. Unclaimed(store) \in SUBSET Unclaimed(store)
  OBVIOUS
<1> QED BY <1>1, SettlingIsOrderly DEF CancelPending, SettledAs

LEMMA SilentIsOrderly == TypeInv /\ Orderly /\ Silent => Orderly'
BY GoingOnIsOrderly DEF Silent

LEMMA StepOrderly ==
  ASSUME OneUseAtATime
  PROVE  Inv /\ Orderly /\ NeverOpened /\ [Next]_vars => Orderly'
<1> SUFFICES ASSUME Inv, Orderly, NeverOpened, [Next]_vars PROVE Orderly'
  OBVIOUS
<1>0. TypeInv /\ WithinGen  BY DEF Inv, Orderly
<1>1. ASSUME NEW h \in Handlers, PauseStep(h) PROVE Orderly'
  <2>1. CASE PauseStore(h)  BY <2>1, StoringIsOrderly
  <2>2. CASE PausePersistFails(h) /\ OwnsBoundary(h)  BY <2>2, WithdrawingIsOrderly
  <2>3. CASE \/ PausePlan(h)
             \/ PausePersistFails(h) /\ ~OwnsBoundary(h)
             \/ PauseProceed(h) \/ PauseSuperseded(h) \/ PausePublished(h) \/ PausePublishFails(h)
             \/ PauseExposed(h) \/ PauseReturns(h) \/ PauseAborts(h) \/ HandlerCollected(h)
    <3>1. Silent  BY <1>0, <2>3, PausingIsSilent
    <3> QED BY <1>0, <3>1, SilentIsOrderly
  <2> QED BY <1>1, <2>1, <2>2, <2>3 DEF PauseStep
<1>2. ASSUME NEW h \in Handlers, NEW i \in Interrupts,
             PauseCall(h, i) \/ \E c \in Callers : PauseAgainCall(h, c, i)
      PROVE  Orderly'
  BY <1>0, <1>2, CallsEnter, EnteringIsOrderly
<1>3. ASSUME NEW c \in Callers, ContinueStep(c) \/ ContinueAborts(c) PROVE Orderly'
  <2>1. CASE ContinueClaim(c) \/ ContinueDispatched(c) \/ ContinueResumed(c)
    BY <1>0, <2>1, CopiesWrite, WritingIsOrderly
  <2>2. CASE ContinueDispatch(c) /\ (lifecycle = "open" \/ closer.started)
    BY <2>2, DispatchingIsOrderly
  <2>3. CASE ContinueFails(c)  BY <2>3, FailingIsOrderly
  <2> QED BY <1>0, <1>3, <2>1, <2>2, <2>3, ContinuingIsSilent, SilentIsOrderly DEF ContinueStep
<1>4. ASSUME NEW c \in Callers, NEW i \in Interrupts, NEW r \in RequestKeys, NEW v \in Values,
             ContinueCall(c, i, r, v)
      PROVE  Orderly'
  BY <1>0, <1>4, ContinuingIsSilent, SilentIsOrderly
<1>5. ASSUME NEW S \in SUBSET Interrupts, EventResumes(S) PROVE Orderly'
  BY <1>5, AnsweringIsOrderly
<1>6. CASE \/ Seal \/ Unseal \/ CloseStep \/ UNCHANGED vars
           \/ \E policy \in {"error", "cancel"} : CloseCall(policy)
  <2>1. CASE ~CancelPending  BY <1>0, <1>6, <2>1, ClosingIsSilent, SilentIsOrderly
  <2>2. CASE CancelPending
    <3>1. UNCHANGED <<handlerVars, callerVars>>
      BY <1>6 DEF Seal, Unseal, CloseStep, CloseCall, CloseSeal, DrainEnds, CloseLook, CloseFreeze,
                  CloseFails, CloseFinish, vars
    <3> QED BY <2>2, <3>1, CancellingIsOrderly
  <2> QED BY <2>1, <2>2
<1> QED BY <1>1, <1>2, <1>3, <1>4, <1>5, <1>6 DEF Next

LEMMA InitOrderly == Init => Orderly /\ NeverOpened
<1> SUFFICES ASSUME Init PROVE Orderly /\ NeverOpened
  OBVIOUS
<1>1. NeverOpened  BY DEF Init, NeverOpened, Absent
<1> QED BY <1>1, InterruptsAssumption
        DEF Init, Orderly, OnePause, AloneBeforeStore, PreviousIsSettled, CopyIsCurrent,
            WithinGen, Using, FreshHandler

LEMMA StepNeverOpened == Inv /\ Orderly /\ NeverOpened /\ [Next]_vars => NeverOpened'
<1> SUFFICES ASSUME Inv, Orderly, NeverOpened, [Next]_vars PROVE NeverOpened'
  OBVIOUS
<1>0. TypeInv /\ WithinGen  BY DEF Inv, Orderly
<1>1. ASSUME HandlersGoOn,
             \A i \in Interrupts : store'[i].status = "absent" => store'[i].gen = 0
      PROVE  NeverOpened'
  BY <1>1 DEF NeverOpened, HandlersGoOn
<1>2. ASSUME Silent PROVE NeverOpened'
  BY <1>1, <1>2 DEF Silent, SameWaits, NeverOpened
<1>3. ASSUME NEW h \in Handlers, PauseStep(h) PROVE NeverOpened'
  <2>1. CASE PauseStore(h)
    <3>1. PICK e : store' = [store EXCEPT ![hl[h].id] = e] /\ e.status = "waiting"
      BY <2>1, StoringIsOrderly
    <3>2. hl[h].id \in Interrupts  BY <2>1, StoringIsOrderly
    <3>3. \A i \in Interrupts : store'[i].status = "absent" => store'[i].gen = 0
      BY <3>1, <3>2 DEF NeverOpened, TypeInv, TypeOK, Inv
    <3>4. /\ hl' = [hl EXCEPT ![h] = [hl[h] EXCEPT !.prev = store[hl[h].id], !.prevStatus = status]]
          /\ hpc' = [hpc EXCEPT ![h] = "persisting"]
      BY <2>1 DEF PauseStore
    <3>5. hl'[h].prev = store[hl[h].id]
          /\ \A k \in Handlers : k # h => hl'[k] = hl[k] /\ hpc'[k] = hpc[k]
      BY <1>0, <3>4 DEF TypeInv, TypeOK, HandlerLocals
    <3> QED BY <3>2, <3>3, <3>5 DEF NeverOpened
  <2>2. CASE PausePersistFails(h) /\ OwnsBoundary(h)
    <3>1. hpc[h] = "persisting" /\ store' = [store EXCEPT ![hl[h].id] = hl[h].prev]
      BY <2>2 DEF PausePersistFails
    <3>2. HandlersGoOn  BY <1>0, <2>2, ReturnGoesOn DEF PausePersistFails
    <3>3. hl[h].id \in Interrupts  BY <2>2, WithdrawingIsOrderly
    <3>4. \A i \in Interrupts : store'[i].status = "absent" => store'[i].gen = 0
      BY <1>0, <3>1, <3>3 DEF NeverOpened, TypeInv, TypeOK
    <3> QED BY <1>1, <3>2, <3>4
  <2>3. CASE \/ PausePlan(h)
             \/ PausePersistFails(h) /\ ~OwnsBoundary(h)
             \/ PauseProceed(h) \/ PauseSuperseded(h) \/ PausePublished(h) \/ PausePublishFails(h)
             \/ PauseExposed(h) \/ PauseReturns(h) \/ PauseAborts(h) \/ HandlerCollected(h)
    <3>1. Silent  BY <1>0, <2>3, PausingIsSilent
    <3> QED BY <1>2, <3>1
  <2> QED BY <1>3, <2>1, <2>2, <2>3 DEF PauseStep
<1>4. ASSUME NEW h \in Handlers, NEW i \in Interrupts,
             PauseCall(h, i) \/ \E c \in Callers : PauseAgainCall(h, c, i)
      PROVE  NeverOpened'
  <2>1. store' = store /\ hpc' = [hpc EXCEPT ![h] = "lock"] /\ \E l : hl' = [hl EXCEPT ![h] = l]
    BY <1>4, Zenon DEF PauseCall, PauseAgainCall
  <2> QED BY <1>0, <2>1 DEF NeverOpened, TypeInv, TypeOK
<1>5. ASSUME NEW c \in Callers, ContinueStep(c) \/ ContinueAborts(c) PROVE NeverOpened'
  <2>1. CASE ContinueClaim(c) \/ ContinueDispatched(c) \/ ContinueResumed(c)
    <3>1. PICK e : Writes(c, e)  BY <1>0, <2>1, CopiesWrite
    <3> QED BY <1>0, <3>1 DEF Writes, StoreCopy, handlerVars, NeverOpened, TypeInv, TypeOK
  <2>2. CASE ContinueDispatch(c) /\ (lifecycle = "open" \/ closer.started)
    BY <2>2 DEF ContinueDispatch, handlerVars, NeverOpened
  <2>3. CASE ContinueFails(c)
    <3>1. HandlersGoOn  BY <1>0, <2>3, CollectGoesOn DEF ContinueFails
    <3>2. CASE SameWaits  BY <1>1, <3>1, <3>2 DEF SameWaits, NeverOpened
    <3>3. CASE Reopens(c) /\ cl[c].id \in Interrupts
      <4>1. \A i \in Interrupts : store'[i].status = "absent" => store'[i].gen = 0
        BY <1>0, <3>3 DEF Reopens, NeverOpened, TypeInv, TypeOK
      <4> QED BY <1>1, <3>1, <4>1
    <3> QED BY <2>3, <3>2, <3>3, FailingIsOrderly
  <2> QED BY <1>0, <1>2, <1>5, <2>1, <2>2, <2>3, ContinuingIsSilent DEF ContinueStep
<1>6. ASSUME NEW c \in Callers, NEW i \in Interrupts, NEW r \in RequestKeys, NEW v \in Values,
             ContinueCall(c, i, r, v)
      PROVE  NeverOpened'
  BY <1>0, <1>2, <1>6, ContinuingIsSilent
<1>7. ASSUME NEW S \in SUBSET Interrupts, EventResumes(S) PROVE NeverOpened'
  <2>1. \A e \in Entry : [e EXCEPT !.status = "resumed", !.wait = "completed"].status = "resumed"
    BY DEF Entry
  <2>2. \A i \in Interrupts : store'[i] = store[i] \/ store'[i].status = "resumed"
    BY <1>0, <1>7, <2>1 DEF EventResumes, TypeInv, TypeOK
  <2>3. UNCHANGED <<hpc, hl>>  BY <1>7 DEF EventResumes, handlerVars
  <2> QED BY <2>2, <2>3 DEF NeverOpened
<1>8. CASE \/ Seal \/ Unseal \/ CloseStep \/ UNCHANGED vars
           \/ \E policy \in {"error", "cancel"} : CloseCall(policy)
  <2>1. CASE ~CancelPending  BY <1>0, <1>2, <1>8, <2>1, ClosingIsSilent
  <2>2. CASE CancelPending
    <3>1. \A e \in Entry : [e EXCEPT !.status = "cancelled", !.wait = "cancelled"].status = "cancelled"
      BY DEF Entry
    <3>2. \A i \in Interrupts : store'[i] = store[i] \/ store'[i].status = "cancelled"
      BY <1>0, <2>2, <3>1 DEF CancelPending, TypeInv, TypeOK
    <3>3. UNCHANGED <<hpc, hl>>
      BY <1>8 DEF Seal, Unseal, CloseStep, CloseCall, CloseSeal, DrainEnds, CloseLook, CloseFreeze,
                  CloseFails, CloseFinish, vars, handlerVars
    <3> QED BY <3>2, <3>3 DEF NeverOpened
  <2> QED BY <2>1, <2>2
<1> QED BY <1>3, <1>4, <1>5, <1>6, <1>7, <1>8 DEF Next

\* The invariant of the pauses: what is typed and exclusive, and the order they keep.
PauseInv == Inv /\ Orderly /\ NeverOpened

LEMMA InitPauseInv == Init => PauseInv
BY InitTyped, InitExclusive, InitOrderly DEF Inv, PauseInv

LEMMA StepPauseInv ==
  ASSUME OneUseAtATime
  PROVE  PauseInv /\ [Next]_vars => PauseInv'
BY StepTyped, StepExclusive, StepOrderly, StepNeverOpened DEF Inv, PauseInv

\* Between its claim and its resume, a call of continue_with finds its wait as it claimed
\* it, if no chosen id is paused again while it is in use: no event, no close, no rollback and no
\* other call replaces the entry that the call goes on to write whole.
THEOREM ClaimsAreHeld ==
  ASSUME OneUseAtATime
  PROVE  Spec => []ClaimHeld
<1>1. Init => PauseInv
  BY InitPauseInv
<1>2. PauseInv /\ [Next]_vars => PauseInv'
  BY StepPauseInv
<1>3. PauseInv => ClaimHeld
  BY DEF PauseInv, Orderly, CopyIsCurrent, ClaimHeld
<1> QED BY <1>1, <1>2, <1>3, PTL DEF Spec

-----------------------------------------------------------------------------
(* The ledger of a generated interrupt: it is waited for once, so it has one caller at a time *)

\* c may still write to the entry of its interrupt.
Serving(c) == Using(c) \/ cpc[c] = "rejected"

OneServes ==
  \A c, d \in Callers :
    Serving(c) /\ Serving(d) /\ cl[c].id = cl[d].id /\ cl[c].id \in Anonymous => c = d

Resuming(c) == cpc[c] \in {"resuming", "dispatching", "rejected"}

ResumedForGood ==
  \A c \in Callers : Resuming(c) /\ cl[c].id \in Anonymous => store[cl[c].id].status = "resumed"

OpensOnce ==
  \A h \in Handlers : hpc[h] \in {"lock", "planned"} /\ hl[h].id \in Anonymous =>
    store[hl[h].id].status = "absent"

Recorded(c, e) == e.reqs[cl[c].req].state # "none" /\ e.reqs[cl[c].req].value = cl[c].value

\* The request of a caller is recorded with its value, in the store and in its copy.
KeepsRecord ==
  \A c \in Callers : Using(c) /\ cl[c].id \in Anonymous /\ cl[c].req \in Requests =>
    Recorded(c, store[cl[c].id]) /\ Recorded(c, cl[c].entry)

\* The copy that a caller will write back has every record of the store.
CopyKeepsLedger ==
  \A c \in Callers : cpc[c] \in {"accepted", "dispatched"} /\ cl[c].id \in Anonymous =>
    \A r \in Requests : store[cl[c].id].reqs[r].state # "none" => cl[c].entry.reqs[r].state # "none"

LedgerInv == OneServes /\ ResumedForGood /\ OpensOnce /\ KeepsRecord /\ CopyKeepsLedger

\* The records of i stay while its generation does.
RecordsStay(i) ==
  store'[i].gen = store[i].gen =>
    \A r \in Requests : store[i].reqs[r].state # "none" => store'[i].reqs[r].state # "none"

\* The entry of i keeps its ledger, and is at most settled.
LedgerSame(i) ==
  /\ store'[i].reqs = store[i].reqs
  /\ \/ store'[i].status = store[i].status
     \/ store[i].status = "waiting" /\ store'[i].status # "absent"

\* Whatever happens to i, nobody is left who relies on it.
Untended(i) ==
  /\ RecordsStay(i)
  /\ \A c \in Callers : Serving(c)' => cl'[c].id # i
  /\ \A h \in Handlers : hpc'[h] \in {"lock", "planned"} => hl'[h].id # i

HandlersStart ==
  \A h \in Handlers : hpc'[h] \in {"lock", "planned"} =>
    \/ hpc[h] \in {"lock", "planned"} /\ hl'[h].id = hl[h].id
    \/ hl'[h].id \in Anonymous => store'[hl'[h].id].status = "absent"

CallersServe ==
  \A c \in Callers : Serving(c)' =>
    /\ Serving(c) /\ (Using(c)' => Using(c)) /\ (Resuming(c)' => Resuming(c))
    /\ cpc'[c] \in {"accepted", "dispatched"} => cpc'[c] = cpc[c]
    /\ cl'[c].id = cl[c].id /\ cl'[c].req = cl[c].req
    /\ cl'[c].value = cl[c].value /\ cl'[c].entry = cl[c].entry

\* The steps in which no caller writes its copy.
NoCopy ==
  /\ \A i \in Anonymous : LedgerSame(i) \/ Untended(i)
  /\ HandlersStart /\ CallersServe

LEMMA NoCopyKeepsLedger == LedgerInv /\ NoCopy => LedgerInv' /\ \A i \in Anonymous : RecordsStay(i)
<1> SUFFICES ASSUME LedgerInv, NoCopy PROVE LedgerInv' /\ \A i \in Anonymous : RecordsStay(i)
  OBVIOUS
<1> USE DEF LedgerInv
<1>1. \A c \in Callers : Serving(c)' /\ cl'[c].id \in Anonymous => LedgerSame(cl[c].id)
  BY DEF NoCopy, Untended, CallersServe
<1>2. OneServes'
  BY DEF OneServes, NoCopy, CallersServe
<1>3. ResumedForGood'
  BY <1>1 DEF ResumedForGood, NoCopy, CallersServe, LedgerSame, Resuming, Serving, Using
<1>4. OpensOnce'
  BY DEF OpensOnce, NoCopy, HandlersStart, LedgerSame, Untended
<1>5. KeepsRecord'
  <2> SUFFICES ASSUME NEW c \in Callers, Using(c)', cl'[c].id \in Anonymous, cl'[c].req \in Requests
               PROVE  Recorded(c, store[cl[c].id])' /\ Recorded(c, cl[c].entry)'
    BY DEF KeepsRecord
  <2>1. /\ Using(c) /\ cl'[c].id = cl[c].id /\ cl'[c].req = cl[c].req
        /\ cl'[c].value = cl[c].value /\ cl'[c].entry = cl[c].entry /\ LedgerSame(cl[c].id)
    BY <1>1 DEF NoCopy, CallersServe, Serving
  <2>2. Recorded(c, store[cl[c].id]) /\ Recorded(c, cl[c].entry)
    BY <2>1 DEF KeepsRecord
  <2> QED BY <2>1, <2>2 DEF Recorded, LedgerSame
<1>6. CopyKeepsLedger'
  BY <1>1 DEF CopyKeepsLedger, NoCopy, CallersServe, LedgerSame, Serving, Using
<1>7. \A i \in Anonymous : RecordsStay(i)
  BY DEF NoCopy, LedgerSame, RecordsStay, Untended
<1> QED BY <1>2, <1>3, <1>4, <1>5, <1>6, <1>7

\* A generated interrupt that is absent, or waiting without a claim, is served by nobody.
LEMMA NobodyServes ==
  ASSUME TypeInv, Orderly, LedgerInv, NEW i \in Anonymous,
         \/ store[i].status = "absent"
         \/ store[i].status = "waiting" /\ store[i].claim = Nobody
  PROVE  \A c \in Callers : Serving(c) => cl[c].id # i
<1> SUFFICES ASSUME NEW c \in Callers, Serving(c), cl[c].id = i PROVE FALSE
  OBVIOUS
<1>1. cl[c].req # Nobody  BY Suspended
<1>2. ~Resuming(c)  BY DEF LedgerInv, ResumedForGood
<1>3. cpc[c] \in {"accepted", "dispatched"}  BY <1>2 DEF Serving, Using, Resuming
<1> QED BY <1>1, <1>3 DEF Orderly, CopyIsCurrent

\* pause_for and its rollback replace an entry that nobody serves.
LEMMA ReplacingIsNoCopy ==
  ASSUME Inv, Orderly, LedgerInv, NEW h \in Handlers,
         \/ PauseStore(h)
         \/ PausePersistFails(h) /\ OwnsBoundary(h)
  PROVE  NoCopy
<1> DEFINE i == hl[h].id
<1> USE DEF Inv
<1>1. /\ hpc[h] \in {"planned", "persisting"} /\ UNCHANGED <<cpc, cl>>
  BY DEF PauseStore, PausePersistFails, callerVars
<1>2. i \in Interrupts /\ i # Nobody
  BY <1>1, Suspended DEF InPause
<1>3. /\ \A k \in Handlers : k # h => hl'[k] = hl[k] /\ hpc'[k] = hpc[k]
      /\ hpc'[h] \notin {"lock", "planned"}
  BY DEF PauseStore, PausePersistFails, Return, TypeInv, TypeOK
<1>4. /\ \E f : store' = [store EXCEPT ![i] = f] /\ f.gen # store[i].gen
  <2>1. CASE PauseStore(h)
    <3>1. PICK f : store' = [store EXCEPT ![i] = f] /\ f.gen = hl[h].gen
      BY <2>1, StoringIsOrderly
    <3>2. store[i].gen < hl[h].gen /\ store[i].gen \in Nat /\ hl[h].gen \in Nat
      BY <1>2, <2>1, StoringIsOrderly, Suspended
    <3>3. f.gen # store[i].gen  BY <3>1, <3>2
    <3> QED BY <3>1, <3>3
  <2>2. CASE PausePersistFails(h) /\ OwnsBoundary(h)
    <3>1. hpc[h] = "persisting" /\ store' = [store EXCEPT ![i] = hl[h].prev]
      BY <2>2 DEF PausePersistFails
    <3>2. hl[h].prev.gen < hl[h].gen /\ store[i].gen = hl[h].gen
          /\ hl[h].prev.gen \in Nat /\ hl[h].gen \in Nat
      BY <3>1, Suspended DEF Orderly, PreviousIsSettled
    <3>3. hl[h].prev.gen # store[i].gen  BY <3>2
    <3> QED BY <3>1, <3>3
  <2> QED BY <2>1, <2>2
<1>5. store'[i].gen # store[i].gen /\ \A j \in Interrupts : j # i => store'[j] = store[j]
  BY <1>2, <1>4 DEF TypeInv, TypeOK
<1>6. i \in Anonymous => \A c \in Callers : Serving(c) => cl[c].id # i
  <2>1. CASE PauseStore(h)
    BY <2>1, NobodyServes DEF PauseStore, LedgerInv, OpensOnce
  <2>2. CASE PausePersistFails(h) /\ OwnsBoundary(h)
    <3>1. hpc[h] = "persisting" /\ store[i].status = "waiting" /\ store[i].wait = "persisted"
      BY <2>2 DEF PausePersistFails, OwnsBoundary
    <3>2. store[i].claim = Nobody
      BY <3>1 DEF Orderly, PreviousIsSettled
    <3> QED BY <3>1, <3>2, NobodyServes
  <2> QED BY <2>1, <2>2
<1>7. \A k \in Handlers : hpc'[k] \in {"lock", "planned"} => hl'[k].id # i
  BY <1>2, <1>3 DEF Orderly, OnePause
<1>8. \A j \in Anonymous : LedgerSame(j) \/ Untended(j)
  <2> HIDE DEF i
  <2> SUFFICES ASSUME NEW j \in Anonymous PROVE LedgerSame(j) \/ Untended(j)
    OBVIOUS
  <2>1. CASE j # i
    BY <1>5, <2>1, InterruptsAssumption DEF LedgerSame
  <2>2. CASE j = i
    BY <1>1, <1>5, <1>6, <1>7, <2>2 DEF Untended, RecordsStay, Serving, Using
  <2> QED BY <2>1, <2>2
<1>9. HandlersStart
  BY <1>3 DEF HandlersStart
<1>10. CallersServe
  BY <1>1 DEF CallersServe, Serving, Using, Resuming
<1> QED BY <1>8, <1>9, <1>10 DEF NoCopy

LEMMA PausingIsNoCopy ==
  ASSUME TypeInv, NEW h \in Handlers,
         \/ PausePlan(h)
         \/ PausePersistFails(h) /\ ~OwnsBoundary(h)
         \/ PauseProceed(h) \/ PauseSuperseded(h) \/ PausePublished(h) \/ PausePublishFails(h)
         \/ PauseExposed(h) \/ PauseReturns(h) \/ PauseAborts(h) \/ HandlerCollected(h)
  PROVE  NoCopy
<1>1. UNCHANGED <<cpc, cl>>
  BY DEF PauseProceed, PauseSuperseded, PausePublished, PausePublishFails, PauseExposed,
         PauseReturns, PauseAborts, HandlerCollected, PausePlan, PausePersistFails, callerVars
<1>2. \A i \in Interrupts : LedgerSame(i)
  <2>1. ASSUME NEW wait, ApplyEnvelope(h, wait) PROVE \A i \in Interrupts : LedgerSame(i)
    <3> DEFINE i == hl[h].id
               f == [store[i] EXCEPT !.wait = wait]
    <3>1. store' = store \/ store' = [store EXCEPT ![i] = f]
      BY <2>1 DEF ApplyEnvelope
    <3>2. i \in Interrupts => f.reqs = store[i].reqs /\ f.status = store[i].status
      BY DEF TypeInv, TypeOK, Entry
    <3> HIDE DEF f
    <3> QED BY <3>1, <3>2 DEF LedgerSame, TypeInv, TypeOK
  <2>2. CASE UNCHANGED store
    BY <2>2 DEF LedgerSame
  <2> QED
    BY <2>1, <2>2 DEF PauseProceed, PauseSuperseded, PausePublished, PausePublishFails, PauseExposed,
         PauseReturns, PauseAborts, HandlerCollected, PausePlan, PausePersistFails
<1>3. HandlersStart
  <2>1. ASSUME NEW outcome \in {"done", "failed"}, Return(h, outcome) PROVE HandlersStart
    BY <2>1 DEF Return, HandlersStart, TypeInv, TypeOK
  <2>2. CASE PauseProceed(h) \/ PausePublished(h) \/ PauseExposed(h) \/ HandlerCollected(h)
    BY <2>2 DEF PauseProceed, PausePublished, PauseExposed, HandlerCollected, HandlersStart,
                TypeInv, TypeOK
  <2>3. CASE PausePlan(h) /\ ~Return(h, "failed")
    <3>1. /\ hpc[h] = "lock" /\ hpc' = [hpc EXCEPT ![h] = "planned"]
          /\ hl' = [hl EXCEPT ![h] = [hl[h] EXCEPT !.gen = lastGen + 1]]
      BY <2>3 DEF PausePlan
    <3>2. [hl[h] EXCEPT !.gen = lastGen + 1].id = hl[h].id
      BY DEF TypeInv, TypeOK, HandlerLocals
    <3> QED BY <3>1, <3>2 DEF HandlersStart, TypeInv, TypeOK
  <2> QED
    BY <2>1, <2>2, <2>3
       DEF PauseSuperseded, PausePublishFails, PauseReturns, PauseAborts, PausePersistFails
<1>4. CallersServe
  BY <1>1 DEF CallersServe, Serving, Using, Resuming
<1> QED BY <1>2, <1>3, <1>4, InterruptsAssumption DEF NoCopy

LEMMA CallingIsNoCopy ==
  ASSUME TypeInv, NEW h \in Handlers, NEW i \in Interrupts,
         PauseCall(h, i) \/ \E c \in Callers : PauseAgainCall(h, c, i)
  PROVE  NoCopy
<1>1. /\ store' = store /\ cpc' = cpc /\ hpc' = [hpc EXCEPT ![h] = "lock"]
      /\ i \in Anonymous => store[i].status = "absent"
  BY DEF PauseCall, PauseAgainCall, MayPause, callerVars
<1>2. hl'[h].id = i /\ \A k \in Handlers : k # h => hl'[k] = hl[k]
  <2>1. CASE PauseCall(h, i)
    BY <2>1 DEF PauseCall, TypeInv, TypeOK, FreshHandler
  <2>2. ASSUME NEW c \in Callers, PauseAgainCall(h, c, i) PROVE <1>2
    <3>1. \E n, from, parent : hl' = [hl EXCEPT ![h] =
            [FreshHandler EXCEPT !.id = i, !.parent = parent, !.from = from, !.fromCount = n]]
      BY <2>2, Zenon DEF PauseAgainCall
    <3> QED BY <3>1 DEF TypeInv, TypeOK, FreshHandler
  <2> QED BY <2>1, <2>2
<1>3. \A c \in Callers : /\ cl'[c].id = cl[c].id /\ cl'[c].req = cl[c].req
                         /\ cl'[c].value = cl[c].value /\ cl'[c].entry = cl[c].entry
  <2>1. cl' = cl \/ \E c \in Callers : cl' = [cl EXCEPT ![c] = [cl[c] EXCEPT !.child = h]]
    BY DEF PauseCall, PauseAgainCall, callerVars
  <2>2. \A c \in Callers : LET l == [cl[c] EXCEPT !.child = h]
                           IN  /\ l.id = cl[c].id /\ l.req = cl[c].req
                               /\ l.value = cl[c].value /\ l.entry = cl[c].entry
    BY DEF TypeInv, TypeOK, CallerLocals
  <2> QED BY <2>1, <2>2 DEF TypeInv, TypeOK
<1>4. HandlersStart
  BY <1>1, <1>2 DEF HandlersStart, TypeInv, TypeOK
<1>5. CallersServe
  BY <1>1, <1>3 DEF CallersServe, Serving, Using, Resuming
<1> QED BY <1>1, <1>4, <1>5 DEF NoCopy, LedgerSame

LEMMA ContinuingIsNoCopy ==
  ASSUME TypeInv, NEW c \in Callers,
         \/ ContinueAnswered(c) \/ ContinueDispatch(c) \/ ContinueCompletes(c) \/ ContinueAborts(c)
         \/ \E i \in Interrupts, r \in RequestKeys, v \in Values : ContinueCall(c, i, r, v)
  PROVE  NoCopy
<1>1. UNCHANGED <<store, hpc, hl>>
  BY DEF ContinueAnswered, ContinueDispatch, ContinueCompletes, ContinueAborts, ContinueCall,
         handlerVars
<1>2. CallersServe
  <2>1. CASE ContinueDispatch(c)
    BY <2>1 DEF ContinueDispatch, CallersServe, Serving, Using, Resuming, TypeInv, TypeOK
  <2>2. CASE ~ContinueDispatch(c)
    <3>1. /\ \E pc \in {"barrier", "done", "raised"} : cpc' = [cpc EXCEPT ![c] = pc]
          /\ \E l : cl' = [cl EXCEPT ![c] = l]
      BY <2>2 DEF ContinueAnswered, ContinueCompletes, ContinueAborts, ContinueCall
    <3> QED BY <3>1 DEF CallersServe, Serving, Using, Resuming, TypeInv, TypeOK
  <2> QED BY <2>1, <2>2
<1> QED BY <1>1, <1>2 DEF NoCopy, LedgerSame, HandlersStart

LEMMA SettlingIsNoCopy ==
  ASSUME TypeInv,
         \/ Seal \/ Unseal \/ CloseStep \/ UNCHANGED vars
         \/ \E policy \in {"error", "cancel"} : CloseCall(policy)
         \/ \E S \in SUBSET Interrupts : EventResumes(S)
  PROVE  NoCopy
<1>1. UNCHANGED <<hpc, hl, cpc, cl>>
  BY DEF Seal, Unseal, CloseStep, CloseCall, CloseSeal, DrainEnds, CloseLook, CloseFreeze, CloseFails,
         CloseFinish, EventResumes, vars, handlerVars, callerVars
<1>2. \A e \in Entry : \A s, w : SettledAs(e, s, w).reqs = e.reqs /\ SettledAs(e, s, w).status = s
  BY DEF Entry, SettledAs
<1>3. \A i \in Interrupts :
        \/ store'[i] = store[i]
        \/ /\ store[i].status = "waiting"
           /\ store'[i] \in {SettledAs(store[i], "resumed", "completed"),
                             SettledAs(store[i], "cancelled", "cancelled")}
  <2>1. CASE CancelPending
    BY <2>1 DEF CancelPending, SettledAs, Unclaimed, Waiting
  <2>2. CASE \E S \in SUBSET Interrupts : EventResumes(S)
    BY <2>2 DEF EventResumes, SettledAs, Unclaimed, Waiting
  <2>3. CASE store' = store
    BY <2>3
  <2> QED
    BY <2>1, <2>2, <2>3 DEF Seal, Unseal, CloseStep, CloseCall, CloseSeal, DrainEnds, CloseLook,
         CloseFreeze, CloseFails, CloseFinish, vars
<1>4. \A i \in Interrupts : LedgerSame(i)
  BY <1>2, <1>3 DEF LedgerSame, TypeInv, TypeOK
<1>5. HandlersStart /\ CallersServe
  BY <1>1 DEF HandlersStart, CallersServe, Serving, Using, Resuming
<1> QED BY <1>4, <1>5, InterruptsAssumption DEF NoCopy

\* A call that returns or fails writes its record to the entry it served, alone.
LEMMA EndingIsNoCopy ==
  ASSUME TypeInv, LedgerInv, NEW c \in Callers, ContinueReturns(c) \/ ContinueFails(c)
  PROVE  NoCopy
<1> DEFINE i == cl[c].id
           e == store[i]
<1>1. /\ cpc[c] \in {"rejected", "dispatching"} /\ Collect(c)
      /\ \E pc \in {"done", "raised", "completing"} : cpc' = [cpc EXCEPT ![c] = pc]
      /\ \E l : cl' = [cl EXCEPT ![c] = l]
  BY DEF ContinueReturns, ContinueFails
<1>2. i \in Interrupts /\ e \in Entry /\ cl[c].entry \in Entry
  BY <1>1 DEF TypeInv, TypeOK, Engaged, CallerLocals
<1>3. RecordsStay(i) /\ \A j \in Interrupts : j # i => store'[j] = store[j]
  <2>1. ASSUME NEW s \in {"completed", "dispatch_failed"}, NEW f, store' = [store EXCEPT ![i] = f],
               f.reqs = [e.reqs EXCEPT ![cl[c].req] = [cl[c].entry.reqs[cl[c].req] EXCEPT !.state = s]],
               cl[c].req \in Requests
        PROVE  <1>3
    <3>1. [cl[c].entry.reqs[cl[c].req] EXCEPT !.state = s].state # "none"
      BY <1>2, <2>1 DEF Entry
    <3>2. \A r \in Requests : e.reqs[r].state # "none" => f.reqs[r].state # "none"
      BY <1>2, <2>1, <3>1 DEF Entry
    <3> QED BY <1>2, <2>1, <3>2 DEF RecordsStay, TypeInv, TypeOK
  <2>2. CASE store' = store
    BY <2>2 DEF RecordsStay
  <2>3. ASSUME cl[c].req # NoRequest PROVE cl[c].req \in Requests
    BY <2>3 DEF TypeInv, TypeOK, CallerLocals, RequestKeys
  <2>4. CASE ContinueReturns(c) /\ store' # store
    <3> DEFINE reqs == [e.reqs EXCEPT ![cl[c].req] =
                          [cl[c].entry.reqs[cl[c].req] EXCEPT !.state = "completed"]]
               f == [e EXCEPT !.reqs = reqs, !.wait = IF SameGeneration(c) THEN "completed" ELSE @]
    <3>1. f.reqs = reqs  BY <1>2 DEF Entry
    <3>2. store' = [store EXCEPT ![i] = f] /\ cl[c].req # NoRequest
      BY <2>4 DEF ContinueReturns
    <3> HIDE DEF f
    <3> QED BY <2>1, <2>3, <3>1, <3>2
  <2>5. CASE ContinueFails(c) /\ store' # store
    <3> DEFINE reqs == [e.reqs EXCEPT ![cl[c].req] =
                          [cl[c].entry.reqs[cl[c].req] EXCEPT !.state = "dispatch_failed"]]
               failed == [e EXCEPT !.reqs = reqs]
               reopened == [e EXCEPT !.reqs = reqs, !.status = "waiting", !.claim = Nobody,
                                     !.wait = "dispatch_failed"]
    <3>1. failed.reqs = reqs /\ reopened.reqs = reqs  BY <1>2 DEF Entry
    <3>2. /\ store' = [store EXCEPT ![i] = failed] \/ store' = [store EXCEPT ![i] = reopened]
          /\ cl[c].req # NoRequest
      BY <2>5 DEF ContinueFails
    <3> HIDE DEF failed, reopened
    <3> QED BY <2>1, <2>3, <3>1, <3>2
  <2> QED BY <2>2, <2>4, <2>5
<1>4. /\ \A d \in Callers : d # c => cpc'[d] = cpc[d] /\ cl'[d] = cl[d]
      /\ cpc'[c] \in {"done", "raised", "completing"}
  BY <1>1 DEF TypeInv, TypeOK
<1>5. \A k \in Handlers : hpc'[k] \in {"lock", "planned"} => hpc'[k] = hpc[k] /\ hl'[k] = hl[k]
  BY <1>1 DEF Collect, TypeInv, TypeOK
<1>6. \A d \in Callers : Serving(d)' => d # c
  BY <1>4 DEF Serving, Using
<1>7. CallersServe
  BY <1>4, <1>6 DEF CallersServe, Serving, Using, Resuming
<1>8. HandlersStart
  BY <1>5 DEF HandlersStart
<1>9. i \in Anonymous => Untended(i)
  <2> SUFFICES ASSUME i \in Anonymous PROVE Untended(i)
    OBVIOUS
  <2>1. Serving(c) /\ store[i].status = "resumed"
    BY <1>1 DEF Serving, Using, LedgerInv, ResumedForGood, Resuming
  <2>2. \A d \in Callers : Serving(d)' => cl'[d].id # i
    BY <1>4, <1>6, <1>7, <2>1 DEF CallersServe, LedgerInv, OneServes
  <2>3. \A h \in Handlers : hpc'[h] \in {"lock", "planned"} => hl'[h].id # i
    BY <1>5, <2>1 DEF LedgerInv, OpensOnce
  <2> QED BY <1>3, <2>2, <2>3 DEF Untended
<1>10. \A j \in Anonymous : LedgerSame(j) \/ Untended(j)
  <2> HIDE DEF i
  <2> SUFFICES ASSUME NEW j \in Anonymous PROVE LedgerSame(j) \/ Untended(j)
    OBVIOUS
  <2>1. CASE j # i
    BY <1>3, <2>1, InterruptsAssumption DEF LedgerSame
  <2> QED BY <1>9, <2>1
<1> QED BY <1>7, <1>8, <1>10 DEF NoCopy

\* e has the record of c and every record of the stored entry.
Inherits(c, e) ==
  /\ cl[c].req \in Requests => Recorded(c, e)
  /\ \A r \in Requests : store[cl[c].id].reqs[r].state # "none" => e.reqs[r].state # "none"

LEMMA CopiesInherit ==
  ASSUME TypeInv, LedgerInv, NEW c \in Callers, cl[c].id \in Anonymous,
         ContinueClaim(c) \/ ContinueDispatched(c) \/ ContinueResumed(c)
  PROVE  \E e : StoreCopy(c, e) /\ Inherits(c, e)
<1> DEFINE i == cl[c].id
<1>1. /\ i \in Interrupts /\ cl[c].entry \in Entry /\ store[i] \in Entry
      /\ cl[c].req \in RequestKeys
  BY InterruptsAssumption DEF TypeInv, TypeOK, CallerLocals
<1>2. \A b \in Entry : Resumed(b).reqs = b.reqs
  BY DEF Resumed, Entry
<1>3. ASSUME NEW b \in Entry, NEW s \in {"accepted", "dispatched"}, cl[c].req \in Requests,
             \A r \in Requests : store[i].reqs[r].state # "none" => b.reqs[r].state # "none",
             b.reqs[cl[c].req].state # "none" => b.reqs[cl[c].req].value = cl[c].value
      PROVE  Inherits(c, WithRecord(b, c, s))
  <2> DEFINE q == [state |-> s,
                   value |-> IF b.reqs[cl[c].req].state = "none" THEN cl[c].value
                             ELSE b.reqs[cl[c].req].value]
             e == WithRecord(b, c, s)
  <2>1. e.reqs = [b.reqs EXCEPT ![cl[c].req] = q]
    BY DEF WithRecord, Entry
  <2>2. q.state # "none" /\ q.value = cl[c].value
    BY <1>3
  <2> HIDE DEF q, e
  <2>3. /\ e.reqs[cl[c].req] = q
        /\ \A r \in Requests : r # cl[c].req => e.reqs[r] = b.reqs[r]
    BY <1>3, <2>1 DEF Entry
  <2>4. Inherits(c, e)  BY <1>3, <2>2, <2>3 DEF Inherits, Recorded
  <2> QED BY <2>4 DEF e
<1>4. CASE ContinueClaim(c)
  <2> DEFINE b == Counted(c)
  <2>1. ~Refused(c)
    BY <1>4 DEF ContinueClaim, Entitled
  <2>2. b \in Entry  BY <1>1, EntriesTyped
  <2>3. b.reqs = store[i].reqs
    BY <1>1 DEF Counted, Entry
  <2>4. cl[c].req \in Requests /\ b.reqs[cl[c].req].state # "none" =>
          b.reqs[cl[c].req].value = cl[c].value
    BY <2>1, <2>3 DEF Refused, Known, Record
  <2> HIDE DEF b
  <2>5. CASE cl[c].req = NoRequest /\ StoreCopy(c, Resumed(b))
    <3>1. Inherits(c, Resumed(b))
      BY <1>2, <2>2, <2>3, <2>5, InterruptsAssumption DEF Inherits
    <3> QED BY <2>5, <3>1
  <2>6. ASSUME NEW s \in {"accepted", "dispatched"}, cl[c].req \in Requests,
               StoreCopy(c, WithRecord(b, c, s))
        PROVE  \E e : StoreCopy(c, e) /\ Inherits(c, e)
    <3>1. Inherits(c, WithRecord(b, c, s))  BY <1>3, <2>2, <2>3, <2>4, <2>6
    <3> QED BY <2>6, <3>1
  <2> QED BY <1>4, <2>5, <2>6 DEF ContinueClaim, Known, b
<1>5. CASE ContinueDispatched(c) \/ ContinueResumed(c)
  <2>1. \A r \in Requests : store[i].reqs[r].state # "none" => cl[c].entry.reqs[r].state # "none"
    BY <1>5 DEF ContinueDispatched, ContinueResumed, LedgerInv, CopyKeepsLedger
  <2>2. cl[c].req \in Requests => Recorded(c, cl[c].entry)
    BY <1>5 DEF ContinueDispatched, ContinueResumed, LedgerInv, KeepsRecord, Using
  <2>3. CASE ContinueResumed(c)
    <3> DEFINE e == Resumed(cl[c].entry)
    <3>1. e.reqs = cl[c].entry.reqs /\ StoreCopy(c, e)
      BY <1>1, <1>2, <2>3 DEF ContinueResumed
    <3> HIDE DEF e
    <3>2. Inherits(c, e)  BY <2>1, <2>2, <3>1 DEF Inherits, Recorded
    <3> QED BY <3>1, <3>2
  <2>4. CASE ContinueDispatched(c) /\ cl[c].req \in Requests
    <3>1. StoreCopy(c, WithRecord(cl[c].entry, c, "dispatched"))
      BY <2>4 DEF ContinueDispatched
    <3>2. Inherits(c, WithRecord(cl[c].entry, c, "dispatched"))
      BY <1>1, <1>3, <2>1, <2>2, <2>4 DEF Recorded
    <3> QED BY <3>1, <3>2
  <2>5. CASE ContinueDispatched(c) /\ cl[c].req \notin Requests
    <3> DEFINE e == WithRecord(cl[c].entry, c, "dispatched")
    <3>1. StoreCopy(c, e)  BY <2>5 DEF ContinueDispatched
    <3>2. \A r \in Requests : e.reqs[r] = cl[c].entry.reqs[r]
      BY <1>1, <2>5 DEF WithRecord, Entry
    <3> HIDE DEF e
    <3>3. Inherits(c, e)  BY <2>1, <2>5, <3>2 DEF Inherits
    <3> QED BY <3>1, <3>3
  <2> QED BY <1>5, <2>3, <2>4, <2>5
<1> QED BY <1>4, <1>5

LEMMA CopyingKeepsLedger ==
  ASSUME Inv, Orderly, LedgerInv, NEW c \in Callers,
         ContinueClaim(c) \/ ContinueDispatched(c) \/ ContinueResumed(c)
  PROVE  LedgerInv' /\ \A i \in Anonymous : RecordsStay(i)
<1> DEFINE i == cl[c].id
<1> USE DEF Inv, LedgerInv
<1>1. PICK e : Writes(c, e)
  BY CopiesWrite
<1>2. /\ i \in Interrupts /\ store' = [store EXCEPT ![i] = e]
      /\ cl' = [cl EXCEPT ![c] = [cl[c] EXCEPT !.entry = e]]
      /\ UNCHANGED <<hpc, hl>>
      /\ store[i].status = "waiting" /\ e.gen = store[i].gen
      /\ \/ cpc[c] = "barrier" /\ store[i].claim = Nobody
         \/ cpc[c] \in {"accepted", "dispatched"} /\ store[i].claim # Nobody
  BY <1>1 DEF Writes, StoreCopy, handlerVars
<1>3. store'[i] = e /\ \A j \in Interrupts : j # i => store'[j] = store[j]
  BY <1>2 DEF TypeInv, TypeOK
<1>4. /\ cl'[c].id = i /\ cl'[c].req = cl[c].req /\ cl'[c].value = cl[c].value /\ cl'[c].entry = e
      /\ \A d \in Callers : d # c => cl'[d] = cl[d] /\ cpc'[d] = cpc[d]
  BY <1>1, <1>2 DEF Writes, TypeInv, TypeOK, CallerLocals
<1>5. \/ cpc'[c] \in {"accepted", "dispatched"}
      \/ cpc'[c] = "resuming" /\ e.status = "resumed"
  BY <1>1 DEF Writes, TypeInv, TypeOK
<1>6. i \in Anonymous => Inherits(c, e)
  <2> SUFFICES ASSUME i \in Anonymous PROVE Inherits(c, e)
    OBVIOUS
  <2>1. PICK f : StoreCopy(c, f) /\ Inherits(c, f)
    BY CopiesInherit
  <2>2. f = e
    BY <1>2, <1>3, <2>1 DEF StoreCopy, TypeInv, TypeOK
  <2> QED BY <2>1, <2>2
<1>7. \A d \in Callers : Serving(d)' /\ d # c => Serving(d)
  BY <1>4 DEF Serving, Using
<1>8. i \in Anonymous => \A d \in Callers : Serving(d) /\ cl[d].id = i => d = c
  <2>1. CASE cpc[c] = "barrier" /\ store[i].claim = Nobody
    BY <1>2, <2>1, NobodyServes
  <2>2. CASE cpc[c] \in {"accepted", "dispatched"}
    BY <2>2 DEF OneServes, Serving, Using
  <2> QED BY <1>2, <2>1, <2>2
<1> HIDE DEF i
<1>9. \A d \in Callers : Serving(d)' /\ cl'[d].id \in Anonymous /\ d # c =>
        /\ Serving(d) /\ cl'[d] = cl[d] /\ cpc'[d] = cpc[d] /\ cl[d].id # i
        /\ store'[cl[d].id] = store[cl[d].id]
  BY <1>3, <1>4, <1>7, <1>8, InterruptsAssumption
<1>10. OneServes'
  <2> SUFFICES ASSUME NEW a \in Callers, NEW d \in Callers, Serving(a)', Serving(d)',
                      cl'[a].id = cl'[d].id, cl'[a].id \in Anonymous
               PROVE  a = d
    BY DEF OneServes
  <2>1. CASE a = c \/ d = c  BY <1>4, <1>9, <2>1
  <2>2. CASE a # c /\ d # c  BY <1>9, <2>2 DEF OneServes
  <2> QED BY <2>1, <2>2
<1>11. ResumedForGood'
  <2> SUFFICES ASSUME NEW d \in Callers, Resuming(d)', cl'[d].id \in Anonymous
               PROVE  store'[cl'[d].id].status = "resumed"
    BY DEF ResumedForGood
  <2>1. CASE d = c  BY <1>3, <1>4, <1>5, <2>1 DEF Resuming
  <2>2. CASE d # c
    <3>1. Serving(d)'  BY DEF Resuming, Serving, Using
    <3> QED BY <1>9, <2>2, <3>1 DEF ResumedForGood, Resuming
  <2> QED BY <2>1, <2>2
<1>12. OpensOnce'
  BY <1>2, <1>3, InterruptsAssumption DEF OpensOnce
<1>13. KeepsRecord'
  <2> SUFFICES ASSUME NEW d \in Callers, Using(d)', cl'[d].id \in Anonymous, cl'[d].req \in Requests
               PROVE  Recorded(d, store[cl[d].id])' /\ Recorded(d, cl[d].entry)'
    BY DEF KeepsRecord
  <2>1. CASE d = c
    <3>1. Recorded(c, e)  BY <1>4, <1>6, <2>1 DEF Inherits, i
    <3> QED BY <1>3, <1>4, <2>1, <3>1 DEF Recorded
  <2>2. CASE d # c
    <3>1. /\ Using(d) /\ cl'[d] = cl[d] /\ store'[cl[d].id] = store[cl[d].id]
      BY <1>9, <2>2 DEF Serving, Using
    <3>2. Recorded(d, store[cl[d].id]) /\ Recorded(d, cl[d].entry)
      BY <3>1 DEF KeepsRecord
    <3> QED BY <3>1, <3>2 DEF Recorded
  <2> QED BY <2>1, <2>2
<1>14. CopyKeepsLedger'
  <2> SUFFICES ASSUME NEW d \in Callers, cpc'[d] \in {"accepted", "dispatched"}, cl'[d].id \in Anonymous,
                      NEW r \in Requests, store'[cl'[d].id].reqs[r].state # "none"
               PROVE  cl'[d].entry.reqs[r].state # "none"
    BY DEF CopyKeepsLedger
  <2>1. CASE d = c  BY <1>3, <1>4, <2>1
  <2>2. CASE d # c  BY <1>9, <2>2 DEF CopyKeepsLedger, Serving, Using
  <2> QED BY <2>1, <2>2
<1>15. \A j \in Anonymous : RecordsStay(j)
  <2> SUFFICES ASSUME NEW j \in Anonymous PROVE RecordsStay(j)
    OBVIOUS
  <2>1. CASE j = i  BY <1>3, <1>6, <2>1 DEF RecordsStay, Inherits, i
  <2>2. CASE j # i  BY <1>3, <2>2, InterruptsAssumption DEF RecordsStay
  <2> QED BY <2>1, <2>2
<1> QED BY <1>10, <1>11, <1>12, <1>13, <1>14, <1>15

LEMMA StepLedger ==
  ASSUME Inv, Orderly, LedgerInv, [Next]_vars
  PROVE  LedgerInv' /\ \A i \in Anonymous : RecordsStay(i)
<1>0. TypeInv  BY DEF Inv
<1>1. ASSUME NEW h \in Handlers, PauseStep(h) PROVE NoCopy
  <2>1. CASE PauseStore(h) \/ (PausePersistFails(h) /\ OwnsBoundary(h))
    BY <2>1, ReplacingIsNoCopy
  <2> QED BY <1>0, <1>1, <2>1, PausingIsNoCopy DEF PauseStep
<1>2. ASSUME NEW h \in Handlers, NEW i \in Interrupts,
             PauseCall(h, i) \/ \E c \in Callers : PauseAgainCall(h, c, i)
      PROVE  NoCopy
  BY <1>0, <1>2, CallingIsNoCopy
<1>3. ASSUME NEW c \in Callers, ContinueStep(c) \/ ContinueAborts(c),
             ~(ContinueClaim(c) \/ ContinueDispatched(c) \/ ContinueResumed(c))
      PROVE  NoCopy
  BY <1>0, <1>3, ContinuingIsNoCopy, EndingIsNoCopy DEF ContinueStep
<1>4. ASSUME NEW c \in Callers, NEW i \in Interrupts, NEW r \in RequestKeys, NEW v \in Values,
             ContinueCall(c, i, r, v)
      PROVE  NoCopy
  BY <1>0, <1>4, ContinuingIsNoCopy
<1>5. CASE \/ Seal \/ Unseal \/ CloseStep \/ UNCHANGED vars
           \/ \E policy \in {"error", "cancel"} : CloseCall(policy)
           \/ \E S \in SUBSET Interrupts : EventResumes(S)
  BY <1>0, <1>5, SettlingIsNoCopy, NoCopyKeepsLedger
<1>6. ASSUME NEW c \in Callers, ContinueClaim(c) \/ ContinueDispatched(c) \/ ContinueResumed(c)
      PROVE  LedgerInv' /\ \A i \in Anonymous : RecordsStay(i)
  BY <1>6, CopyingKeepsLedger
<1> QED BY <1>1, <1>2, <1>3, <1>4, <1>5, <1>6, NoCopyKeepsLedger DEF Next

LEMMA InitLedger == Init => LedgerInv
<1> SUFFICES ASSUME Init PROVE LedgerInv
  OBVIOUS
<1> QED BY DEF Init, LedgerInv, OneServes, ResumedForGood, OpensOnce, KeepsRecord, CopyKeepsLedger,
               Serving, Using, Resuming

\* What continue_with dispatches for a request of a generated interrupt is the value that the
\* request was accepted with, however often and with whatever values it is delivered.
THEOREM RequestsKeepValues ==
  ASSUME OneUseAtATime
  PROVE  Spec => []RequestKeepsValue
<1>1. Init => PauseInv /\ LedgerInv
  BY InitPauseInv, InitLedger
<1>2. PauseInv /\ LedgerInv /\ [Next]_vars => (PauseInv /\ LedgerInv)'
  BY StepPauseInv, StepLedger DEF PauseInv
<1>3. PauseInv /\ LedgerInv => RequestKeepsValue
  BY DEF LedgerInv, KeepsRecord, RequestKeepsValue, Using, Recorded
<1> QED BY <1>1, <1>2, <1>3, PTL DEF Spec

\* No step loses a record of a generated interrupt's ledger: what a caller writes back, whole,
\* after its awaits has every record that was made meanwhile.
THEOREM LedgersAreKept ==
  ASSUME OneUseAtATime
  PROVE  Spec => LedgerKept
<1>1. Init => PauseInv /\ LedgerInv
  BY InitPauseInv, InitLedger
<1>2. PauseInv /\ LedgerInv /\ [Next]_vars => (PauseInv /\ LedgerInv)'
  BY StepPauseInv, StepLedger DEF PauseInv
<1>3. PauseInv /\ LedgerInv /\ [Next]_vars =>
        [\A i \in Anonymous, r \in Requests :
           (store'[i].gen = store[i].gen /\ store[i].reqs[r].state # "none")
           => store'[i].reqs[r].state # "none"]_store
  BY StepLedger DEF PauseInv, RecordsStay
<1> QED BY <1>1, <1>2, <1>3, PTL DEF Spec, LedgerKept

-----------------------------------------------------------------------------
(* The refinement: what a stored entry and the dispatches are to the contract *)

Abstract(e) ==
  [state |-> IF e.status = "waiting" /\ e.claim # Nobody THEN "claimed" ELSE e.status,
   gen   |-> e.gen]

Delivered == {[id |-> d.id, gen |-> d.gen] : d \in dispatched}

LEMMA WaitsAre ==
  /\ waitState = [i \in Interrupts |-> Abstract(store[i])]
  /\ \A i \in Interrupts : waitState[i] = Abstract(store[i])
BY DEF waitState, Abstract

LEMMA AbstractFacts ==
  ASSUME NEW e
  PROVE  /\ Abstract(e).gen = e.gen
         /\ e.status # "waiting" => Abstract(e).state = e.status
         /\ e.status = "waiting" /\ e.claim = Nobody => Abstract(e).state = "waiting"
         /\ e.status = "waiting" /\ e.claim # Nobody => Abstract(e).state = "claimed"
         /\ Abstract(e) = [state |-> Abstract(e).state, gen |-> e.gen]
BY DEF Abstract

LEMMA StateReplaced ==
  \A x, g, r, s : x = [state |-> r, gen |-> g] => [x EXCEPT !.state = s] = [state |-> s, gen |-> g]
OBVIOUS

LEMMA DeliveredIs == \A i, g : [id |-> i, gen |-> g] \in Delivered <=> Settled(i, g)
<1> SUFFICES ASSUME NEW i, NEW g PROVE [id |-> i, gen |-> g] \in Delivered <=> Settled(i, g)
  OBVIOUS
<1>1. \A d : [id |-> i, gen |-> g] = [id |-> d.id, gen |-> d.gen] <=> d.id = i /\ d.gen = g
  <2> SUFFICES ASSUME NEW d
               PROVE  [id |-> i, gen |-> g] = [id |-> d.id, gen |-> d.gen] <=> d.id = i /\ d.gen = g
    OBVIOUS
  <2>1. [id |-> i, gen |-> g].id = i /\ [id |-> i, gen |-> g].gen = g
    OBVIOUS
  <2>2. [id |-> d.id, gen |-> d.gen].id = d.id /\ [id |-> d.id, gen |-> d.gen].gen = d.gen
    OBVIOUS
  <2> QED BY <2>1, <2>2
<1> QED BY <1>1 DEF Delivered, Settled

LEMMA OneWaitChanges ==
  ASSUME NEW i \in Interrupts, NEW e, TypeInv, store' = [store EXCEPT ![i] = e]
  PROVE  waitState' = [waitState EXCEPT ![i] = Abstract(e)]
<1>1. store'[i] = e /\ \A j \in Interrupts : j # i => store'[j] = store[j]
  BY DEF TypeInv, TypeOK
<1>2. waitState' = [j \in Interrupts |-> Abstract(store'[j])]
  BY WaitsAre DEF waitState, Abstract
<1> HIDE DEF Abstract
<1> QED BY <1>1, <1>2, WaitsAre

LEMMA NoWaitChanges ==
  ASSUME TypeInv, SameWaits
  PROVE  UNCHANGED waitState
BY DEF SameWaits, waitState

ContractStep == [Contract!Next]_<<waitState, Delivered>>

LEMMA ContractMoves ==
  /\ \A i \in Interrupts :
       \/ Contract!Open(i) \/ Contract!Withdraw(i) \/ Contract!Claim(i)
       \/ Contract!Resume(i) \/ Contract!Deliver(i)
       => ContractStep
  /\ \A S \in SUBSET Interrupts : Contract!Answer(S) => ContractStep
  /\ \A d \in Delivered : Contract!Fail(d) => ContractStep
  /\ Contract!Cancel => ContractStep
<1>1. ASSUME NEW i \in Interrupts,
             \/ Contract!Open(i) \/ Contract!Withdraw(i) \/ Contract!Claim(i)
             \/ Contract!Resume(i) \/ Contract!Deliver(i)
      PROVE  ContractStep
  BY <1>1, Zenon DEF Contract!Next, ContractStep
<1>2. ASSUME NEW S \in SUBSET Interrupts, Contract!Answer(S) PROVE ContractStep
  BY <1>2, Zenon DEF Contract!Next, ContractStep
<1>3. ASSUME NEW d \in Delivered, Contract!Fail(d) PROVE ContractStep
  BY <1>3, Zenon DEF Contract!Next, ContractStep, Delivered
<1>4. ASSUME Contract!Cancel PROVE ContractStep
  BY <1>4, Zenon DEF Contract!Next, ContractStep
<1> QED BY <1>1, <1>2, <1>3, <1>4

LEMMA OpensIsContract ==
  ASSUME Inv, Orderly, NEW h \in Handlers, PauseStore(h)
  PROVE  ContractStep
<1> DEFINE i == hl[h].id
<1>1. i \in Interrupts /\ store[i].status # "waiting" /\ store[i] \in Entry
  BY StoringIsOrderly DEF Inv, TypeInv, TypeOK
<1>2. hl[h].gen \in 0 .. MaxGen /\ hl[h].gen > store[i].gen /\ store[i].gen \in Nat
  BY <1>1, StoringIsOrderly, Suspended DEF Inv
<1>3. PICK e : /\ store' = [store EXCEPT ![i] = e]
               /\ e.status = "waiting" /\ e.claim = Nobody /\ e.gen = hl[h].gen
  BY StoringIsOrderly
<1>4. UNCHANGED Delivered  BY StoringIsOrderly DEF Delivered
<1>5. Abstract(e) = [state |-> "waiting", gen |-> hl[h].gen]  BY <1>3 DEF Abstract
<1>6. waitState' = [waitState EXCEPT ![i] = [state |-> "waiting", gen |-> hl[h].gen]]
  BY <1>1, <1>3, <1>5, OneWaitChanges DEF Inv
<1>7. waitState[i].gen = store[i].gen /\ waitState[i].state \in {"absent", "resumed", "cancelled"}
  BY <1>1, WaitsAre, AbstractFacts DEF Entry
<1> HIDE DEF i
<1>8. Contract!Open(i)
  BY <1>2, <1>4, <1>6, <1>7 DEF Contract!Open, Contract!Settled, Delivered
<1> QED BY <1>1, <1>8, ContractMoves

LEMMA WithdrawsIsContract ==
  ASSUME Inv, Orderly, NEW h \in Handlers, PausePersistFails(h), OwnsBoundary(h)
  PROVE  ContractStep
<1> DEFINE i == hl[h].id
           p == hl[h].prev
<1>1. /\ i \in Interrupts /\ store' = [store EXCEPT ![i] = p]
      /\ store[i].status = "waiting" /\ store[i].claim = Nobody
      /\ p.status # "waiting" /\ p.gen < store[i].gen /\ p.gen \in 0 .. MaxGen
      /\ UNCHANGED Delivered
  BY WithdrawingIsOrderly DEF Delivered
<1>2. p.status \in {"absent", "resumed", "cancelled"}
  BY <1>1, Suspended DEF Inv, Entry
<1> HIDE DEF i, p
<1>3. Abstract(p) = [state |-> p.status, gen |-> p.gen]  BY <1>1 DEF Abstract
<1>4. waitState' = [waitState EXCEPT ![i] = [state |-> p.status, gen |-> p.gen]]
  BY <1>1, <1>3, OneWaitChanges DEF Inv
<1>5. waitState[i].gen = store[i].gen /\ waitState[i].state = "waiting"
  BY <1>1, WaitsAre, AbstractFacts
<1>6. Contract!Withdraw(i)
  BY <1>1, <1>2, <1>4, <1>5 DEF Contract!Withdraw, Contract!Settled, Delivered
<1> QED BY <1>1, <1>6, ContractMoves

LEMMA WritesIsContract ==
  ASSUME Inv, Orderly, NEW c \in Callers, NEW e, Writes(c, e)
  PROVE  ContractStep
<1> DEFINE i == cl[c].id
<1>1. /\ i \in Interrupts /\ store' = [store EXCEPT ![i] = e]
      /\ store[i].status = "waiting" /\ e.gen = store[i].gen
      /\ \/ e.status = "waiting" /\ e.claim = cl[c].req
         \/ e.status = "resumed"
      /\ UNCHANGED Delivered
  BY DEF Writes, StoreCopy, Delivered
<1>2. cl[c].req # Nobody  BY Suspended DEF Inv
<1> HIDE DEF i
<1>3. waitState' = [waitState EXCEPT ![i] = Abstract(e)]
  BY <1>1, OneWaitChanges DEF Inv
<1>4. waitState[i] = Abstract(store[i]) /\ waitState[i].state \in {"waiting", "claimed"}
      /\ waitState[i].gen = store[i].gen
  BY <1>1, WaitsAre, AbstractFacts
<1>5. waitState[i] = [state |-> waitState[i].state, gen |-> store[i].gen]
  BY <1>4, AbstractFacts
<1>6. \A s : [waitState EXCEPT ![i].state = s] = [waitState EXCEPT ![i] = [state |-> s, gen |-> store[i].gen]]
  <2>1. \A s : [waitState[i] EXCEPT !.state = s] = [state |-> s, gen |-> store[i].gen]
    BY <1>5
  <2> QED BY <2>1
<1>7. CASE e.status = "resumed"
  <2>1. Abstract(e) = [state |-> "resumed", gen |-> store[i].gen]  BY <1>1, <1>7 DEF Abstract
  <2>2. Contract!Resume(i)
    BY <1>1, <1>3, <1>4, <1>6, <2>1 DEF Contract!Resume, Delivered
  <2> QED BY <1>1, <2>2, ContractMoves
<1>8. CASE e.status = "waiting" /\ e.claim = cl[c].req
  <2>1. Abstract(e) = [state |-> "claimed", gen |-> store[i].gen]  BY <1>1, <1>2, <1>8 DEF Abstract
  <2>2. CASE waitState[i].state = "waiting"
    <3>1. Contract!Claim(i)
      BY <1>1, <1>3, <1>6, <2>1, <2>2 DEF Contract!Claim, Delivered
    <3> QED BY <1>1, <3>1, ContractMoves
  <2>3. CASE waitState[i].state = "claimed"
    <3>1. waitState[i] = Abstract(e)  BY <1>5, <2>1, <2>3
    <3>2. waitState' = waitState  BY <1>1, <1>3, <3>1, WaitsAre
    <3> QED BY <1>1, <3>2 DEF ContractStep
  <2> QED BY <1>4, <2>2, <2>3
<1> QED BY <1>1, <1>7, <1>8

LEMMA DeliversIsContract ==
  ASSUME Inv, Orderly, NEW c \in Callers, ContinueDispatch(c),
         lifecycle = "open" \/ closer.started
  PROVE  ContractStep
<1> DEFINE i == cl[c].id
           g == cl[c].entry.gen
<1>1. /\ i \in Interrupts /\ store[i].status = "resumed" /\ store[i].gen = g
      /\ ~Settled(i, g) /\ dispatched' = dispatched \cup {Dispatch(c)} /\ UNCHANGED store
  BY DispatchingIsOrderly
<1>2. waitState[i].state = "resumed" /\ waitState[i].gen = g
  BY <1>1, WaitsAre, AbstractFacts
<1>3. [id |-> i, gen |-> g] \notin Delivered  BY <1>1, DeliveredIs
<1>4. Delivered' = Delivered \cup {[id |-> i, gen |-> g]}
  <2>1. [id |-> Dispatch(c).id, gen |-> Dispatch(c).gen] = [id |-> i, gen |-> g]  BY DEF Dispatch
  <2> HIDE DEF i, g
  <2> QED BY <1>1, <2>1 DEF Delivered
<1>5. waitState' = waitState  BY <1>1 DEF waitState
<1> HIDE DEF i, g
<1>6. PICK j \in Interrupts : j = i  BY <1>1
<1>7. Contract!Deliver(j)
  BY <1>2, <1>3, <1>4, <1>5, <1>6 DEF Contract!Deliver, Contract!Current, Delivered
<1> QED BY <1>7, ContractMoves

LEMMA FailsIsContract ==
  ASSUME Inv, Orderly, NEW c \in Callers, ContinueFails(c)
  PROVE  ContractStep
<1> DEFINE i == cl[c].id
           g == cl[c].entry.gen
           d == [id |-> i, gen |-> g]
<1>1. /\ i \in Interrupts /\ g <= store[i].gen
      /\ Dispatch(c) \in dispatched /\ dispatched' = dispatched \ {Dispatch(c)}
      /\ \/ SameWaits
         \/ Reopens(c) /\ store[i].status = "resumed" /\ store[i].gen = g
  BY FailingIsOrderly
<1>2. Dispatch(c).id = i /\ Dispatch(c).gen = g  BY DEF Dispatch
<1>3. \A x \in dispatched : x.id = i /\ x.gen = g => x = Dispatch(c)
  BY <1>1, <1>2 DEF Inv, Exclusive, ResumedAtMostOnce
<1>4. d \in Delivered  BY <1>1, <1>2, DeliveredIs DEF Settled
<1>5. Delivered' = Delivered \ {d}
  <2>1. \A x \in dispatched : [id |-> x.id, gen |-> x.gen] = d <=> x = Dispatch(c)
    <3> SUFFICES ASSUME NEW x \in dispatched
                 PROVE  [id |-> x.id, gen |-> x.gen] = d <=> x.id = i /\ x.gen = g
      BY <1>2, <1>3
    <3>1. /\ [id |-> x.id, gen |-> x.gen].id = x.id /\ [id |-> x.id, gen |-> x.gen].gen = x.gen
          /\ d.id = i /\ d.gen = g
      OBVIOUS
    <3> QED BY <3>1
  <2> HIDE DEF d
  <2> QED BY <1>1, <2>1 DEF Delivered
<1>6. waitState[i].gen = store[i].gen  BY <1>1, WaitsAre, AbstractFacts
<1>7. store[i].gen \in Nat /\ g \in Nat  BY <1>1, Suspended DEF Inv
<1>8. PICK x \in Delivered : x = d /\ x.id = i /\ x.gen = g  BY <1>4
<1> HIDE DEF i, g, d
<1>9. CASE SameWaits
  <2>1. waitState' = waitState  BY <1>9, NoWaitChanges DEF Inv
  <2>2. Contract!Fail(x)
    BY <1>1, <1>4, <1>5, <1>6, <1>7, <1>8, <2>1 DEF Contract!Fail, Delivered
  <2> QED BY <2>2, ContractMoves
<1>10. CASE Reopens(c) /\ store[i].status = "resumed" /\ store[i].gen = g
  <2>1. PICK e : /\ store' = [store EXCEPT ![i] = e]
                 /\ e.status = "waiting" /\ e.claim = Nobody /\ e.gen = g
    BY <1>10 DEF Reopens, i
  <2>2. Abstract(e) = [state |-> "waiting", gen |-> g]  BY <2>1 DEF Abstract
  <2>3. waitState' = [waitState EXCEPT ![i] = [state |-> "waiting", gen |-> g]]
    BY <1>1, <2>1, <2>2, OneWaitChanges DEF Inv
  <2>4. waitState[i] = [state |-> "resumed", gen |-> g]
    BY <1>1, <1>10, WaitsAre DEF Abstract
  <2>5. waitState' = [waitState EXCEPT ![i].state = "waiting"]
    <3>1. [waitState[i] EXCEPT !.state = "waiting"] = [state |-> "waiting", gen |-> g]  BY <2>4
    <3> QED BY <2>3, <3>1
  <2>6. Contract!Fail(x)
    BY <1>1, <1>4, <1>5, <1>6, <1>7, <1>8, <1>10, <2>4, <2>5 DEF Contract!Fail, Delivered
  <2> QED BY <2>6, ContractMoves
<1> QED BY <1>1, <1>9, <1>10

\* How settling the waits of S looks to the contract.
LEMMA SettlesInContract ==
  ASSUME TypeInv, NEW S \in SUBSET Unclaimed(store), NEW s \in {"resumed", "cancelled"}, NEW w,
         store' = [i \in Interrupts |->
                     IF i \in S THEN SettledAs(store[i], s, w) ELSE store[i]]
  PROVE  /\ waitState' = [i \in Interrupts |->
                            IF i \in S THEN [waitState[i] EXCEPT !.state = s] ELSE waitState[i]]
         /\ \A i \in S : i \in Interrupts /\ Open(store[i])
<1> DEFINE f(e) == SettledAs(e, s, w)
<1>1. \A i \in S : i \in Interrupts /\ store[i].status = "waiting" /\ store[i].claim = Nobody
  BY DEF Unclaimed, Waiting
<1>2. \A i \in Interrupts : f(store[i]).status = s /\ f(store[i]).gen = store[i].gen
  BY DEF TypeInv, TypeOK, Entry, SettledAs
<1>3. \A i \in Interrupts : store'[i] = IF i \in S THEN f(store[i]) ELSE store[i]
  OBVIOUS
<1> HIDE DEF f
<1>4. \A i \in S : Abstract(store'[i]) = [waitState[i] EXCEPT !.state = s]
  <2> SUFFICES ASSUME NEW i \in S PROVE Abstract(store'[i]) = [waitState[i] EXCEPT !.state = s]
    OBVIOUS
  <2>1. Abstract(store'[i]) = [state |-> s, gen |-> store[i].gen]
    <3>1. i \in Interrupts /\ store'[i].status = s /\ store'[i].gen = store[i].gen
      BY <1>1, <1>2, <1>3
    <3>2. s # "waiting"  OBVIOUS
    <3> QED BY <3>1, <3>2 DEF Abstract
  <2>2. waitState[i] = [state |-> "waiting", gen |-> store[i].gen]
    BY <1>1, WaitsAre DEF Abstract
  <2>3. [waitState[i] EXCEPT !.state = s] = [state |-> s, gen |-> store[i].gen]
    BY <2>2, StateReplaced
  <2> QED BY <2>1, <2>3
<1>5. waitState' = [i \in Interrupts |-> Abstract(store'[i])]
  BY DEF waitState, Abstract
<1>6. \A i \in Interrupts \ S : Abstract(store'[i]) = waitState[i]
  BY <1>3, WaitsAre
<1> HIDE DEF Abstract
<1> QED BY <1>1, <1>4, <1>5, <1>6 DEF Open

LEMMA AnswersIsContract ==
  ASSUME Inv, NEW S \in SUBSET Interrupts, EventResumes(S)
  PROVE  ContractStep
<1> DEFINE hit == S \cap Unclaimed(store)
           answer(i) == [id |-> i, gen |-> store[i].gen, req |-> NoRequest, by |-> Nobody]
           current(i) == [id |-> i, gen |-> waitState[i].gen]
<1>1. hit # {} /\ dispatched' = dispatched \cup {answer(i) : i \in hit}
  BY DEF EventResumes
<1>2. /\ waitState' = [i \in Interrupts |->
                         IF i \in hit THEN [waitState[i] EXCEPT !.state = "resumed"] ELSE waitState[i]]
      /\ \A i \in hit : i \in Interrupts /\ Open(store[i])
  <2>1. hit \in SUBSET Unclaimed(store)  OBVIOUS
  <2> QED BY <2>1, SettlesInContract DEF Inv, EventResumes, SettledAs
<1>3. \A i \in hit : ~Settled(i, store[i].gen)
  BY <1>2 DEF Inv, Exclusive, OpenIsFree, Free
<1>4. \A i \in hit : waitState[i].state = "waiting" /\ waitState[i].gen = store[i].gen
  BY <1>2, WaitsAre, AbstractFacts DEF Open
<1>5. \A i \in hit : current(i) \notin Delivered
  BY <1>3, <1>4, DeliveredIs
<1>6. Delivered' = Delivered \cup {current(i) : i \in hit}
  <2>1. \A i \in hit : [id |-> answer(i).id, gen |-> answer(i).gen] = current(i)
    BY <1>4
  <2> HIDE DEF answer, current, hit
  <2> QED BY <1>1, <2>1 DEF Delivered
<1> HIDE DEF hit
<1>7. PICK R \in SUBSET Interrupts : R = hit  BY <1>2
<1>8. Contract!Answer(R)
  BY <1>1, <1>2, <1>4, <1>5, <1>6, <1>7 DEF Contract!Answer, Contract!Current, Delivered
<1> QED BY <1>8, ContractMoves

LEMMA CancelsIsContract ==
  ASSUME Inv, CancelPending, UNCHANGED dispatched
  PROVE  ContractStep
<1>1. /\ waitState' = [i \in Interrupts |->
                         IF i \in Unclaimed(store) THEN [waitState[i] EXCEPT !.state = "cancelled"]
                         ELSE waitState[i]]
      /\ \A i \in Unclaimed(store) : i \in Interrupts /\ Open(store[i])
  <2>1. Unclaimed(store) \in SUBSET Unclaimed(store)  OBVIOUS
  <2> QED BY <2>1, SettlesInContract DEF Inv, CancelPending, SettledAs
<1>2. \A i \in Interrupts : i \in Unclaimed(store) <=> waitState[i].state = "waiting"
  BY WaitsAre, AbstractFacts DEF Unclaimed, Waiting
<1>3. UNCHANGED Delivered  BY DEF Delivered
<1>4. CASE Unclaimed(store) = {}
  <2>1. waitState' = waitState  BY <1>1, <1>4, WaitsAre
  <2> QED BY <1>3, <2>1 DEF ContractStep
<1>5. CASE Unclaimed(store) # {}
  <2>1. waitState' = [i \in Interrupts |->
                        IF waitState[i].state = "waiting"
                          THEN [waitState[i] EXCEPT !.state = "cancelled"] ELSE waitState[i]]
    BY <1>1, <1>2
  <2>2. \E i \in Interrupts : waitState[i].state = "waiting"  BY <1>1, <1>2, <1>5
  <2>3. Contract!Cancel  BY <1>3, <2>1, <2>2 DEF Contract!Cancel, Delivered
  <2> QED BY <2>3, ContractMoves
<1> QED BY <1>4, <1>5

LEMMA SilentIsContract == TypeInv /\ Silent => ContractStep
BY NoWaitChanges DEF Silent, ContractStep, Delivered

LEMMA StepKeepsContract ==
  ASSUME OneUseAtATime
  PROVE  Inv /\ Orderly /\ NeverOpened /\ [Next]_vars => ContractStep
<1> SUFFICES ASSUME Inv, Orderly, NeverOpened, [Next]_vars PROVE ContractStep
  OBVIOUS
<1>0. TypeInv /\ WithinGen  BY DEF Inv, Orderly
<1>1. ASSUME NEW h \in Handlers, PauseStep(h) PROVE ContractStep
  <2>1. CASE PauseStore(h)  BY <2>1, OpensIsContract
  <2>2. CASE PausePersistFails(h) /\ OwnsBoundary(h)  BY <2>2, WithdrawsIsContract
  <2>3. CASE \/ PausePlan(h)
             \/ PausePersistFails(h) /\ ~OwnsBoundary(h)
             \/ PauseProceed(h) \/ PauseSuperseded(h) \/ PausePublished(h) \/ PausePublishFails(h)
             \/ PauseExposed(h) \/ PauseReturns(h) \/ PauseAborts(h) \/ HandlerCollected(h)
    <3>1. Silent  BY <1>0, <2>3, PausingIsSilent
    <3> QED BY <1>0, <3>1, SilentIsContract
  <2> QED BY <1>1, <2>1, <2>2, <2>3 DEF PauseStep
<1>2. ASSUME NEW h \in Handlers, NEW i \in Interrupts,
             PauseCall(h, i) \/ \E c \in Callers : PauseAgainCall(h, c, i)
      PROVE  ContractStep
  <2>1. UNCHANGED <<store, dispatched>>  BY <1>0, <1>2, CallsEnter DEF Enters
  <2> QED BY <2>1 DEF ContractStep, waitState, Delivered
<1>3. ASSUME NEW c \in Callers, ContinueStep(c) \/ ContinueAborts(c) PROVE ContractStep
  <2>1. CASE ContinueClaim(c) \/ ContinueDispatched(c) \/ ContinueResumed(c)
    BY <1>0, <2>1, CopiesWrite, WritesIsContract
  <2>2. CASE ContinueDispatch(c) /\ (lifecycle = "open" \/ closer.started)
    BY <2>2, DeliversIsContract
  <2>3. CASE ContinueFails(c)  BY <2>3, FailsIsContract
  <2> QED BY <1>0, <1>3, <2>1, <2>2, <2>3, ContinuingIsSilent, SilentIsContract DEF ContinueStep
<1>4. ASSUME NEW c \in Callers, NEW i \in Interrupts, NEW r \in RequestKeys, NEW v \in Values,
             ContinueCall(c, i, r, v)
      PROVE  ContractStep
  BY <1>0, <1>4, ContinuingIsSilent, SilentIsContract
<1>5. ASSUME NEW S \in SUBSET Interrupts, EventResumes(S) PROVE ContractStep
  BY <1>5, AnswersIsContract
<1>6. CASE \/ Seal \/ Unseal \/ CloseStep \/ UNCHANGED vars
           \/ \E policy \in {"error", "cancel"} : CloseCall(policy)
  <2>1. CASE ~CancelPending  BY <1>0, <1>6, <2>1, ClosingIsSilent, SilentIsContract
  <2>2. CASE CancelPending
    <3>1. UNCHANGED dispatched
      BY <1>6 DEF Seal, Unseal, CloseStep, CloseCall, CloseSeal, DrainEnds, CloseLook, CloseFreeze,
                  CloseFails, CloseFinish, vars
    <3> QED BY <2>2, <3>1, CancelsIsContract
  <2> QED BY <2>1, <2>2
<1> QED BY <1>1, <1>2, <1>3, <1>4, <1>5, <1>6 DEF Next

LEMMA InitKeepsContract == Init => Contract!Init
<1> SUFFICES ASSUME Init PROVE Contract!Init
  OBVIOUS
<1>1. waitState = [i \in Interrupts |-> [state |-> "absent", gen |-> 0]]
  BY DEF Init, waitState, Absent
<1>2. Delivered = {}  BY DEF Init, Delivered
<1> QED BY <1>1, <1>2 DEF Contract!Init, Delivered

\* The stored interrupts implement the contract of a wait, if no chosen id is paused again while
\* it is in use: whatever the order of the awaits, a wait is opened over a settled one,
\* claimed once, resumed once and delivered once, only an unclaimed wait is withdrawn,
\* answered by an event or cancelled by a close, and only a failed delivery reopens one.
THEOREM ContractKept ==
  ASSUME OneUseAtATime
  PROVE  Spec => KeepsContract
<1>1. Init => PauseInv /\ Contract!Init
  BY InitPauseInv, InitKeepsContract
<1>2. PauseInv /\ [Next]_vars => PauseInv'
  BY StepPauseInv
<1>3. PauseInv /\ [Next]_vars => [Contract!Next]_(Contract!contractVars)
  BY StepKeepsContract DEF PauseInv, ContractStep, Contract!contractVars, Delivered
<1> QED BY <1>1, <1>2, <1>3, PTL DEF Spec, KeepsContract, Contract!Spec
=============================================================================
