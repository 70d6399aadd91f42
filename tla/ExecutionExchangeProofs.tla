----------------------- MODULE ExecutionExchangeProofs -----------------------
(***************************************************************************)
(* For any number of hosts, waits and calls: the types of the exchange, and *)
(* that a host can go on answering the waits of a run that ended paused.    *)
(*                                                                         *)
(* The argument: until the run has paused, only the wait it is at is        *)
(* registered, without hooks.  When it pauses, nobody is answering, so the  *)
(* entries it registers are the ones a host will find.  From then on the    *)
(* key of a wait is taken away only when the wait is decided; an answer     *)
(* that fails leaves its own wait registered, even if its run had opened    *)
(* another one, and the host whose answer succeeds registers what is        *)
(* pending before it ends.                                                  *)
(***************************************************************************)
EXTENDS ExecutionExchange, FiniteSetTheorems, WellFoundedInduction, TLAPS

DriverSteps == {"start", "resolving", "notifying", "hot", "pausing", "paused", "failed", "finished"}
AnswerSteps == {"claimed", "resumed", "running", "publishing"}
HostSteps == {"idle", "found", "answered", "ending"}
CloseSteps == {"lock", "draining", "drained", "settled"}

\* What TypeOK does not say of the tasks.
Shapes ==
    /\ pc \in [Tasks -> DriverSteps \cup AnswerSteps \cup HostSteps \cup CloseSteps]
    /\ at \in [Tasks -> 0 .. MaxWaits]
    /\ call \in [Tasks -> {"respond", "abandon", "close", None}]
    /\ todo \subseteq Waits
    /\ pc[Driver] \notin HostSteps
    /\ \A t \in Tasks :
          pc[t] \in AnswerSteps \cup {"notifying", "hot", "pausing", "paused"} => at[t] \in Waits
    /\ \A h \in Hosts :
          /\ pc[h] \notin DriverSteps
          /\ pc[h] \in AnswerSteps \cup {"found", "answered", "ending"} => call[h] = "respond"
          /\ pc[h] \in CloseSteps => call[h] \in {"respond", "abandon", "close"}
          /\ pc[h] # "idle" /\ call[h] \in {"respond", "abandon"} => entry[h] # None /\ at[h] \in Waits

\* A wait is claimed by the one task that answers it.
Claimed ==
    /\ \A t \in Tasks : /\ pc[t] = "claimed" => claim[at[t]] # None
                        /\ pc[t] \in {"resumed", "running", "publishing"} => wait[at[t]] = "resumed"
    /\ \A t, u \in Tasks :
          pc[t] \in AnswerSteps /\ pc[u] \in AnswerSteps /\ at[t] = at[u] => t = u
    /\ \A n \in Waits : claim[n] # None => \E t \in Tasks : pc[t] = "claimed" /\ at[t] = n

\* The answer to n was dispatched and its run is over, or n was cancelled.
Decided(n) ==
    /\ wait[n] \in {"resumed", "cancelled"}
    /\ \A t \in Tasks : at[t] = n => pc[t] \notin {"resumed", "running", "publishing"}

\* Who has to do with a wait, has to do with one that was opened.
Begun ==
    /\ pc[Driver] = "start" => \A n \in Waits : wait[n] = "absent"
    /\ pc[Driver] \in {"notifying", "hot", "pausing", "paused"} => wait[at[Driver]] # "absent"
    /\ \A n \in Waits : live[n] # None => wait[n] # "absent"
    /\ \A h \in Hosts : Responding(h) => wait[at[h]] # "absent"
    /\ \A n \in todo : wait[n] # "absent"

BeforePause ==
    pc[Driver] # "paused" =>
        /\ \A n \in Waits : live[n] # None =>
              /\ pc[Driver] \in AnswerSteps \cup {"hot"}
              /\ n = at[Driver] /\ entry[Driver] # None /\ ~live[n].hooks
        /\ \A h \in Hosts : Responding(h) => ~entry[h].hooks

Pausing ==
    pc[Driver] = "pausing" /\ history = {} =>
        Pending \subseteq todo /\ \A h \in Hosts : ~Responding(h)

\* A host whose answer is on its way, and which will register what is pending after it.
Registering(h) ==
    pc[h] \in {"resumed", "running", "publishing", "answered"} /\ entry[h].hooks

\* A host can find a pending wait, or will be able to.
Reachable ==
    \/ Pending = {}
    \/ \E n \in Pending : live[n] # None
    \/ \E h \in Hosts : Registering(h)

AfterPause ==
    pc[Driver] = "paused" /\ history = {} /\ lifecycle # "closed" =>
        /\ \A n \in Waits : live[n] # None => live[n].hooks
        /\ \A h \in Hosts : Responding(h) =>
              \/ Decided(at[h])
              \/ pc[h] \in AnswerSteps \cup {"found"} /\ entry[h].hooks /\ live[at[h]] # None
        /\ Reachable

Registry == Begun /\ BeforePause /\ Pausing /\ AfterPause

-----------------------------------------------------------------------------
(* Numbers *)

LEMMA MinIn ==
  ASSUME NEW S \in SUBSET Nat, S # {}
  PROVE  Min(S) \in S /\ \A k \in S : Min(S) <= k
<1>1. PICK s \in S : \A t \in S : ~ (<<t, s>> \in OpToRel(<, Nat))
  BY NatLessThanWellFounded, WFMin
<1>2. ASSUME NEW t \in S
      PROVE  s =< t
  <2>1. s \in Nat /\ t \in Nat  OBVIOUS
  <2>2. t < s => <<t, s>> \in OpToRel(<, Nat)  BY <2>1 DEF OpToRel
  <2>3. ~ (t < s)  BY <1>1, <2>2, Zenon
  <2> QED  BY <2>1, <2>3
<1> QED  BY <1>2 DEF Min

\* There are more numbers than tasks that could keep them.
LEMMA FreshNumber ==
  ASSUME NEW n
  PROVE  Fresh(n) \in 0 .. Cardinality(Tasks)
<1>1. IsFiniteSet(Tasks) /\ Cardinality(Tasks) \in Nat
  BY ExchangeAssumption, FS_AddElement, FS_CardinalityType DEF Tasks
<1> DEFINE N == Cardinality(Tasks)
           free == {k \in 0 .. N : \A t \in Tasks : entry[t] = None \/ entry[t].wait # n \/ entry[t].nr # k}
<1>2. free # {}
  <2> SUFFICES ASSUME free = {} PROVE FALSE  OBVIOUS
  <2>1. \A k \in 0 .. N : \E t \in Tasks : entry[t].nr = k  OBVIOUS
  <2> DEFINE f == [k \in 0 .. N |-> CHOOSE t \in Tasks : entry[t].nr = k]
  <2>2. \A k \in 0 .. N : f[k] \in Tasks /\ entry[f[k]].nr = k  BY <2>1
  <2> HIDE DEF f
  <2>3. f \in [0 .. N -> Tasks]  BY <2>2 DEF f
  <2>4. IsFiniteSet(0 .. N) /\ Cardinality(0 .. N) = N + 1  BY <1>1, FS_Interval
  <2>5. Cardinality(Tasks) < Cardinality(0 .. N)  BY <1>1, <2>4
  <2>6. PICK i \in 0 .. N, j \in 0 .. N : i # j /\ f[i] = f[j]
    BY <1>1, <2>3, <2>4, <2>5, FS_PigeonHole
  <2> QED  BY <2>2, <2>6
<1>3. free \in SUBSET Nat  BY <1>1
<1>4. Min(free) \in free  BY <1>2, <1>3, MinIn
<1> QED  BY <1>4 DEF Fresh

LEMMA NewEntryTyped ==
  ASSUME NEW n \in Waits, NEW hooks \in BOOLEAN
  PROVE  /\ NewEntry(n, hooks) \in Entries /\ NewEntry(n, hooks) # None
         /\ NewEntry(n, hooks).wait = n /\ NewEntry(n, hooks).hooks = hooks
<1>1. PICK k \in 0 .. Cardinality(Tasks) : k = Fresh(n)  BY FreshNumber
<1>2. NewEntry(n, hooks) = [wait |-> n, nr |-> k, hooks |-> hooks]  BY <1>1 DEF NewEntry
<1>3. NewEntry(n, hooks) \in Entries  BY <1>2 DEF Entries
<1> QED  BY <1>2, <1>3, NoneAssumption

\* The run opens a wait that was absent.
LEMMA NextWait ==
  ASSUME NEW t, RunOpens(t)
  PROVE  \E m \in Waits : wait[m] = "absent" /\ wait' = [wait EXCEPT ![m] = "waiting"]
<1> DEFINE absent == {n \in Waits : wait[n] = "absent"}
<1>1. absent # {} /\ wait' = [wait EXCEPT ![Min(absent)] = "waiting"]  BY DEF RunOpens
<1>2. absent \in SUBSET Nat  BY ExchangeAssumption DEF Waits
<1> HIDE DEF absent
<1>3. PICK m \in absent : m = Min(absent)  BY <1>1, <1>2, MinIn
<1> QED  BY <1>1, <1>3 DEF absent

-----------------------------------------------------------------------------
(* Types *)

EntryTypes ==
    /\ live \in [Waits -> Entries \cup {None}]
    /\ \A n \in Waits : live[n] # None => live[n].wait = n
    /\ entry \in [Tasks -> Entries \cup {None}]
    /\ woken \in BOOLEAN /\ watching \in BOOLEAN /\ released \in BOOLEAN

InterruptTypes ==
    /\ wait \in [Waits -> {"absent", "waiting", "resumed", "cancelled"}]
    /\ claim \in [Waits -> Requests \cup {Driver, None}]
    /\ \A n \in Waits : claim[n] # None => wait[n] = "waiting"
    /\ known \in [Waits -> SUBSET (Requests \cup {Driver})]
    /\ lifecycle \in {"open", "sealed", "closed"}

LEMMA TypeParts == TypeOK <=> EntryTypes /\ InterruptTypes
<1>1. {woken, watching, released} \subseteq BOOLEAN
        <=> woken \in BOOLEAN /\ watching \in BOOLEAN /\ released \in BOOLEAN
  BY Zenon
<1> QED  BY <1>1, Zenon DEF TypeOK, EntryTypes, InterruptTypes

LEMMA TypePartsNext == EntryTypes' /\ InterruptTypes' => TypeOK'
<1>1. {woken', watching', released'} \subseteq BOOLEAN
        <=> woken' \in BOOLEAN /\ watching' \in BOOLEAN /\ released' \in BOOLEAN
  BY Zenon
<1> QED  BY <1>1, Zenon DEF TypeOK, EntryTypes, InterruptTypes

LEMMA LeaveHotTyped ==
  ASSUME EntryTypes, LeaveHot
  PROVE  /\ live' \in [Waits -> Entries \cup {None}]
         /\ \A n \in Waits : live'[n] # None => live'[n].wait = n
         /\ entry' \in [Tasks -> Entries \cup {None}]
         /\ woken' \in BOOLEAN /\ watching' \in BOOLEAN
         /\ \A n \in Waits : live'[n] = IF n = at[Driver] THEN None ELSE live[n]
         /\ \A u \in Tasks : entry'[u] = IF u = Driver THEN None ELSE entry[u]
         /\ watching' = watching /\ woken' = FALSE
<1>1. /\ live' = [live EXCEPT ![at[Driver]] = None]
      /\ entry' = [entry EXCEPT ![Driver] = None]
      /\ woken' = FALSE /\ watching' = watching
  BY DEF LeaveHot, Unregistered
<1>2. live' \in [Waits -> Entries \cup {None}]  BY <1>1 DEF EntryTypes
<1>3. entry' \in [Tasks -> Entries \cup {None}]  BY <1>1 DEF EntryTypes
<1>4. \A n \in Waits : live'[n] = IF n = at[Driver] THEN None ELSE live[n]  BY <1>1 DEF EntryTypes
<1>5. \A u \in Tasks : entry'[u] = IF u = Driver THEN None ELSE entry[u]  BY <1>1 DEF EntryTypes, Tasks
<1>6. \A n \in Waits : live'[n] # None => live'[n].wait = n  BY <1>4 DEF EntryTypes
<1>7. woken' \in BOOLEAN /\ watching' \in BOOLEAN  BY <1>1, Zenon DEF EntryTypes
<1> QED  BY <1>1, <1>2, <1>3, <1>4, <1>5, <1>6, <1>7

LEMMA ReturnEffect ==
  ASSUME EntryTypes, NEW t \in Tasks, ContinueReturns(t)
  PROVE  /\ EntryTypes'
         /\ Goes(t, IF t = Driver THEN "resolving" ELSE "answered")
         /\ released' = released /\ watching' = watching
         /\ \A u \in Hosts : entry'[u] = entry[u]
         /\ t = Driver => entry'[Driver] = None
         /\ t # Driver => live' = live /\ entry' = entry /\ woken' = woken
         /\ \A n \in Waits : live'[n] = IF t = Driver /\ entry[Driver] # None /\ n = at[Driver]
                                          THEN None ELSE live[n]
<1>1. CASE t = Driver /\ entry[t] # None
  <2>1. LeaveHot /\ released' = released /\ Goes(t, "resolving")  BY <1>1 DEF ContinueReturns
  <2>2. released' \in BOOLEAN  BY <2>1, Zenon DEF EntryTypes
  <2>3. EntryTypes'  BY <2>1, <2>2, LeaveHotTyped DEF EntryTypes
  <2> QED  BY <1>1, <2>1, <2>3, LeaveHotTyped, ExchangeAssumption DEF Tasks
<1>2. CASE ~ (t = Driver /\ entry[t] # None)
  <2>1. /\ live' = live /\ woken' = woken /\ watching' = watching /\ released' = released
        /\ entry' = entry /\ Goes(t, IF t = Driver THEN "resolving" ELSE "answered")
    BY <1>2 DEF ContinueReturns, entryVars
  <2>2. EntryTypes'  BY <2>1, Zenon DEF EntryTypes
  <2> QED  BY <1>2, <2>1, <2>2
<1> QED  BY <1>1, <1>2

LEMMA RaiseEffect ==
  ASSUME EntryTypes, NEW t \in Tasks, ContinueRaises(t)
  PROVE  /\ EntryTypes'
         /\ Goes(t, IF t = Driver THEN "failed" ELSE "idle")
         /\ watching' = watching
         /\ \A u \in Tasks \ {t} : entry'[u] = entry[u]
         /\ entry'[t] = None
         /\ t # Driver => live' = live /\ woken' = woken
         /\ \A n \in Waits : live'[n] = IF t = Driver /\ entry[Driver] # None /\ n = at[Driver]
                                          THEN None ELSE live[n]
<1>1. CASE t = Driver /\ entry[t] # None
  <2>1. LeaveHot /\ released' = TRUE /\ Goes(t, "failed")  BY <1>1 DEF ContinueRaises, DriverEnds
  <2>3. EntryTypes'  BY <2>1, LeaveHotTyped DEF EntryTypes
  <2> QED  BY <1>1, <2>1, <2>3, LeaveHotTyped
<1>2. CASE t = Driver /\ entry[t] = None
  <2>1. /\ live' = live /\ woken' = woken /\ watching' = watching /\ released' = TRUE
        /\ entry' = entry /\ Goes(t, "failed")
    BY <1>2 DEF ContinueRaises, DriverEnds
  <2>2. EntryTypes'  BY <2>1, Zenon DEF EntryTypes
  <2> QED  BY <1>2, <2>1, <2>2
<1>3. CASE t # Driver
  <2>1. /\ live' = live /\ woken' = woken /\ watching' = watching /\ released' = released
        /\ entry' = [entry EXCEPT ![t] = None] /\ Goes(t, "idle")
    BY <1>3 DEF ContinueRaises, HostIdle, entryVars
  <2>2. entry' \in [Tasks -> Entries \cup {None}]  BY <2>1 DEF EntryTypes
  <2>3. EntryTypes'  BY <2>1, <2>2, Zenon DEF EntryTypes
  <2>4. entry'[t] = None /\ \A u \in Tasks \ {t} : entry'[u] = entry[u]  BY <2>1 DEF EntryTypes
  <2> QED  BY <1>3, <2>1, <2>3, <2>4
<1> QED  BY <1>1, <1>2, <1>3

LEMMA CloseRaiseEffect ==
  ASSUME EntryTypes, NEW t \in Tasks, CloseRaises(t)
  PROVE  /\ EntryTypes'
         /\ Goes(t, IF t = Driver THEN "failed" ELSE "idle")
         /\ watching' = watching /\ live' = live /\ woken' = woken
         /\ \A u \in Tasks \ {t} : entry'[u] = entry[u]
         /\ t = Driver => entry' = entry
<1>1. CASE t = Driver
  <2>1. /\ live' = live /\ woken' = woken /\ watching' = watching /\ released' = TRUE
        /\ entry' = entry /\ Goes(t, "failed")
    BY <1>1 DEF CloseRaises, DriverEnds
  <2>2. EntryTypes'  BY <2>1, Zenon DEF EntryTypes
  <2> QED  BY <1>1, <2>1, <2>2
<1>2. CASE t # Driver
  <2>1. /\ live' = live /\ woken' = woken /\ watching' = watching /\ released' = released
        /\ entry' = [entry EXCEPT ![t] = None] /\ Goes(t, "idle")
    BY <1>2 DEF CloseRaises, HostIdle, entryVars
  <2>2. entry' \in [Tasks -> Entries \cup {None}]  BY <2>1 DEF EntryTypes
  <2>3. EntryTypes'  BY <2>1, <2>2, Zenon DEF EntryTypes
  <2>4. \A u \in Tasks \ {t} : entry'[u] = entry[u]  BY <2>1 DEF EntryTypes
  <2> QED  BY <1>2, <2>1, <2>3, <2>4
<1> QED  BY <1>1, <1>2

LEMMA CloseReturnEffect ==
  ASSUME EntryTypes, Shapes, NEW t \in Tasks, pc[t] \in CloseSteps, CloseReturns(t)
  PROVE  /\ EntryTypes'
         /\ \/ t = Driver /\ Goes(t, "finished") /\ live' = live /\ entry' = entry
            \/ t # Driver /\ call[t] = "respond" /\ Goes(t, "ending") /\ live' = live /\ entry' = entry
            \/ t # Driver /\ call[t] # "respond" /\ Goes(t, "idle")
         /\ \A n \in Waits : live'[n] \in {live[n], None}
         /\ \A u \in Tasks \ {t} : entry'[u] = entry[u]
<1>1. CASE t = Driver
  <2>1. /\ live' = live /\ woken' = woken /\ watching' = watching /\ released' = TRUE
        /\ entry' = entry /\ Goes(t, "finished")
    BY <1>1 DEF CloseReturns, DriverEnds
  <2>2. EntryTypes'  BY <2>1, Zenon DEF EntryTypes
  <2> QED  BY <1>1, <2>1, <2>2
<1>2. CASE t # Driver /\ call[t] = "respond"
  <2>1. /\ live' = live /\ woken' = woken /\ watching' = watching /\ released' = TRUE
        /\ entry' = entry /\ Goes(t, "ending")
    BY <1>2 DEF CloseReturns
  <2>2. EntryTypes'  BY <2>1, Zenon DEF EntryTypes
  <2> QED  BY <1>2, <2>1, <2>2
<1>3. CASE t # Driver /\ call[t] = "abandon"
  <2>1. /\ live' = [n \in Waits |-> None] /\ woken' = woken /\ watching' = watching
        /\ released' = (released \/ entry[t].hooks)
        /\ entry' = [entry EXCEPT ![t] = None] /\ Goes(t, "idle")
    BY <1>3 DEF CloseReturns, HostIdle
  <2>2. entry' \in [Tasks -> Entries \cup {None}]  BY <2>1 DEF EntryTypes
  <2>3. released' \in BOOLEAN  BY <2>1, Zenon
  <2>4. /\ live' \in [Waits -> Entries \cup {None}]
        /\ \A n \in Waits : live'[n] # None => live'[n].wait = n
    BY <2>1
  <2>5. woken' \in BOOLEAN /\ watching' \in BOOLEAN  BY <2>1, Zenon DEF EntryTypes
  <2>6. EntryTypes'  BY <2>2, <2>3, <2>4, <2>5, Zenon DEF EntryTypes
  <2>7. \A u \in Tasks \ {t} : entry'[u] = entry[u]  BY <2>1 DEF EntryTypes
  <2> QED  BY <1>3, <2>1, <2>6, <2>7
<1>4. CASE t # Driver /\ call[t] = "close"
  <2>1. /\ live' = live /\ woken' = woken /\ watching' = watching /\ released' = released
        /\ entry' = [entry EXCEPT ![t] = None] /\ Goes(t, "idle")
    BY <1>4 DEF CloseReturns, HostIdle, entryVars
  <2>2. entry' \in [Tasks -> Entries \cup {None}]  BY <2>1 DEF EntryTypes
  <2>3. EntryTypes'  BY <2>1, <2>2, Zenon DEF EntryTypes
  <2>4. \A u \in Tasks \ {t} : entry'[u] = entry[u]  BY <2>1 DEF EntryTypes
  <2> QED  BY <1>4, <2>1, <2>3, <2>4
<1>5. t # Driver => call[t] \in {"respond", "abandon", "close"}  BY DEF Shapes, Tasks
<1> QED  BY <1>1, <1>2, <1>3, <1>4, <1>5

\* A step of t that leaves the rest of the tasks alone.
LEMMA StepShapes ==
  ASSUME Shapes, NEW t \in Tasks, NEW s, Goes(t, s), UNCHANGED <<at, call, todo>>,
         \A u \in Hosts \ {t} : entry'[u] = entry[u],
         t = Driver => s \in DriverSteps \cup AnswerSteps \cup CloseSteps,
         s \in AnswerSteps \cup {"notifying", "hot", "pausing", "paused"} => at[t] \in Waits,
         t # Driver => /\ s \in HostSteps \cup AnswerSteps \cup CloseSteps
                       /\ s \in AnswerSteps \cup {"found", "answered", "ending"} => call[t] = "respond"
                       /\ s \in CloseSteps => call[t] \in {"respond", "abandon", "close"}
                       /\ s # "idle" => pc[t] # "idle" /\ entry'[t] = entry[t]
  PROVE  Shapes'
<1>1. pc' = [pc EXCEPT ![t] = s] /\ at' = at /\ call' = call /\ todo' = todo  BY DEF Goes
<1>2. s \in DriverSteps \cup AnswerSteps \cup HostSteps \cup CloseSteps  BY DEF Tasks
<1>3. pc' \in [Tasks -> DriverSteps \cup AnswerSteps \cup HostSteps \cup CloseSteps]
  BY <1>1, <1>2 DEF Shapes
<1>4. \A u \in Tasks : pc'[u] = IF u = t THEN s ELSE pc[u]  BY <1>1 DEF Shapes
<1>5. pc'[Driver] \notin HostSteps
  BY <1>4 DEF Shapes, Tasks, DriverSteps, AnswerSteps, HostSteps, CloseSteps
<1>6. \A u \in Tasks :
          pc'[u] \in AnswerSteps \cup {"notifying", "hot", "pausing", "paused"} => at'[u] \in Waits
  BY <1>1, <1>4 DEF Shapes
<1>7. ASSUME NEW h \in Hosts
      PROVE  /\ pc'[h] \notin DriverSteps
             /\ pc'[h] \in AnswerSteps \cup {"found", "answered", "ending"} => call'[h] = "respond"
             /\ pc'[h] \in CloseSteps => call'[h] \in {"respond", "abandon", "close"}
             /\ pc'[h] # "idle" /\ call'[h] \in {"respond", "abandon"} => entry'[h] # None /\ at'[h] \in Waits
  <2>1. h \in Tasks /\ h # Driver  BY ExchangeAssumption DEF Tasks
  <2>2. CASE h = t
    <3>1. pc'[h] = s  BY <1>4, <2>1, <2>2
    <3>2. s \notin DriverSteps  BY <2>1, <2>2 DEF DriverSteps, AnswerSteps, HostSteps, CloseSteps
    <3> QED  BY <1>1, <2>1, <2>2, <3>1, <3>2 DEF Shapes
  <2>3. CASE h # t
    <3>1. pc'[h] = pc[h] /\ entry'[h] = entry[h]  BY <1>4, <2>1, <2>3
    <3> QED  BY <1>1, <3>1 DEF Shapes
  <2> QED  BY <2>2, <2>3
<1> QED  BY <1>1, <1>3, <1>5, <1>6, <1>7 DEF Shapes


LEMMA ContinueShapes ==
  ASSUME TypeOK, Shapes, NEW t \in Tasks, NEW r \in Requests \cup {Driver},
         NEW leaving \in BOOLEAN, NEW noted,
         at[t] \in Waits, pc[t] \notin {"idle"}, t # Driver => call[t] = "respond",
         leaving => t = Driver,
         Continue(t, at[t], r, leaving, noted), UNCHANGED <<lifecycle, at, call, todo>>
  PROVE  TypeOK' /\ Shapes'
<1> DEFINE n == at[t]
<1>1. EntryTypes /\ InterruptTypes  BY TypeParts
<1>2. CASE ContinueReturns(t) /\ UNCHANGED interruptVars
  <2>1. InterruptTypes'  BY <1>1, <1>2, Zenon DEF InterruptTypes, interruptVars
  <2>2. Shapes'
    BY <1>1, <1>2, ReturnEffect, StepShapes, Zenon DEF DriverSteps, AnswerSteps, HostSteps, CloseSteps
  <2> QED  BY <1>1, <1>2, <2>1, <2>2, ReturnEffect, TypePartsNext, Zenon
<1>3. CASE ContinueRaises(t) /\ UNCHANGED interruptVars
  <2>1. InterruptTypes'  BY <1>1, <1>3, Zenon DEF InterruptTypes, interruptVars
  <2>2. \A u \in Hosts \ {t} : entry'[u] = entry[u]  BY <1>1, <1>3, RaiseEffect DEF Tasks
  <2>3. Shapes'
    <3>1. CASE t = Driver
      <4>1. Goes(t, "failed")  BY <1>1, <1>3, <3>1, RaiseEffect
      <4> QED  BY <2>2, <3>1, <4>1, StepShapes, Zenon DEF DriverSteps, AnswerSteps, HostSteps, CloseSteps
    <3>2. CASE t # Driver
      <4>1. Goes(t, "idle")  BY <1>1, <1>3, <3>2, RaiseEffect
      <4> QED  BY <2>2, <3>2, <4>1, StepShapes, Zenon DEF DriverSteps, AnswerSteps, HostSteps, CloseSteps
    <3> QED  BY <3>1, <3>2
  <2> QED  BY <1>1, <1>3, <2>1, <2>3, RaiseEffect, TypePartsNext, Zenon
<1>4. CASE /\ lifecycle = "open" /\ wait[n] = "waiting" /\ claim[n] = None
           /\ claim' = [claim EXCEPT ![n] = r]
           /\ known' = [known EXCEPT ![n] = @ \cup {r}]
           /\ Goes(t, "claimed")
           /\ IF leaving THEN LeaveHot /\ UNCHANGED released ELSE UNCHANGED <<entryVars, entry>>
           /\ UNCHANGED wait
  <2>1. InterruptTypes'
    <3>1. /\ claim' \in [Waits -> Requests \cup {Driver, None}]
          /\ known' \in [Waits -> SUBSET (Requests \cup {Driver})]
      BY <1>1, <1>4 DEF InterruptTypes
    <3>2. \A k \in Waits : claim'[k] # None => wait'[k] = "waiting"
      BY <1>1, <1>4 DEF InterruptTypes
    <3> QED  BY <1>1, <1>4, <3>1, <3>2 DEF InterruptTypes
  <2>2. EntryTypes' /\ \A u \in Hosts : entry'[u] = entry[u]
    <3>1. CASE leaving
      <4>1. LeaveHot /\ released' = released  BY <1>4, <3>1
      <4>2. released' \in BOOLEAN  BY <1>1, <4>1, Zenon DEF EntryTypes
      <4>3. EntryTypes'  BY <1>1, <4>1, <4>2, LeaveHotTyped DEF EntryTypes
      <4> QED  BY <1>1, <4>1, <4>3, LeaveHotTyped, ExchangeAssumption DEF Tasks
    <3>2. CASE ~leaving
      <4>1. live' = live /\ woken' = woken /\ watching' = watching /\ released' = released /\ entry' = entry
        BY <1>4, <3>2 DEF entryVars
      <4>2. EntryTypes'  BY <1>1, <4>1, Zenon DEF EntryTypes
      <4> QED  BY <4>1, <4>2
    <3> QED  BY <3>1, <3>2
  <2>3. Shapes'
    BY <1>4, <2>2, StepShapes, Zenon DEF DriverSteps, AnswerSteps, HostSteps, CloseSteps
  <2> QED  BY <2>1, <2>2, <2>3, TypePartsNext, Zenon
<1> QED  BY <1>2, <1>3, <1>4, Zenon DEF Continue

LEMMA CancelledTyped ==
  ASSUME InterruptTypes
  PROVE  /\ Cancelled \in [Waits -> {"absent", "waiting", "resumed", "cancelled"}]
         /\ \A n \in Waits : claim[n] # None => Cancelled[n] = "waiting"
         /\ \A n \in Waits : Cancelled[n] # wait[n] => Cancelled[n] = "cancelled" /\ wait[n] = "waiting"
                                                       /\ claim[n] = None
BY DEF InterruptTypes, Cancelled

LEMMA TaskStepTyped ==
  ASSUME TypeOK, Shapes, NEW t \in Tasks, TaskStep(t)
  PROVE  TypeOK' /\ Shapes'
<1>1. EntryTypes /\ InterruptTypes  BY TypeParts
<1> USE DEF DriverSteps, AnswerSteps, HostSteps, CloseSteps
<1>2. CASE Resume(t)
  <2>1. /\ pc[t] = "claimed" /\ Goes(t, "resumed")
        /\ wait' = [wait EXCEPT ![at[t]] = "resumed"]
        /\ claim' = [claim EXCEPT ![at[t]] = None]
        /\ UNCHANGED <<known, lifecycle, live, woken, watching, released, at, entry, call, todo>>
    BY <1>2 DEF Resume, entryVars
  <2>2. InterruptTypes'
    <3>1. /\ wait' \in [Waits -> {"absent", "waiting", "resumed", "cancelled"}]
          /\ claim' \in [Waits -> Requests \cup {Driver, None}]
          /\ \A n \in Waits : claim'[n] # None => wait'[n] = "waiting"
      BY <1>1, <2>1 DEF InterruptTypes
    <3> QED  BY <1>1, <2>1, <3>1 DEF InterruptTypes
  <2>3. EntryTypes'  BY <1>1, <2>1, Zenon DEF EntryTypes
  <2>4. at[t] \in Waits /\ (t # Driver => call[t] = "respond")  BY <2>1 DEF Shapes, Tasks
  <2>5. Shapes'  BY <2>1, <2>4, StepShapes
  <2> QED  BY <2>2, <2>3, <2>5, TypePartsNext
<1>3. CASE Dispatch(t) \/ RunOpens(t) \/ RunReturns(t)
  <2>1. /\ pc[t] \in {"resumed", "running", "publishing"}
        /\ UNCHANGED <<claim, known, lifecycle, at, call, todo>>
        /\ wait' = wait \/ \E m \in Waits : wait' = [wait EXCEPT ![m] = "waiting"]
    BY <1>3, NextWait DEF Dispatch, RunOpens, RunReturns, interruptVars
  <2>2. InterruptTypes'
    <3>1. /\ wait' \in [Waits -> {"absent", "waiting", "resumed", "cancelled"}]
          /\ \A n \in Waits : wait[n] = "waiting" => wait'[n] = "waiting"
      BY <1>1, <2>1 DEF InterruptTypes
    <3> QED  BY <1>1, <2>1, <3>1 DEF InterruptTypes
  <2>3. at[t] \in Waits /\ (t # Driver => call[t] = "respond")  BY <2>1 DEF Shapes, Tasks
  <2>4. CASE ContinueReturns(t)
    <3>1. Shapes'
      <4>1. CASE t = Driver
        <5>1. Goes(t, "resolving")  BY <1>1, <2>4, <4>1, ReturnEffect
        <5> QED  BY <1>1, <2>1, <2>4, <4>1, <5>1, ReturnEffect, StepShapes
      <4>2. CASE t # Driver
        <5>1. Goes(t, "answered") /\ entry' = entry  BY <1>1, <2>4, <4>2, ReturnEffect
        <5> QED  BY <2>1, <2>3, <4>2, <5>1, StepShapes
      <4> QED  BY <4>1, <4>2
    <3> QED  BY <1>1, <2>2, <2>4, <3>1, ReturnEffect, TypePartsNext
  <2>5. CASE (Goes(t, "running") \/ Goes(t, "publishing")) /\ UNCHANGED <<entryVars, entry>>
    <3>1. UNCHANGED <<live, woken, watching, released, entry>>  BY <2>5 DEF entryVars
    <3>2. EntryTypes'  BY <1>1, <3>1, Zenon DEF EntryTypes
    <3>3. Shapes'  BY <2>1, <2>3, <2>5, <3>1, StepShapes
    <3> QED  BY <2>2, <3>2, <3>3, TypePartsNext
  <2> QED  BY <1>3, <2>4, <2>5, Zenon DEF Dispatch, RunOpens, RunReturns
<1>4. CASE RunFails(t)
  <2>1. /\ pc[t] \in {"running", "publishing"}
        /\ UNCHANGED <<claim, known, lifecycle, at, call, todo>>
        /\ wait' = [wait EXCEPT ![at[t]] = "waiting"] /\ ContinueRaises(t)
    BY <1>4 DEF RunFails
  <2>2. InterruptTypes'
    <3>1. /\ wait' \in [Waits -> {"absent", "waiting", "resumed", "cancelled"}]
          /\ \A n \in Waits : wait[n] = "waiting" => wait'[n] = "waiting"
      BY <1>1, <2>1 DEF InterruptTypes
    <3> QED  BY <1>1, <2>1, <3>1 DEF InterruptTypes
  <2>3. EntryTypes' /\ \A u \in Hosts \ {t} : entry'[u] = entry[u]
    BY <1>1, <2>1, RaiseEffect DEF Tasks
  <2>4. Shapes'
    <3>1. CASE t = Driver
      <4>1. Goes(t, "failed")  BY <1>1, <2>1, <3>1, RaiseEffect
      <4> QED  BY <2>1, <2>3, <3>1, <4>1, StepShapes
    <3>2. CASE t # Driver
      <4>1. Goes(t, "idle")  BY <1>1, <2>1, <3>2, RaiseEffect
      <4> QED  BY <2>1, <2>3, <3>2, <4>1, StepShapes
    <3> QED  BY <3>1, <3>2
  <2> QED  BY <2>2, <2>3, <2>4, TypePartsNext
<1>5. CASE CloseBegins(t) \/ DrainEnds(t) \/ CloseLooks(t) \/ CloseEnds(t)
  <2>1. /\ pc[t] \in CloseSteps
        /\ UNCHANGED <<claim, known, at, call, todo>>
        /\ wait' = wait \/ wait' = Cancelled
        /\ lifecycle' \in {lifecycle, "open", "sealed", "closed"}
    BY <1>5, Zenon DEF CloseBegins, DrainEnds, CloseLooks, CloseEnds, interruptVars, CloseSteps
  <2>2. InterruptTypes'
    <3>1. /\ wait' \in [Waits -> {"absent", "waiting", "resumed", "cancelled"}]
          /\ \A n \in Waits : claim[n] # None => wait'[n] = "waiting"
      BY <1>1, <2>1, CancelledTyped DEF InterruptTypes
    <3> QED  BY <1>1, <2>1, <3>1 DEF InterruptTypes
  <2>3. t # Driver => call[t] \in {"respond", "abandon", "close"}  BY <2>1 DEF Shapes, Tasks
  <2>4. CASE CloseReturns(t)
    <3>1. EntryTypes' /\ \A u \in Hosts \ {t} : entry'[u] = entry[u]
      BY <1>1, <2>1, <2>4, CloseReturnEffect DEF Tasks
    <3>2. Shapes'
      <4>1. CASE t = Driver /\ Goes(t, "finished")
        BY <2>1, <3>1, <4>1, StepShapes
      <4>2. CASE t # Driver /\ call[t] = "respond" /\ Goes(t, "ending") /\ entry' = entry
        BY <2>1, <2>3, <3>1, <4>2, StepShapes
      <4>3. CASE t # Driver /\ Goes(t, "idle")
        BY <2>1, <3>1, <4>3, StepShapes
      <4> QED  BY <1>1, <2>1, <2>4, <4>1, <4>2, <4>3, CloseReturnEffect
    <3> QED  BY <2>2, <3>1, <3>2, TypePartsNext
  <2>5. CASE CloseRaises(t)
    <3>1. EntryTypes' /\ \A u \in Hosts \ {t} : entry'[u] = entry[u]
      BY <1>1, <2>5, CloseRaiseEffect DEF Tasks
    <3>2. Shapes'
      <4>1. CASE t = Driver
        <5>1. Goes(t, "failed")  BY <1>1, <2>5, <4>1, CloseRaiseEffect
        <5> QED  BY <2>1, <3>1, <4>1, <5>1, StepShapes
      <4>2. CASE t # Driver
        <5>1. Goes(t, "idle")  BY <1>1, <2>5, <4>2, CloseRaiseEffect
        <5> QED  BY <2>1, <3>1, <4>2, <5>1, StepShapes
      <4> QED  BY <4>1, <4>2
    <3> QED  BY <2>2, <3>1, <3>2, TypePartsNext
  <2>6. CASE /\ \E s \in {"draining", "drained", "settled"} : Goes(t, s)
             /\ UNCHANGED <<entryVars, entry>>
    <3>1. UNCHANGED <<live, woken, watching, released, entry>>  BY <2>6 DEF entryVars
    <3>2. EntryTypes'  BY <1>1, <3>1, Zenon DEF EntryTypes
    <3>3. Shapes'  BY <2>1, <2>3, <2>6, <3>1, StepShapes
    <3> QED  BY <2>2, <3>2, <3>3, TypePartsNext
  <2> QED  BY <1>5, <2>4, <2>5, <2>6, Zenon DEF CloseBegins, DrainEnds, CloseLooks, CloseEnds
<1> QED  BY <1>2, <1>3, <1>4, <1>5 DEF TaskStep, RunSteps


\* The steps of the run of the action loop that answer nothing.
LEMMA DriverStepTyped ==
  ASSUME TypeOK, Shapes,
         Start \/ Resolve \/ HotWait \/ HotResolved \/ Pause \/ Paused
           \/ (HotOver /\ mode = "handover")
  PROVE  TypeOK' /\ Shapes'
<1>1. EntryTypes /\ InterruptTypes /\ Driver \in Tasks  BY TypeParts DEF Tasks
<1>0. \A h \in Hosts : h # Driver /\ h \in Tasks  BY ExchangeAssumption DEF Tasks
<1> USE DEF DriverSteps, AnswerSteps, HostSteps, CloseSteps
<1>2. CASE Start
  <2>1. /\ pc[Driver] = "start" /\ UNCHANGED <<claim, known, lifecycle, live, woken, watching, at, entry, todo, call>>
        /\ wait' = wait \/ wait' = [wait EXCEPT ![1] = "waiting"]
        /\ \E s \in {"resolving", "failed"} : Goes(Driver, s)
        /\ released' = TRUE \/ released' = released
    BY <1>2 DEF Start, DriverOnly, DriverEnds
  <2>2. InterruptTypes'
    <3>1. /\ wait' \in [Waits -> {"absent", "waiting", "resumed", "cancelled"}]
          /\ \A n \in Waits : wait[n] = "waiting" => wait'[n] = "waiting"
      BY <1>1, <2>1 DEF InterruptTypes
    <3> QED  BY <1>1, <2>1, <3>1 DEF InterruptTypes
  <2>3. released' \in BOOLEAN  BY <1>1, <2>1, Zenon DEF EntryTypes
  <2>4. EntryTypes'  BY <1>1, <2>1, <2>3, Zenon DEF EntryTypes
  <2>5. Shapes'  BY <1>1, <2>1, StepShapes
  <2> QED  BY <2>2, <2>4, <2>5, TypePartsNext
<1>3. CASE Resolve
  <2>1. /\ UNCHANGED <<wait, claim, known, lifecycle, live, woken, watching, released, entry, todo, call>>
        /\ pc[Driver] = "resolving"
    BY <1>3 DEF Resolve, DriverOnly, interruptVars, entryVars
  <2>2. InterruptTypes'  BY <1>1, <2>1, Zenon DEF InterruptTypes
  <2>3. EntryTypes'  BY <1>1, <2>1, Zenon DEF EntryTypes
  <2>4. Shapes'
    <3>1. CASE Goes(Driver, "lock") /\ UNCHANGED at
      BY <1>1, <2>1, <3>1, StepShapes
    <3>2. CASE /\ Pending # {} /\ Goes(Driver, "notifying")
               /\ at' = [at EXCEPT ![Driver] = Min(Pending)]
      <4>1. Pending \in SUBSET Nat /\ Pending \subseteq Waits
        BY ExchangeAssumption DEF Pending, Waits
      <4>2. Min(Pending) \in Waits  BY <3>2, <4>1, MinIn
      <4>3. PICK n \in Waits : n = Min(Pending)  BY <4>2
      <4>4. at' = [at EXCEPT ![Driver] = n] /\ n \in 0 .. MaxWaits  BY <3>2, <4>3 DEF Waits
      <4>5. pc' = [pc EXCEPT ![Driver] = "notifying"]  BY <3>2 DEF Goes
      <4>6. /\ at' \in [Tasks -> 0 .. MaxWaits]
            /\ \A u \in Tasks : at'[u] = IF u = Driver THEN n ELSE at[u]
        BY <4>4 DEF Shapes
      <4>7. /\ pc' \in [Tasks -> DriverSteps \cup AnswerSteps \cup HostSteps \cup CloseSteps]
            /\ \A u \in Tasks : pc'[u] = IF u = Driver THEN "notifying" ELSE pc[u]
        BY <4>5 DEF Shapes
      <4> QED  BY <1>0, <1>1, <2>1, <4>6, <4>7 DEF Shapes
    <3> QED  BY <1>3, <3>1, <3>2 DEF Resolve
  <2> QED  BY <2>2, <2>3, <2>4, TypePartsNext
<1>4. CASE HotWait
  <2>1. /\ UNCHANGED <<wait, claim, known, lifecycle, watching, released, at, todo, call>>
        /\ pc[Driver] = "notifying" /\ Goes(Driver, "hot") /\ woken' = FALSE
        /\ live' = [live EXCEPT ![at[Driver]] = NewEntry(at[Driver], FALSE)]
        /\ entry' = [entry EXCEPT ![Driver] = NewEntry(at[Driver], FALSE)]
    BY <1>4, Zenon DEF HotWait, DriverOnly, interruptVars
  <2>2. InterruptTypes'  BY <1>1, <2>1, Zenon DEF InterruptTypes
  <2>3. at[Driver] \in Waits  BY <1>1, <2>1 DEF Shapes
  <2>4. PICK e \in Entries : e = NewEntry(at[Driver], FALSE) /\ e.wait = at[Driver]
    BY <2>3, NewEntryTyped
  <2>5. /\ live' = [live EXCEPT ![at[Driver]] = e]
        /\ entry' = [entry EXCEPT ![Driver] = e]
    BY <2>1, <2>4, Zenon
  <2>6. /\ live' \in [Waits -> Entries \cup {None}]
        /\ \A n \in Waits : live'[n] # None => live'[n].wait = n
        /\ entry' \in [Tasks -> Entries \cup {None}]
    BY <1>1, <2>4, <2>5 DEF EntryTypes
  <2>7. woken' \in BOOLEAN /\ watching' \in BOOLEAN /\ released' \in BOOLEAN
    BY <1>1, <2>1, Zenon DEF EntryTypes
  <2>8. EntryTypes'  BY <2>6, <2>7, Zenon DEF EntryTypes
  <2>9. \A h \in Hosts : entry'[h] = entry[h]  BY <1>0, <1>1, <2>5 DEF EntryTypes
  <2>10. Shapes'  BY <1>1, <2>1, <2>3, <2>9, StepShapes
  <2> QED  BY <2>2, <2>8, <2>10, TypePartsNext
<1>5. CASE HotResolved
  <2>1. /\ UNCHANGED <<wait, claim, known, lifecycle, released, at, todo, call>>
        /\ pc[Driver] = "hot" /\ Goes(Driver, "resolving") /\ LeaveHot
    BY <1>5 DEF HotResolved, DriverOnly, interruptVars
  <2>2. InterruptTypes'  BY <1>1, <2>1, Zenon DEF InterruptTypes
  <2>3. released' \in BOOLEAN  BY <1>1, <2>1, Zenon DEF EntryTypes
  <2>4. EntryTypes'  BY <1>1, <2>1, <2>3, LeaveHotTyped DEF EntryTypes
  <2>5. \A h \in Hosts : entry'[h] = entry[h]  BY <1>0, <1>1, <2>1, LeaveHotTyped
  <2>6. Shapes'  BY <1>1, <2>1, <2>5, StepShapes
  <2> QED  BY <2>2, <2>4, <2>6, TypePartsNext
<1>6. CASE Pause \/ (HotOver /\ mode = "handover")
  <2>1. /\ UNCHANGED <<wait, claim, known, lifecycle, at, call>>
        /\ pc[Driver] \in {"notifying", "hot"} /\ Goes(Driver, "pausing")
        /\ todo' = Pending /\ released' = released
        /\ LeaveHot \/ UNCHANGED <<live, woken, watching, entry>>
    BY <1>6, Zenon DEF Pause, HotOver, DriverOnly, interruptVars, entryVars
  <2>2. InterruptTypes'  BY <1>1, <2>1, Zenon DEF InterruptTypes
  <2>3. released' \in BOOLEAN  BY <1>1, <2>1, Zenon DEF EntryTypes
  <2>4. EntryTypes' /\ \A h \in Hosts : entry'[h] = entry[h]
    <3>1. CASE LeaveHot
      BY <1>0, <1>1, <2>3, <3>1, LeaveHotTyped DEF EntryTypes
    <3>2. CASE UNCHANGED <<live, woken, watching, entry>>
      <4>1. UNCHANGED <<live, woken, watching, entry, released>>  BY <2>1, <3>2
      <4>2. EntryTypes'  BY <1>1, <4>1, Zenon DEF EntryTypes
      <4> QED  BY <4>1, <4>2
    <3> QED  BY <2>1, <3>1, <3>2
  <2>5. Shapes'
    <3>1. pc' = [pc EXCEPT ![Driver] = "pausing"]  BY <2>1 DEF Goes
    <3>2. /\ pc' \in [Tasks -> DriverSteps \cup AnswerSteps \cup HostSteps \cup CloseSteps]
          /\ \A u \in Tasks : pc'[u] = IF u = Driver THEN "pausing" ELSE pc[u]
      BY <3>1 DEF Shapes
    <3>3. todo' \subseteq Waits  BY <2>1 DEF Pending
    <3> QED  BY <1>0, <1>1, <2>1, <2>4, <3>2, <3>3 DEF Shapes
  <2> QED  BY <2>2, <2>4, <2>5, TypePartsNext
<1>7. CASE Paused
  <2>1. /\ UNCHANGED <<wait, claim, known, lifecycle, woken, released, at, entry, todo, call>>
        /\ pc[Driver] = "pausing" /\ Goes(Driver, "paused") /\ RegisterHooked(todo)
    BY <1>7 DEF Paused, DriverOnly, interruptVars
  <2>2. InterruptTypes'  BY <1>1, <2>1, Zenon DEF InterruptTypes
  <2>3. live' = [n \in Waits |-> IF n \in todo THEN NewEntry(n, TRUE) ELSE live[n]]
    BY <2>1 DEF RegisterHooked
  <2>4. /\ live' \in [Waits -> Entries \cup {None}]
        /\ \A n \in Waits : live'[n] # None => live'[n].wait = n
    BY <1>1, <2>3, NewEntryTyped DEF EntryTypes
  <2>5. watching' = (watching \/ todo # {})  BY <2>1 DEF RegisterHooked
  <2>6. watching' \in BOOLEAN /\ woken' \in BOOLEAN /\ released' \in BOOLEAN
    BY <1>1, <2>1, <2>5, Zenon DEF EntryTypes
  <2>7. EntryTypes'  BY <1>1, <2>1, <2>4, <2>6, Zenon DEF EntryTypes
  <2>8. Shapes'
    <3>1. at[Driver] \in Waits  BY <1>1, <2>1 DEF Shapes
    <3> QED  BY <1>1, <2>1, <3>1, StepShapes
  <2> QED  BY <2>2, <2>7, <2>8, TypePartsNext
<1> QED  BY <1>2, <1>3, <1>4, <1>5, <1>6, <1>7

\* The steps in which a task answers a wait.
LEMMA AnswerTyped ==
  ASSUME TypeOK, Shapes,
         \/ Deny \/ ProviderAnswers \/ (HotOver /\ mode = "connected")
         \/ \E h \in Hosts, r \in Requests : Respond(h, r)
  PROVE  TypeOK' /\ Shapes'
<1> USE DEF DriverSteps, AnswerSteps, HostSteps, CloseSteps
<1>1. CASE Deny \/ ProviderAnswers \/ (HotOver /\ mode = "connected")
  <2>1. Driver \in Tasks /\ pc[Driver] \in {"notifying", "hot"}
    BY <1>1 DEF Deny, ProviderAnswers, HotOver, Tasks
  <2>2. at[Driver] \in Waits  BY <2>1 DEF Shapes
  <2>3. UNCHANGED <<lifecycle, at, call, todo>>
    BY <1>1, Zenon DEF Deny, ProviderAnswers, HotOver
  <2>4. \E leaving \in BOOLEAN, noted \in {{}, Overtaken(at[Driver])} :
            Continue(Driver, at[Driver], Driver, leaving, noted)
    BY <1>1, Zenon DEF Deny, ProviderAnswers, HotOver
  <2> QED  BY <2>1, <2>2, <2>3, <2>4, ContinueShapes
<1>2. ASSUME NEW h \in Hosts, NEW r \in Requests, Respond(h, r)
      PROVE  TypeOK' /\ Shapes'
  <2>1. h \in Tasks /\ h # Driver /\ pc[h] = "found"  BY <1>2, ExchangeAssumption DEF Respond, Tasks
  <2>2. call[h] = "respond"  BY <2>1 DEF Shapes
  <2>3. at[h] \in Waits  BY <2>1, <2>2 DEF Shapes
  <2>4. Continue(h, at[h], r, FALSE, {}) /\ UNCHANGED <<lifecycle, at, call, todo>>
    BY <1>2 DEF Respond
  <2> QED  BY <2>1, <2>2, <2>3, <2>4, ContinueShapes
<1> QED  BY <1>1, <1>2


LEMMA HostStepTyped ==
  ASSUME TypeOK, Shapes, NEW h \in Hosts,
         \/ \E n \in Waits, kind \in {"respond", "abandon"} : LookUp(h, n, kind)
         \/ DirectClose(h) \/ Answered(h) \/ RespondEnds(h)
  PROVE  TypeOK' /\ Shapes'
<1>1. EntryTypes /\ InterruptTypes  BY TypeParts
<1>0. \A g \in Hosts : g # Driver /\ g \in Tasks  BY ExchangeAssumption DEF Tasks
<1> USE DEF DriverSteps, AnswerSteps, HostSteps, CloseSteps
<1>2. ASSUME NEW n \in Waits, NEW kind \in {"respond", "abandon"}, LookUp(h, n, kind)
      PROVE  TypeOK' /\ Shapes'
  <2>1. /\ UNCHANGED <<wait, claim, known, lifecycle, live, woken, watching, released, todo>>
        /\ pc[h] = "idle" /\ live[n] # None
        /\ entry' = [entry EXCEPT ![h] = live[n]]
        /\ at' = [at EXCEPT ![h] = n]
        /\ call' = [call EXCEPT ![h] = kind]
        /\ pc' = [pc EXCEPT ![h] = IF kind = "respond" THEN "found" ELSE "lock"]
    BY <1>2 DEF LookUp, Goes, interruptVars, entryVars
  <2>2. InterruptTypes'  BY <1>1, <2>1, Zenon DEF InterruptTypes
  <2>3. live[n] \in Entries  BY <1>1, <2>1 DEF EntryTypes
  <2>4. entry' \in [Tasks -> Entries \cup {None}] /\ entry'[h] # None
        /\ \A u \in Tasks \ {h} : entry'[u] = entry[u]
    BY <1>0, <1>1, <2>1, <2>3 DEF EntryTypes
  <2>5. EntryTypes'  BY <1>1, <2>1, <2>4, Zenon DEF EntryTypes
  <2>6. n \in 0 .. MaxWaits  BY ExchangeAssumption DEF Waits
  <2>7. /\ at' \in [Tasks -> 0 .. MaxWaits]
        /\ \A u \in Tasks : at'[u] = IF u = h THEN n ELSE at[u]
    BY <2>1, <2>6 DEF Shapes
  <2>8. /\ call' \in [Tasks -> {"respond", "abandon", "close", None}]
        /\ \A u \in Tasks : call'[u] = IF u = h THEN kind ELSE call[u]
    BY <2>1 DEF Shapes
  <2>9. /\ pc' \in [Tasks -> DriverSteps \cup AnswerSteps \cup HostSteps \cup CloseSteps]
        /\ \A u \in Tasks : pc'[u] = IF u = h THEN (IF kind = "respond" THEN "found" ELSE "lock") ELSE pc[u]
    BY <2>1 DEF Shapes
  <2>10. Shapes'
    <3>1. /\ pc'[Driver] \notin HostSteps
          /\ \A u \in Tasks :
                pc'[u] \in AnswerSteps \cup {"notifying", "hot", "pausing", "paused"} => at'[u] \in Waits
      BY <1>0, <2>7, <2>9 DEF Shapes, Tasks
    <3>2. ASSUME NEW g \in Hosts
          PROVE  /\ pc'[g] \notin DriverSteps
                 /\ pc'[g] \in AnswerSteps \cup {"found", "answered", "ending"} => call'[g] = "respond"
                 /\ pc'[g] \in CloseSteps => call'[g] \in {"respond", "abandon", "close"}
                 /\ pc'[g] # "idle" /\ call'[g] \in {"respond", "abandon"} => entry'[g] # None /\ at'[g] \in Waits
      <4>1. CASE g = h
        BY <1>0, <2>4, <2>7, <2>8, <2>9, <4>1
      <4>2. CASE g # h
        <5>1. /\ pc'[g] = pc[g] /\ call'[g] = call[g] /\ entry'[g] = entry[g] /\ at'[g] = at[g]
          BY <1>0, <2>4, <2>7, <2>8, <2>9, <4>2
        <5> QED  BY <5>1 DEF Shapes
      <4> QED  BY <4>1, <4>2
    <3> QED  BY <2>1, <2>7, <2>8, <2>9, <3>1, <3>2 DEF Shapes
  <2> QED  BY <2>2, <2>5, <2>10, TypePartsNext
<1>3. CASE DirectClose(h)
  <2>1. /\ UNCHANGED <<wait, claim, known, lifecycle, live, woken, watching, released, at, entry, todo>>
        /\ call' = [call EXCEPT ![h] = "close"]
        /\ pc' = [pc EXCEPT ![h] = "lock"]
    BY <1>3 DEF DirectClose, Goes, interruptVars, entryVars
  <2>2. InterruptTypes'  BY <1>1, <2>1, Zenon DEF InterruptTypes
  <2>3. EntryTypes'  BY <1>1, <2>1, Zenon DEF EntryTypes
  <2>4. /\ call' \in [Tasks -> {"respond", "abandon", "close", None}]
        /\ \A u \in Tasks : call'[u] = IF u = h THEN "close" ELSE call[u]
    BY <2>1 DEF Shapes
  <2>5. /\ pc' \in [Tasks -> DriverSteps \cup AnswerSteps \cup HostSteps \cup CloseSteps]
        /\ \A u \in Tasks : pc'[u] = IF u = h THEN "lock" ELSE pc[u]
    BY <2>1 DEF Shapes
  <2>6. Shapes'  BY <1>0, <2>1, <2>4, <2>5 DEF Shapes, Tasks
  <2> QED  BY <2>2, <2>3, <2>6, TypePartsNext
<1>4. CASE Answered(h)
  <2>1. /\ UNCHANGED <<wait, claim, known, lifecycle, woken, released, at, entry, call, todo>>
        /\ pc[h] = "answered" /\ \E s \in {"ending", "lock"} : Goes(h, s)
        /\ RegisterHooked(Pending) \/ UNCHANGED <<live, watching>>
    BY <1>4, Zenon DEF Answered, RegisterNext, interruptVars
  <2>2. InterruptTypes'  BY <1>1, <2>1, Zenon DEF InterruptTypes
  <2>3. EntryTypes'
    <3>1. CASE RegisterHooked(Pending)
      <4>1. /\ live' = [n \in Waits |-> IF n \in Pending THEN NewEntry(n, TRUE) ELSE live[n]]
            /\ watching' = (watching \/ Pending # {})
        BY <3>1 DEF RegisterHooked
      <4>2. /\ live' \in [Waits -> Entries \cup {None}]
            /\ \A n \in Waits : live'[n] # None => live'[n].wait = n
        BY <1>1, <4>1, NewEntryTyped DEF EntryTypes
      <4>3. watching' \in BOOLEAN /\ woken' \in BOOLEAN /\ released' \in BOOLEAN
        BY <1>1, <2>1, <4>1, Zenon DEF EntryTypes
      <4> QED  BY <1>1, <2>1, <4>2, <4>3, Zenon DEF EntryTypes
    <3>2. CASE UNCHANGED <<live, watching>>
      <4>1. UNCHANGED <<live, woken, watching, released, entry>>  BY <2>1, <3>2
      <4> QED  BY <1>1, <4>1, Zenon DEF EntryTypes
    <3> QED  BY <2>1, <3>1, <3>2
  <2>4. Shapes'
    <3>1. call[h] = "respond"  BY <2>1 DEF Shapes
    <3> QED  BY <1>0, <2>1, <3>1, StepShapes
  <2> QED  BY <2>2, <2>3, <2>4, TypePartsNext
<1>5. CASE RespondEnds(h)
  <2>1. /\ UNCHANGED <<wait, claim, known, lifecycle, watching, released, at, call, todo>>
        /\ live' = [live EXCEPT ![at[h]] = None]
        /\ entry' = [entry EXCEPT ![h] = None] /\ Goes(h, "idle")
        /\ woken' = (woken \/ (pc[Driver] = "hot" /\ entry[h] = entry[Driver]))
    BY <1>5 DEF RespondEnds, HostIdle, Unregistered, interruptVars
  <2>2. InterruptTypes'  BY <1>1, <2>1, Zenon DEF InterruptTypes
  <2>3. /\ live' \in [Waits -> Entries \cup {None}]
        /\ \A n \in Waits : live'[n] # None => live'[n].wait = n
        /\ entry' \in [Tasks -> Entries \cup {None}]
        /\ \A u \in Hosts \ {h} : entry'[u] = entry[u]
    BY <1>0, <1>1, <2>1 DEF EntryTypes
  <2>4. watching' \in BOOLEAN /\ woken' \in BOOLEAN /\ released' \in BOOLEAN
    BY <1>1, <2>1, Zenon DEF EntryTypes
  <2>5. EntryTypes'  BY <2>3, <2>4, Zenon DEF EntryTypes
  <2>6. Shapes'  BY <1>0, <2>1, <2>3, StepShapes
  <2> QED  BY <2>2, <2>5, <2>6, TypePartsNext
<1> QED  BY <1>2, <1>3, <1>4, <1>5

LEMMA WatchTyped ==
  ASSUME TypeOK, Shapes, Watch
  PROVE  TypeOK' /\ Shapes'
<1>1. EntryTypes /\ InterruptTypes  BY TypeParts
<1>2. /\ UNCHANGED <<wait, claim, known, lifecycle, woken, pc, at, entry, call, todo>>
      /\ released' = TRUE /\ watching' = FALSE
      /\ live' = [n \in Waits |-> None]
  BY DEF Watch, interruptVars
<1>3. InterruptTypes'  BY <1>1, <1>2, Zenon DEF InterruptTypes
<1>4. /\ live' \in [Waits -> Entries \cup {None}]
      /\ \A n \in Waits : live'[n] # None => live'[n].wait = n
  BY <1>2
<1>5. EntryTypes'  BY <1>1, <1>2, <1>4, Zenon DEF EntryTypes
<1>6. Shapes'  BY <1>2 DEF Shapes
<1> QED  BY <1>3, <1>5, <1>6, TypePartsNext

LEMMA NextTyped ==
  ASSUME TypeOK, Shapes, [Next]_vars
  PROVE  TypeOK' /\ Shapes'
<1>1. CASE UNCHANGED vars
  <2>1. TypeOK'
    BY <1>1, Zenon DEF TypeOK, vars, interruptVars, entryVars
  <2>2. Shapes'  BY <1>1 DEF Shapes, vars
  <2> QED  BY <2>1, <2>2
<1>2. CASE \E t \in Tasks : TaskStep(t)
  BY <1>2, TaskStepTyped
<1>3. CASE DriverStep \/ HotOver \/ ProviderAnswers
  <2>1. HotOver => mode = "handover" \/ mode = "connected"  BY Zenon DEF HotOver
  <2> QED  BY <1>3, <2>1, DriverStepTyped, AnswerTyped, Zenon DEF DriverStep
<1>4. CASE \/ \E h \in Hosts : HostStep(h) \/ DirectClose(h)
           \/ \E h \in Hosts, n \in Waits, kind \in {"respond", "abandon"} : LookUp(h, n, kind)
  BY <1>4, HostStepTyped, AnswerTyped, Zenon DEF HostStep
<1>5. CASE Watch
  BY <1>5, WatchTyped
<1> QED  BY <1>1, <1>2, <1>3, <1>4, <1>5, Zenon DEF Next

LEMMA InitTyped == Init => TypeOK /\ Shapes
<1> SUFFICES ASSUME Init PROVE TypeOK /\ Shapes  OBVIOUS
<1>1. EntryTypes
  <2>1. woken = FALSE /\ watching = FALSE /\ released = FALSE  BY DEF Init
  <2>2. woken \in BOOLEAN /\ watching \in BOOLEAN /\ released \in BOOLEAN  BY <2>1, Zenon
  <2> QED  BY <2>2, Zenon DEF Init, EntryTypes
<1>2. InterruptTypes  BY DEF Init, InterruptTypes
<1>3. Shapes
  <2>1. \A h \in Hosts : pc[h] = "idle"  BY ExchangeAssumption DEF Init, Tasks
  <2> QED  BY <2>1, ExchangeAssumption
           DEF Init, Shapes, Tasks, DriverSteps, AnswerSteps, HostSteps, CloseSteps
<1> QED  BY <1>1, <1>2, <1>3, TypeParts

\* Every variable of the exchange keeps its type and only a pending wait is claimed,
\* whichever of LiveExchange, async_respond, async_abandon and async_close interleave.
THEOREM ExchangeTypes == Spec => []TypeOK
<1>1. TypeOK /\ Shapes /\ [Next]_vars => (TypeOK /\ Shapes)'
  BY NextTyped
<1> QED  BY InitTyped, <1>1, PTL DEF Spec


-----------------------------------------------------------------------------
(* A wait is answered by one task at a time *)

\* What no step takes back.
Keeps ==
    \A n \in Waits : /\ Decided(n) => Decided(n)'
                     /\ wait[n] # "absent" => wait'[n] # "absent"

\* A step of tasks that answer nothing; a close may cancel the waits that nobody claimed.
LEMMA QuietAnswers ==
  ASSUME TypeOK, Shapes, Claimed,
         claim' = claim, wait' = wait \/ wait' = Cancelled,
         \A u \in Tasks : \/ pc'[u] = pc[u] /\ at'[u] = at[u]
                          \/ pc[u] \notin AnswerSteps /\ pc'[u] \notin AnswerSteps
  PROVE  Claimed' /\ Keeps
<1>1. InterruptTypes  BY TypeParts
<1>2. \A n \in Waits : \/ wait'[n] = wait[n]
                       \/ wait'[n] = "cancelled" /\ wait[n] = "waiting" /\ claim[n] = None
  BY <1>1, CancelledTyped
<1>3. \A n \in Waits : wait[n] \in {"absent", "waiting", "resumed", "cancelled"}
  BY <1>1 DEF InterruptTypes
<1>4. \A u \in Tasks : pc'[u] \in AnswerSteps => pc[u] = pc'[u] /\ at[u] = at'[u] /\ at[u] \in Waits
  BY DEF Shapes
<1>5. ASSUME NEW n \in Waits
      PROVE  (Decided(n) => Decided(n)') /\ (wait[n] # "absent" => wait'[n] # "absent")
  BY <1>2, <1>4 DEF Decided, AnswerSteps
<1>6. Claimed'
  <2>1. \A u \in Tasks : /\ pc'[u] = "claimed" => claim'[at'[u]] # None
                         /\ pc'[u] \in {"resumed", "running", "publishing"} => wait'[at'[u]] = "resumed"
    BY <1>2, <1>4 DEF Claimed, AnswerSteps
  <2>2. \A t, u \in Tasks :
          pc'[t] \in AnswerSteps /\ pc'[u] \in AnswerSteps /\ at'[t] = at'[u] => t = u
    BY <1>4 DEF Claimed
  <2>3. ASSUME NEW n \in Waits, claim'[n] # None
        PROVE  \E t \in Tasks : pc'[t] = "claimed" /\ at'[t] = n
    <3>1. PICK t \in Tasks : pc[t] = "claimed" /\ at[t] = n  BY <2>3 DEF Claimed
    <3>2. pc'[t] = pc[t] /\ at'[t] = at[t]  BY <3>1 DEF AnswerSteps
    <3> QED  BY <3>1, <3>2
  <2> QED  BY <2>1, <2>2, <2>3 DEF Claimed
<1> QED  BY <1>5, <1>6 DEF Keeps

LEMMA ClaimAnswers ==
  ASSUME TypeOK, Shapes, Claimed, NEW t \in Tasks, NEW r \in Requests \cup {Driver},
         at[t] \in Waits, pc[t] \notin AnswerSteps,
         wait[at[t]] = "waiting", claim[at[t]] = None,
         claim' = [claim EXCEPT ![at[t]] = r], wait' = wait, at' = at,
         Goes(t, "claimed")
  PROVE  Claimed' /\ Keeps
<1>1. InterruptTypes  BY TypeParts
<1>2. \A n \in Waits : claim'[n] = IF n = at[t] THEN r ELSE claim[n]  BY <1>1 DEF InterruptTypes
<1>3. \A u \in Tasks : pc'[u] = IF u = t THEN "claimed" ELSE pc[u]  BY DEF Shapes, Goes
<1>4. \A u \in Tasks : pc[u] \in AnswerSteps => at[u] \in Waits /\ at[u] # at[t]
  BY DEF Shapes, Claimed, AnswerSteps
<1>5. \A n \in Waits : Decided(n) => Decided(n)'  BY <1>3 DEF Decided
<1>6. Claimed'
  <2>1. r # None  BY NoneAssumption
  <2>2. \A u \in Tasks : /\ pc'[u] = "claimed" => claim'[at'[u]] # None
                         /\ pc'[u] \in {"resumed", "running", "publishing"} => wait'[at'[u]] = "resumed"
    BY <1>2, <1>3, <1>4, <2>1 DEF Claimed, AnswerSteps
  <2>3. \A v, u \in Tasks :
          pc'[v] \in AnswerSteps /\ pc'[u] \in AnswerSteps /\ at'[v] = at'[u] => v = u
    BY <1>3, <1>4 DEF Claimed
  <2>4. ASSUME NEW n \in Waits, claim'[n] # None
        PROVE  \E u \in Tasks : pc'[u] = "claimed" /\ at'[u] = n
    <3>1. CASE n = at[t]  BY <1>3, <3>1
    <3>2. CASE n # at[t]
      <4>1. PICK u \in Tasks : pc[u] = "claimed" /\ at[u] = n
        BY <1>2, <2>4, <3>2 DEF Claimed
      <4> QED  BY <1>3, <4>1
    <3> QED  BY <3>1, <3>2
  <2> QED  BY <2>2, <2>3, <2>4 DEF Claimed
<1> QED  BY <1>5, <1>6 DEF Keeps

LEMMA ResumeAnswers ==
  ASSUME TypeOK, Shapes, Claimed, NEW t \in Tasks, Resume(t)
  PROVE  Claimed' /\ Keeps
<1>1. InterruptTypes  BY TypeParts
<1>2. /\ pc[t] = "claimed" /\ at' = at /\ at[t] \in Waits
      /\ \A n \in Waits : wait'[n] = IF n = at[t] THEN "resumed" ELSE wait[n]
      /\ \A n \in Waits : claim'[n] = IF n = at[t] THEN None ELSE claim[n]
      /\ \A u \in Tasks : pc'[u] = IF u = t THEN "resumed" ELSE pc[u]
  BY <1>1 DEF Resume, Goes, Shapes, InterruptTypes, AnswerSteps
<1>3. wait[at[t]] = "waiting"  BY <1>1, <1>2 DEF Claimed, InterruptTypes
<1>4. \A u \in Tasks : pc[u] \in AnswerSteps /\ u # t => at[u] \in Waits /\ at[u] # at[t]
  BY <1>2 DEF Shapes, Claimed, AnswerSteps
<1>5. \A n \in Waits : Decided(n) => Decided(n)'  BY <1>2, <1>3 DEF Decided
<1>6. Claimed'
  <2>2. \A u \in Tasks : /\ pc'[u] = "claimed" => claim'[at'[u]] # None
                         /\ pc'[u] \in {"resumed", "running", "publishing"} => wait'[at'[u]] = "resumed"
    BY <1>2, <1>4 DEF Claimed, AnswerSteps
  <2>3. \A v, u \in Tasks :
          pc'[v] \in AnswerSteps /\ pc'[u] \in AnswerSteps /\ at'[v] = at'[u] => v = u
    BY <1>2, <1>4 DEF Claimed, AnswerSteps
  <2>4. ASSUME NEW n \in Waits, claim'[n] # None
        PROVE  \E u \in Tasks : pc'[u] = "claimed" /\ at'[u] = n
    <3>1. n # at[t] /\ claim[n] # None  BY <1>2, <2>4
    <3>2. PICK u \in Tasks : pc[u] = "claimed" /\ at[u] = n
      BY <3>1 DEF Claimed
    <3> QED  BY <1>2, <3>1, <3>2
  <2> QED  BY <2>2, <2>3, <2>4 DEF Claimed
<1> QED  BY <1>2, <1>5, <1>6 DEF Keeps

\* The dispatch of an answer goes on, ends, opens the next wait or fails.
LEMMA DispatchAnswers ==
  ASSUME TypeOK, Shapes, Claimed, NEW t \in Tasks,
         pc[t] \in {"resumed", "running", "publishing"}, claim' = claim, at' = at, NEW s, Goes(t, s),
         \/ wait' = wait /\ s \notin {"claimed", "resumed"}
         \/ /\ \E m \in Waits : wait[m] = "absent" /\ wait' = [wait EXCEPT ![m] = "waiting"]
            /\ s \notin {"claimed", "resumed"}
         \/ wait' = [wait EXCEPT ![at[t]] = "waiting"] /\ s \notin AnswerSteps
  PROVE  Claimed' /\ Keeps
<1>1. InterruptTypes  BY TypeParts
<1>2. PICK k \in Waits : k = at[t]  BY DEF Shapes, AnswerSteps
<1>3. /\ wait[k] = "resumed" /\ claim[k] = None
      /\ \A u \in Tasks : pc[u] \in AnswerSteps /\ u # t => at[u] \in Waits /\ at[u] # k
  BY <1>1, <1>2 DEF Claimed, InterruptTypes, AnswerSteps, Shapes
<1>4. \A u \in Tasks : pc'[u] = IF u = t THEN s ELSE pc[u]  BY DEF Goes, Shapes
<1>5. ASSUME NEW n \in Waits, Decided(n)
      PROVE  Decided(n)'
  <2>1. n # k /\ wait[n] # "absent"  BY <1>2, <1>5 DEF Decided
  <2>2. wait'[n] = wait[n]  BY <1>1, <1>2, <2>1, <1>5 DEF InterruptTypes, Decided
  <2> QED  BY <1>2, <1>4, <1>5, <2>1, <2>2 DEF Decided
<1>6. \A n \in Waits : wait[n] # "absent" => wait'[n] # "absent"  BY <1>1 DEF InterruptTypes
<1>7. Claimed'
  <2>1. \A u \in Tasks : pc[u] \in AnswerSteps /\ u # t => wait'[at[u]] = wait[at[u]]
    <3> SUFFICES ASSUME NEW u \in Tasks, pc[u] \in AnswerSteps, u # t
                 PROVE  wait'[at[u]] = wait[at[u]]
      OBVIOUS
    <3>1. PICK n \in Waits : n = at[u] /\ n # k  BY <1>3
    <3>2. wait[n] # "absent"
      BY <1>1, <3>1 DEF Claimed, AnswerSteps, InterruptTypes
    <3>3. wait'[n] = wait[n]  BY <1>1, <1>2, <3>1, <3>2 DEF InterruptTypes
    <3> QED  BY <3>1, <3>3
  <2>2. \A u \in Tasks : /\ pc'[u] = "claimed" => claim'[at'[u]] # None
                         /\ pc'[u] \in {"resumed", "running", "publishing"} => wait'[at'[u]] = "resumed"
    <3>1. s \in {"running", "publishing"} => wait'[k] = "resumed"
      BY <1>1, <1>2, <1>3 DEF AnswerSteps, InterruptTypes
    <3>2. s # "resumed" /\ s # "claimed"  BY DEF AnswerSteps
    <3> QED  BY <1>2, <1>3, <1>4, <2>1, <3>1, <3>2 DEF Claimed, AnswerSteps
  <2>3. \A v, u \in Tasks :
          pc'[v] \in AnswerSteps /\ pc'[u] \in AnswerSteps /\ at'[v] = at'[u] => v = u
    BY <1>2, <1>3, <1>4 DEF Claimed, AnswerSteps
  <2>4. ASSUME NEW n \in Waits, claim'[n] # None
        PROVE  \E u \in Tasks : pc'[u] = "claimed" /\ at'[u] = n
    <3>2. PICK u \in Tasks : pc[u] = "claimed" /\ at[u] = n
      BY <2>4 DEF Claimed
    <3> QED  BY <1>4, <3>2
  <2> QED  BY <2>2, <2>3, <2>4 DEF Claimed
<1> QED  BY <1>5, <1>6, <1>7 DEF Keeps

\* async_start opens the first wait of all.
LEMMA StartAnswers ==
  ASSUME TypeOK, Shapes, Claimed, Begun, Start
  PROVE  Claimed' /\ Keeps
<1>1. InterruptTypes /\ Driver \in Tasks  BY TypeParts DEF Tasks
<1>2. /\ claim' = claim /\ at' = at /\ pc[Driver] = "start"
      /\ wait' = wait \/ wait' = [wait EXCEPT ![1] = "waiting"]
      /\ \E s \in {"resolving", "failed"} : Goes(Driver, s)
  BY DEF Start, DriverEnds
<1>3. PICK s \in {"resolving", "failed"} : \A u \in Tasks : pc'[u] = IF u = Driver THEN s ELSE pc[u]
  BY <1>2 DEF Goes, Shapes
<1>4. \A n \in Waits : wait[n] = "absent" /\ claim[n] = None
  BY <1>1, <1>2 DEF Begun, InterruptTypes
<1>5. \A u \in Tasks : pc[u] \notin AnswerSteps /\ pc'[u] \notin AnswerSteps
  BY <1>2, <1>3, <1>4 DEF Shapes, Claimed, AnswerSteps
<1>6. \A n \in Waits : ~Decided(n)  BY <1>4 DEF Decided
<1>7. Claimed'  BY <1>2, <1>4, <1>5 DEF Claimed, AnswerSteps
<1> QED  BY <1>4, <1>6, <1>7 DEF Keeps


\* A step to which only the task t belongs, and which does not answer.
LEMMA QuietStep ==
  ASSUME TypeOK, Shapes, Claimed, NEW t \in Tasks, NEW s, Goes(t, s),
         pc[t] \notin AnswerSteps, s \notin AnswerSteps,
         \A u \in Tasks \ {t} : at'[u] = at[u],
         claim' = claim, wait' = wait \/ wait' = Cancelled
  PROVE  Claimed' /\ Keeps
<1>1. \A u \in Tasks : pc'[u] = IF u = t THEN s ELSE pc[u]  BY DEF Goes, Shapes
<1> QED  BY <1>1, QuietAnswers

LEMMA ContinueAnswers ==
  ASSUME TypeOK, Shapes, Claimed, NEW t \in Tasks, NEW r \in Requests \cup {Driver},
         NEW leaving, NEW noted,
         at[t] \in Waits, pc[t] \notin AnswerSteps,
         Continue(t, at[t], r, leaving, noted), at' = at
  PROVE  Claimed' /\ Keeps
<1>1. EntryTypes  BY TypeParts
<1>2. CASE ContinueReturns(t) /\ UNCHANGED interruptVars
  BY <1>1, <1>2, ReturnEffect, QuietStep DEF interruptVars, AnswerSteps
<1>3. CASE ContinueRaises(t) /\ UNCHANGED interruptVars
  BY <1>1, <1>3, RaiseEffect, QuietStep DEF interruptVars, AnswerSteps
<1>4. CASE /\ wait[at[t]] = "waiting" /\ claim[at[t]] = None
           /\ claim' = [claim EXCEPT ![at[t]] = r] /\ wait' = wait
           /\ Goes(t, "claimed")
  BY <1>4, ClaimAnswers
<1> QED  BY <1>2, <1>3, <1>4, Zenon DEF Continue

LEMMA NextAnswers ==
  ASSUME TypeOK, Shapes, Claimed, Begun, [Next]_vars
  PROVE  Claimed' /\ Keeps
<1>1. EntryTypes /\ Driver \in Tasks  BY TypeParts DEF Tasks
<1>0. \A h \in Hosts : h # Driver /\ h \in Tasks  BY ExchangeAssumption DEF Tasks
<1>2. CASE UNCHANGED vars
  BY <1>2, QuietAnswers DEF vars, interruptVars
<1>3. ASSUME NEW t \in Tasks, TaskStep(t)
      PROVE  Claimed' /\ Keeps
  <2>1. CASE Resume(t)
    BY <2>1, ResumeAnswers
  <2>2. CASE Dispatch(t)
    <3>1. /\ pc[t] = "resumed" /\ claim' = claim /\ at' = at /\ wait' = wait
          /\ ContinueReturns(t) \/ Goes(t, "running")
      BY <2>2, Zenon DEF Dispatch, interruptVars
    <3>2. CASE ContinueReturns(t)
      <4>1. Goes(t, IF t = Driver THEN "resolving" ELSE "answered")
        BY <1>1, <3>2, ReturnEffect
      <4> QED  BY <3>1, <4>1, DispatchAnswers
    <3>3. CASE Goes(t, "running")
      BY <3>1, <3>3, DispatchAnswers
    <3> QED  BY <3>1, <3>2, <3>3
  <2>3. CASE RunOpens(t)
    <3>1. pc[t] = "running" /\ claim' = claim /\ at' = at /\ Goes(t, "publishing")
      BY <2>3 DEF RunOpens
    <3>2. PICK m \in Waits : wait[m] = "absent" /\ wait' = [wait EXCEPT ![m] = "waiting"]
      BY <2>3, NextWait
    <3> QED  BY <3>1, <3>2, DispatchAnswers
  <2>4. CASE RunReturns(t)
    <3>1. /\ pc[t] \in {"running", "publishing"} /\ claim' = claim /\ at' = at
          /\ ContinueReturns(t) /\ wait' = wait
      BY <2>4 DEF RunReturns, interruptVars
    <3>2. Goes(t, IF t = Driver THEN "resolving" ELSE "answered")
      BY <1>1, <3>1, ReturnEffect
    <3> QED  BY <3>1, <3>2, DispatchAnswers DEF AnswerSteps
  <2>5. CASE RunFails(t)
    <3>1. /\ pc[t] \in {"running", "publishing"} /\ claim' = claim /\ at' = at /\ ContinueRaises(t)
          /\ wait' = [wait EXCEPT ![at[t]] = "waiting"]
      BY <2>5 DEF RunFails
    <3>2. Goes(t, IF t = Driver THEN "failed" ELSE "idle")
      BY <1>1, <3>1, RaiseEffect
    <3> QED  BY <3>1, <3>2, DispatchAnswers DEF AnswerSteps
  <2>6. CASE CloseBegins(t) \/ DrainEnds(t) \/ CloseLooks(t) \/ CloseEnds(t)
    <3>1. /\ pc[t] \in CloseSteps /\ claim' = claim /\ at' = at
          /\ wait' = wait \/ wait' = Cancelled
          /\ \/ CloseReturns(t) \/ CloseRaises(t)
             \/ \E s \in {"draining", "drained", "settled"} : Goes(t, s)
      BY <2>6, Zenon DEF CloseBegins, DrainEnds, CloseLooks, CloseEnds, interruptVars, CloseSteps
    <3>2. PICK s \in {"finished", "failed", "ending", "idle", "draining", "drained", "settled"} : Goes(t, s)
      BY <1>1, <3>1, CloseReturnEffect, CloseRaiseEffect
    <3> QED  BY <3>1, <3>2, QuietStep DEF AnswerSteps, CloseSteps
  <2> QED  BY <1>3, <2>1, <2>2, <2>3, <2>4, <2>5, <2>6 DEF TaskStep, RunSteps
<1>4. CASE Deny \/ ProviderAnswers \/ HotOver
  <2>1. pc[Driver] \in {"notifying", "hot"} /\ at' = at
    BY <1>4, Zenon DEF Deny, ProviderAnswers, HotOver
  <2>2. at[Driver] \in Waits  BY <1>1, <2>1 DEF Shapes
  <2>3. CASE \E leaving, noted : Continue(Driver, at[Driver], Driver, leaving, noted)
    BY <1>1, <2>1, <2>2, <2>3, ContinueAnswers DEF AnswerSteps
  <2>4. CASE Goes(Driver, "pausing") /\ UNCHANGED interruptVars
    BY <1>1, <2>1, <2>4, QuietStep DEF AnswerSteps, interruptVars
  <2> QED  BY <1>4, <2>3, <2>4, Zenon DEF Deny, ProviderAnswers, HotOver
<1>5. CASE Start
  BY <1>5, StartAnswers
<1>6. CASE Resolve \/ HotWait \/ HotResolved \/ Pause \/ Paused
  <2>1. pc[Driver] \in {"resolving", "notifying", "hot", "pausing"} /\ UNCHANGED interruptVars
    BY <1>6, Zenon DEF Resolve, HotWait, HotResolved, Pause, Paused
  <2>2. \E s \in {"lock", "notifying", "hot", "resolving", "pausing", "paused"} : Goes(Driver, s)
    BY <1>6, Zenon DEF Resolve, HotWait, HotResolved, Pause, Paused
  <2>3. at' = at \/ at' = [at EXCEPT ![Driver] = Min(Pending)]
    BY <1>6, Zenon DEF Resolve, HotWait, HotResolved, Pause, Paused
  <2>4. \A u \in Tasks \ {Driver} : at'[u] = at[u]  BY <2>3 DEF Shapes
  <2> QED  BY <1>1, <2>1, <2>2, <2>4, QuietStep DEF AnswerSteps, interruptVars
<1>7. ASSUME NEW h \in Hosts, HostStep(h)
      PROVE  Claimed' /\ Keeps
  <2>1. ASSUME NEW r \in Requests, Respond(h, r)
        PROVE  Claimed' /\ Keeps
    <3>1. pc[h] = "found" /\ Continue(h, at[h], r, FALSE, {}) /\ at' = at  BY <2>1 DEF Respond
    <3>2. at[h] \in Waits  BY <3>1 DEF Shapes, HostSteps
    <3> QED  BY <1>0, <3>1, <3>2, ContinueAnswers DEF AnswerSteps
  <2>2. CASE Answered(h) \/ RespondEnds(h)
    <3>1. /\ pc[h] \in {"answered", "ending"} /\ at' = at /\ UNCHANGED interruptVars
          /\ \E s \in {"ending", "lock", "idle"} : Goes(h, s)
      BY <2>2, Zenon DEF Answered, RespondEnds, HostIdle
    <3> QED  BY <1>0, <3>1, QuietStep DEF AnswerSteps, interruptVars
  <2> QED  BY <1>7, <2>1, <2>2 DEF HostStep
<1>8. ASSUME NEW h \in Hosts,
             DirectClose(h) \/ \E n \in Waits, kind \in {"respond", "abandon"} : LookUp(h, n, kind)
      PROVE  Claimed' /\ Keeps
  <2>1. /\ pc[h] = "idle" /\ UNCHANGED interruptVars
        /\ \E s \in {"found", "lock"} : Goes(h, s)
        /\ at' = at \/ \E n \in Waits : at' = [at EXCEPT ![h] = n]
    BY <1>8, Zenon DEF DirectClose, LookUp
  <2>2. \A u \in Tasks \ {h} : at'[u] = at[u]  BY <2>1 DEF Shapes
  <2> QED  BY <1>0, <2>1, <2>2, QuietStep DEF AnswerSteps, interruptVars
<1>9. CASE Watch
  BY <1>9, QuietAnswers DEF Watch, interruptVars
<1> QED  BY <1>2, <1>3, <1>4, <1>5, <1>6, <1>7, <1>8, <1>9, Zenon DEF Next, DriverStep


-----------------------------------------------------------------------------
(* _close_lock *)

\* One close is past the lock, and the execution is sealed as long as it is.
Locked ==
    /\ \A t, u \in Tasks :
          pc[t] \in Closing /\ pc[u] \in Closing => t = u
    /\ \A t \in Tasks : pc[t] \in Closing => lifecycle = "sealed"

LEMMA UnlockedStep ==
  ASSUME Shapes, Locked, NEW t \in Tasks, NEW s, Goes(t, s), lifecycle' = lifecycle,
         s \notin Closing \/ pc[t] \in Closing
  PROVE  Locked'
<1>1. \A u \in Tasks : pc'[u] = IF u = t THEN s ELSE pc[u]  BY DEF Goes, Shapes
<1> QED  BY <1>1 DEF Locked

LEMMA ContinueStep ==
  ASSUME EntryTypes, NEW t \in Tasks, NEW n, NEW r, NEW leaving, NEW noted,
         Continue(t, n, r, leaving, noted)
  PROVE  \E s \in {"answered", "resolving", "idle", "failed", "claimed"} : Goes(t, s)
<1>1. CASE ContinueReturns(t)  BY <1>1, ReturnEffect
<1>2. CASE ContinueRaises(t)  BY <1>2, RaiseEffect
<1>3. CASE Goes(t, "claimed")  BY <1>3
<1> QED  BY <1>1, <1>2, <1>3, Zenon DEF Continue

LEMMA NextLocked ==
  ASSUME TypeOK, Shapes, Locked, [Next]_vars
  PROVE  Locked'
<1>1. EntryTypes /\ Driver \in Tasks  BY TypeParts DEF Tasks
<1>0. \A h \in Hosts : h \in Tasks  BY DEF Tasks
<1>2. CASE UNCHANGED vars
  BY <1>2 DEF vars, Locked
<1>3. ASSUME NEW t \in Tasks, TaskStep(t)
      PROVE  Locked'
  <2>1. CASE Resume(t) \/ Dispatch(t) \/ RunSteps(t)
    <3>1. lifecycle' = lifecycle
      BY <2>1, Zenon DEF Resume, Dispatch, RunSteps, RunOpens, RunReturns, RunFails
    <3>2. \/ ContinueReturns(t) \/ ContinueRaises(t)
          \/ \E s \in {"resumed", "running", "publishing"} : Goes(t, s)
      BY <2>1, Zenon DEF Resume, Dispatch, RunSteps, RunOpens, RunReturns, RunFails
    <3>3. \E s \in {"resumed", "running", "publishing", "answered", "resolving", "idle", "failed"} : Goes(t, s)
      BY <1>1, <3>2, ReturnEffect, RaiseEffect
    <3> QED  BY <3>1, <3>3, UnlockedStep DEF Closing
  <2>2. CASE CloseBegins(t)
    <3>1. CASE lifecycle' = lifecycle /\ (CloseReturns(t) \/ CloseRaises(t)) /\ pc[t] = "lock"
      <4>1. \E s \in {"finished", "failed", "ending", "idle"} : Goes(t, s)
        BY <1>1, <3>1, CloseReturnEffect, CloseRaiseEffect DEF CloseSteps
      <4> QED  BY <3>1, <4>1, UnlockedStep DEF Closing
    <3>2. CASE /\ lifecycle # "closed" /\ \A u \in Tasks : pc[u] \notin Closing
               /\ lifecycle' = "sealed" /\ Goes(t, "draining")
      <4>1. \A u \in Tasks : pc'[u] = IF u = t THEN "draining" ELSE pc[u]
        BY <3>2 DEF Goes, Shapes
      <4> QED  BY <3>2, <4>1 DEF Locked
    <3> QED  BY <2>2, <3>1, <3>2, Zenon DEF CloseBegins
  <2>3. CASE DrainEnds(t) \/ CloseLooks(t) \/ CloseEnds(t)
    <3>1. CASE CloseReturns(t) \/ CloseRaises(t)
      <4>1. PICK s \in {"finished", "failed", "ending", "idle"} : Goes(t, s)
        BY <1>1, <2>3, <3>1, CloseReturnEffect, CloseRaiseEffect
           DEF CloseSteps, DrainEnds, CloseLooks, CloseEnds
      <4>2. \A u \in Tasks : pc'[u] = IF u = t THEN s ELSE pc[u]
        BY <4>1 DEF Goes, Shapes
      <4>3. pc[t] \in Closing  BY <2>3 DEF DrainEnds, CloseLooks, CloseEnds, Closing
      <4>4. \A u \in Tasks : pc'[u] \notin Closing
        BY <4>2, <4>3 DEF Locked, Closing
      <4> QED  BY <4>4 DEF Locked
    <3>2. CASE /\ pc[t] \in {"draining", "drained"} /\ lifecycle' = lifecycle
               /\ \E s \in {"drained", "settled"} : Goes(t, s)
      BY <3>2, UnlockedStep DEF Closing
    <3> QED  BY <2>3, <3>1, <3>2, Zenon DEF DrainEnds, CloseLooks, CloseEnds
  <2> QED  BY <1>3, <2>1, <2>2, <2>3 DEF TaskStep
<1>4. CASE Deny \/ ProviderAnswers \/ HotOver
  <2>1. lifecycle' = lifecycle  BY <1>4, Zenon DEF Deny, ProviderAnswers, HotOver
  <2>2. CASE \E leaving, noted : Continue(Driver, at[Driver], Driver, leaving, noted)
    BY <1>1, <2>1, <2>2, ContinueStep, UnlockedStep DEF Closing
  <2>3. CASE Goes(Driver, "pausing")
    BY <1>1, <2>1, <2>3, UnlockedStep DEF Closing
  <2> QED  BY <1>4, <2>2, <2>3, Zenon DEF Deny, ProviderAnswers, HotOver
<1>5. CASE Start \/ Resolve \/ HotWait \/ HotResolved \/ Pause \/ Paused
  <2>1. \E s \in {"lock", "notifying", "hot", "resolving", "pausing", "paused", "failed"} : Goes(Driver, s)
    BY <1>5, Zenon DEF Start, DriverEnds, Resolve, HotWait, HotResolved, Pause, Paused
  <2>2. lifecycle' = lifecycle
    BY <1>5, Zenon DEF Start, Resolve, HotWait, HotResolved, Pause, Paused
  <2> QED  BY <1>1, <2>1, <2>2, UnlockedStep DEF Closing
<1>6. ASSUME NEW h \in Hosts, HostStep(h)
      PROVE  Locked'
  <2>1. lifecycle' = lifecycle  BY <1>6, Zenon DEF HostStep, Respond, Answered, RespondEnds
  <2>2. CASE \E r \in Requests : Continue(h, at[h], r, FALSE, {})
    BY <1>0, <1>1, <2>1, <2>2, ContinueStep, UnlockedStep DEF Closing
  <2>3. CASE \E s \in {"ending", "lock", "idle"} : Goes(h, s)
    BY <1>0, <2>1, <2>3, UnlockedStep DEF Closing
  <2> QED  BY <1>6, <2>2, <2>3, Zenon DEF HostStep, Respond, Answered, RespondEnds, HostIdle
<1>7. ASSUME NEW h \in Hosts,
             DirectClose(h) \/ \E n \in Waits, kind \in {"respond", "abandon"} : LookUp(h, n, kind)
      PROVE  Locked'
  <2>1. lifecycle' = lifecycle /\ \E s \in {"found", "lock"} : Goes(h, s)
    BY <1>7, Zenon DEF DirectClose, LookUp
  <2> QED  BY <1>0, <2>1, UnlockedStep DEF Closing
<1>8. CASE Watch
  BY <1>8 DEF Watch, Locked
<1> QED  BY <1>2, <1>3, <1>4, <1>5, <1>6, <1>7, <1>8, Zenon DEF Next, DriverStep

-----------------------------------------------------------------------------
(* The registry *)

\* A step of the host h: what it may do to the waits, the registry and its own call.
HostMove(h) ==
    /\ pc'[Driver] = pc[Driver] /\ at'[Driver] = at[Driver]
    /\ entry'[Driver] = entry[Driver] /\ todo' = todo
    /\ \A g \in Hosts \ {h} :
          pc'[g] = pc[g] /\ at'[g] = at[g] /\ call'[g] = call[g] /\ entry'[g] = entry[g]
    /\ history \subseteq history'
    /\ lifecycle = "closed" => lifecycle' = "closed"
    /\ \A n \in Waits : wait[n] = "absent" /\ wait'[n] # "absent" => pc[h] = "running"
    /\ \A n \in Waits : wait'[n] = "waiting" /\ wait[n] # "waiting" =>
          /\ pc[h] \in {"running", "publishing"} /\ live' = live
          /\ n = at[h] \/ (pc'[h] = "publishing" /\ entry'[h] = entry[h])
    /\ \A n \in Waits : wait[n] = "waiting" /\ wait'[n] # "waiting" =>
          /\ live' = live
          /\ \/ n = at[h] /\ pc[h] = "claimed" /\ pc'[h] = "resumed" /\ entry'[h] = entry[h]
             \/ wait' = Cancelled /\ pc[h] \notin AnswerSteps \cup {"answered"}
    /\ pc[h] \in {"resumed", "running", "publishing", "answered"} =>
          \/ /\ pc'[h] \in {"resumed", "running", "publishing", "answered"}
             /\ entry'[h] = entry[h]
          \/ pc[h] \in {"running", "publishing"} /\ live' = live /\ wait'[at[h]] = "waiting"
          \/ pc[h] = "answered" /\ wait' = wait
    /\ \A n \in Waits :
          \/ live'[n] = live[n]
          \/ live'[n] = None /\ (lifecycle' = "closed" \/ (pc[h] = "ending" /\ n = at[h]))
          \/ /\ pc[h] = "answered" /\ entry[h].hooks /\ n \in Pending
             /\ live'[n] # None /\ live'[n].hooks = TRUE
    /\ pc[h] = "answered" /\ entry[h].hooks => \A n \in Pending : live'[n] # None
    /\ \/ pc'[h] = "idle" \/ call'[h] # "respond"
       \/ /\ pc[h] = "idle" /\ pc'[h] = "found" /\ live' = live /\ at'[h] \in Waits
          /\ live[at'[h]] # None /\ entry'[h] = live[at'[h]] /\ wait' = wait
       \/ /\ Responding(h) /\ at'[h] = at[h] /\ entry'[h] = entry[h]
          /\ \/ pc[h] \in AnswerSteps \cup {"found"} /\ pc'[h] \in AnswerSteps \cup {"found"}
                /\ live' = live
             \/ pc[h] \notin AnswerSteps \cup {"found"}
             \/ lifecycle' = "closed" \/ history' # {}
             \/ \E n \in Waits : n = at[h] /\ Decided(n)'

\* The host keeps its call.
LEMMA SameCall ==
  ASSUME Shapes, NEW h \in Hosts, pc[h] \in AnswerSteps \cup {"found", "answered", "ending"},
         at' = at
  PROVE  Responding(h) /\ at'[h] = at[h] /\ at[h] \in Waits
BY DEF Shapes, Responding, AnswerSteps

LEMMA TaskStepMoves ==
  ASSUME TypeOK, Shapes, Claimed, Locked, NEW h \in Hosts, TaskStep(h)
  PROVE  HostMove(h)
<1>1. EntryTypes /\ InterruptTypes /\ Driver \in Tasks /\ h \in Tasks /\ h # Driver
  BY TypeParts, ExchangeAssumption DEF Tasks
<1>2. \A s : Goes(h, s) => \A u \in Tasks : pc'[u] = IF u = h THEN s ELSE pc[u]
  BY DEF Goes, Shapes
<1>3. \A g \in Hosts : g \in Tasks  BY DEF Tasks
<1>4. CASE Resume(h)
  <2>1. /\ pc[h] = "claimed" /\ Goes(h, "resumed") /\ wait' = [wait EXCEPT ![at[h]] = "resumed"]
        /\ UNCHANGED <<lifecycle, live, at, entry, call, todo, history>>
    BY <1>4 DEF Resume, entryVars
  <2>2. /\ Responding(h) /\ at'[h] = at[h] /\ at[h] \in Waits  BY <2>1, SameCall DEF AnswerSteps
  <2>3. wait[at[h]] = "waiting"  BY <1>1, <2>1, <2>2 DEF Claimed, InterruptTypes
  <2>4. \A n \in Waits : wait'[n] = IF n = at[h] THEN "resumed" ELSE wait[n]
    BY <1>1, <2>1 DEF InterruptTypes
  <2>5. \A u \in Tasks : pc'[u] = IF u = h THEN "resumed" ELSE pc[u]  BY <1>2, <2>1
  <2> QED  BY <1>1, <1>3, <2>1, <2>2, <2>3, <2>4, <2>5 DEF HostMove, AnswerSteps
<1>5. CASE Dispatch(h)
  <2>1. /\ pc[h] = "resumed" /\ wait' = wait
        /\ UNCHANGED <<lifecycle, at, call, todo, history>>
        /\ \/ lifecycle = "closed" /\ ContinueReturns(h)
           \/ Goes(h, "running") /\ live' = live /\ entry' = entry
    BY <1>5 DEF Dispatch, interruptVars, entryVars
  <2>2. /\ Responding(h) /\ at'[h] = at[h] /\ at[h] \in Waits  BY <2>1, SameCall DEF AnswerSteps
  <2>3. CASE lifecycle = "closed" /\ ContinueReturns(h)
    <3>1. Goes(h, "answered") /\ live' = live /\ entry' = entry  BY <1>1, <2>3, ReturnEffect
    <3>2. \A u \in Tasks : pc'[u] = IF u = h THEN "answered" ELSE pc[u]  BY <1>2, <3>1
    <3> QED  BY <1>1, <1>3, <2>1, <2>2, <2>3, <3>1, <3>2 DEF HostMove, AnswerSteps
  <2>4. CASE Goes(h, "running") /\ live' = live /\ entry' = entry
    <3>2. \A u \in Tasks : pc'[u] = IF u = h THEN "running" ELSE pc[u]  BY <1>2, <2>4
    <3> QED  BY <1>1, <1>3, <2>1, <2>2, <2>4, <3>2 DEF HostMove, AnswerSteps
  <2> QED  BY <2>1, <2>3, <2>4
<1>10. CASE RunOpens(h)
  <2>1. /\ pc[h] = "running" /\ Goes(h, "publishing")
        /\ UNCHANGED <<lifecycle, live, at, entry, call, todo, history>>
    BY <1>10 DEF RunOpens, entryVars
  <2>2. PICK m \in Waits : wait[m] = "absent" /\ wait' = [wait EXCEPT ![m] = "waiting"]
    BY <1>10, NextWait
  <2>3. /\ Responding(h) /\ at'[h] = at[h] /\ at[h] \in Waits  BY <2>1, SameCall DEF AnswerSteps
  <2>4. \A n \in Waits : wait'[n] = IF n = m THEN "waiting" ELSE wait[n]
    BY <1>1, <2>2 DEF InterruptTypes
  <2>5. \A u \in Tasks : pc'[u] = IF u = h THEN "publishing" ELSE pc[u]  BY <1>2, <2>1
  <2> QED  BY <1>1, <1>3, <2>1, <2>2, <2>3, <2>4, <2>5 DEF HostMove, AnswerSteps
<1>6. CASE RunReturns(h)
  <2>1. /\ pc[h] \in {"running", "publishing"}
        /\ UNCHANGED <<lifecycle, at, call, todo, history>>
        /\ ContinueReturns(h) /\ wait' = wait
    BY <1>6, Zenon DEF RunReturns, interruptVars
  <2>2. Responding(h) /\ at'[h] = at[h]  BY <2>1, SameCall DEF AnswerSteps
  <2>3. PICK k \in Waits : k = at[h]  BY <2>1, SameCall DEF AnswerSteps
  <2>4. Goes(h, "answered") /\ live' = live /\ entry' = entry  BY <1>1, <2>1, ReturnEffect
  <2>5. \A u \in Tasks : pc'[u] = IF u = h THEN "answered" ELSE pc[u]  BY <1>2, <2>4
  <2>7. Decided(k)'
    <3>1. wait[k] = "resumed"  BY <1>1, <2>1, <2>3 DEF Claimed
    <3>2. wait'[k] = "resumed"  BY <2>1, <3>1
    <3>3. \A u \in Tasks : at[u] = k => pc'[u] \notin {"resumed", "running", "publishing"}
      BY <1>1, <2>1, <2>3, <2>5 DEF Claimed, AnswerSteps
    <3> QED  BY <2>1, <3>2, <3>3 DEF Decided
  <2> QED  BY <1>1, <1>3, <2>1, <2>2, <2>3, <2>4, <2>5, <2>7 DEF HostMove, AnswerSteps
<1>7. CASE RunFails(h)
  <2>1. /\ pc[h] \in {"running", "publishing"} /\ ContinueRaises(h)
        /\ UNCHANGED <<lifecycle, at, call, todo, history>>
        /\ wait' = [wait EXCEPT ![at[h]] = "waiting"]
    BY <1>7 DEF RunFails
  <2>2. at[h] \in Waits /\ wait[at[h]] = "resumed"
    BY <1>1, <2>1, SameCall DEF AnswerSteps, Claimed
  <2>3. Goes(h, "idle") /\ live' = live /\ \A u \in Tasks \ {h} : entry'[u] = entry[u]
    BY <1>1, <2>1, RaiseEffect
  <2>4. \A u \in Tasks : pc'[u] = IF u = h THEN "idle" ELSE pc[u]  BY <1>2, <2>3
  <2>5. \A n \in Waits : wait'[n] = IF n = at[h] THEN "waiting" ELSE wait[n]
    BY <1>1, <2>1 DEF InterruptTypes
  <2> QED  BY <1>1, <1>3, <2>1, <2>2, <2>3, <2>4, <2>5 DEF HostMove
<1>8. CASE CloseBegins(h) \/ DrainEnds(h) \/ CloseLooks(h) \/ CloseEnds(h)
  <2>1. /\ pc[h] \in CloseSteps
        /\ UNCHANGED <<at, call, todo, history>>
        /\ wait' = wait \/ wait' = Cancelled
    BY <1>8, Zenon DEF CloseBegins, DrainEnds, CloseLooks, CloseEnds, interruptVars, CloseSteps
  <2>2. \/ CloseReturns(h) /\ lifecycle' = "closed" /\ wait' = wait
        \/ CloseRaises(h) /\ (pc[h] = "drained" \/ lifecycle # "closed") /\ wait' = wait
        \/ /\ \E s \in {"draining", "drained", "settled"} : Goes(h, s)
           /\ UNCHANGED <<live, entry>> /\ (lifecycle' = lifecycle \/ lifecycle # "closed")
    BY <1>8, Zenon DEF CloseBegins, DrainEnds, CloseLooks, CloseEnds, entryVars, interruptVars
  <2>3. \A n \in Waits : \/ wait'[n] = wait[n]
                         \/ wait'[n] = "cancelled" /\ wait[n] = "waiting"
    BY <1>1, <2>1, CancelledTyped
  <2>4. CASE CloseReturns(h) /\ lifecycle' = "closed" /\ wait' = wait
    <3>1. PICK s \in {"ending", "idle"} : /\ Goes(h, s)
                                          /\ s = "ending" => call[h] = "respond" /\ entry' = entry
      BY <1>1, <2>1, <2>4, CloseReturnEffect
    <3>2. /\ \A n \in Waits : live'[n] \in {live[n], None}
          /\ \A u \in Tasks \ {h} : entry'[u] = entry[u]
      BY <1>1, <2>1, <2>4, CloseReturnEffect
    <3>3. \A u \in Tasks : pc'[u] = IF u = h THEN s ELSE pc[u]  BY <1>2, <3>1
    <3> QED  BY <1>1, <1>3, <2>1, <2>3, <2>4, <3>1, <3>2, <3>3 DEF HostMove, Responding, AnswerSteps, CloseSteps
  <2>5. CASE CloseRaises(h) /\ (pc[h] = "drained" \/ lifecycle # "closed") /\ wait' = wait
    <3>1. lifecycle # "closed"  BY <1>1, <2>5 DEF Locked, Closing
    <3>2. Goes(h, "idle") /\ live' = live /\ \A u \in Tasks \ {h} : entry'[u] = entry[u]
      BY <1>1, <2>5, CloseRaiseEffect
    <3>3. \A u \in Tasks : pc'[u] = IF u = h THEN "idle" ELSE pc[u]  BY <1>2, <3>2
    <3> QED  BY <1>1, <1>3, <2>1, <2>3, <3>1, <3>2, <3>3 DEF HostMove, AnswerSteps, CloseSteps
  <2>6. CASE /\ \E s \in {"draining", "drained", "settled"} : Goes(h, s)
             /\ UNCHANGED <<live, entry>> /\ (lifecycle' = lifecycle \/ lifecycle # "closed")
    <3>1. PICK s \in {"draining", "drained", "settled"} : \A u \in Tasks : pc'[u] = IF u = h THEN s ELSE pc[u]
      BY <1>2, <2>6
    <3>2. /\ pc[h] # "idle" /\ pc[h] \notin AnswerSteps \cup {"found", "answered"}
          /\ pc'[h] \notin {"idle", "answered"}
      BY <1>1, <2>1, <3>1 DEF AnswerSteps, CloseSteps
    <3> QED  BY <1>1, <1>3, <2>1, <2>3, <2>6, <3>1, <3>2
             DEF HostMove, Responding, AnswerSteps, CloseSteps
  <2> QED  BY <2>2, <2>4, <2>5, <2>6
<1> QED  BY <1>4, <1>5, <1>6, <1>7, <1>8, <1>10 DEF TaskStep, RunSteps


LEMMA RespondMoves ==
  ASSUME TypeOK, Shapes, Begun, NEW h \in Hosts, NEW r \in Requests, Respond(h, r)
  PROVE  HostMove(h)
<1>1. EntryTypes /\ InterruptTypes /\ Driver \in Tasks /\ h \in Tasks /\ h # Driver
  BY TypeParts, ExchangeAssumption DEF Tasks
<1>2. \A g \in Hosts : g \in Tasks  BY DEF Tasks
<1>3. /\ pc[h] = "found" /\ UNCHANGED <<lifecycle, at, call, todo>>
      /\ Continue(h, at[h], r, FALSE, {})
  BY DEF Respond
<1>4. Responding(h) /\ at'[h] = at[h]  BY <1>3, SameCall
<1>5. PICK n \in Waits : n = at[h]  BY <1>3, SameCall
<1>6. \A s : Goes(h, s) => \A u \in Tasks : pc'[u] = IF u = h THEN s ELSE pc[u]
  BY DEF Goes, Shapes
<1>7. CASE /\ history' = history \cup {} \cup (IF Undecided(n) THEN {"ignored"} ELSE {})
           /\ ContinueReturns(h) /\ UNCHANGED interruptVars
  <2>1. Goes(h, "answered") /\ live' = live /\ entry' = entry /\ wait' = wait
    BY <1>1, <1>7, ReturnEffect DEF interruptVars
  <2>2. \A u \in Tasks : pc'[u] = IF u = h THEN "answered" ELSE pc[u]  BY <1>6, <2>1
  <2>3. history' # {} \/ Decided(n)'
    <3> SUFFICES ASSUME history' = {} PROVE Decided(n)'  OBVIOUS
    <3>1. ~Undecided(n)  BY <1>7
    <3>2. wait[n] \in {"resumed", "cancelled"}
      BY <1>1, <1>4, <1>5, <3>1 DEF Undecided, Begun, InterruptTypes
    <3> QED  BY <1>3, <2>1, <2>2, <3>1, <3>2 DEF Undecided, Decided
  <2>4. history \subseteq history'  BY <1>7
  <2> QED  BY <1>1, <1>2, <1>3, <1>4, <1>5, <2>1, <2>2, <2>3, <2>4 DEF HostMove, AnswerSteps
<1>8. CASE history' = history \cup {} /\ ContinueRaises(h) /\ UNCHANGED interruptVars
  <2>1. /\ Goes(h, "idle") /\ live' = live /\ wait' = wait
        /\ \A u \in Tasks \ {h} : entry'[u] = entry[u]
    BY <1>1, <1>8, RaiseEffect DEF interruptVars
  <2>2. \A u \in Tasks : pc'[u] = IF u = h THEN "idle" ELSE pc[u]  BY <1>6, <2>1
  <2> QED  BY <1>1, <1>2, <1>3, <1>8, <2>1, <2>2 DEF HostMove
<1>9. CASE /\ history' = history \cup {} /\ Goes(h, "claimed") /\ wait' = wait
           /\ UNCHANGED <<entryVars, entry>>
  <2>1. live' = live /\ entry' = entry  BY <1>9 DEF entryVars
  <2>2. \A u \in Tasks : pc'[u] = IF u = h THEN "claimed" ELSE pc[u]  BY <1>6, <1>9
  <2> QED  BY <1>1, <1>2, <1>3, <1>4, <1>9, <2>1, <2>2 DEF HostMove, AnswerSteps
<1> QED  BY <1>3, <1>5, <1>7, <1>8, <1>9, Zenon DEF Continue

LEMMA CallMoves ==
  ASSUME TypeOK, Shapes, NEW h \in Hosts,
         \/ \E n \in Waits, kind \in {"respond", "abandon"} : LookUp(h, n, kind)
         \/ DirectClose(h) \/ Answered(h) \/ RespondEnds(h)
  PROVE  HostMove(h)
<1>1. EntryTypes /\ InterruptTypes /\ Driver \in Tasks /\ h \in Tasks /\ h # Driver
  BY TypeParts, ExchangeAssumption DEF Tasks
<1>2. \A g \in Hosts : g \in Tasks /\ g # Driver  BY ExchangeAssumption DEF Tasks
<1>3. ASSUME NEW n \in Waits, NEW kind \in {"respond", "abandon"}, LookUp(h, n, kind)
      PROVE  HostMove(h)
  <2>1. /\ UNCHANGED <<wait, lifecycle, live, todo, history>>
        /\ pc[h] = "idle" /\ live[n] # None
        /\ entry' = [entry EXCEPT ![h] = live[n]]
        /\ at' = [at EXCEPT ![h] = n]
        /\ call' = [call EXCEPT ![h] = kind]
        /\ pc' = [pc EXCEPT ![h] = IF kind = "respond" THEN "found" ELSE "lock"]
    BY <1>3 DEF LookUp, Goes, interruptVars, entryVars
  <2>2. \A u \in Tasks : /\ entry'[u] = IF u = h THEN live[n] ELSE entry[u]
                         /\ at'[u] = IF u = h THEN n ELSE at[u]
                         /\ call'[u] = IF u = h THEN kind ELSE call[u]
                         /\ u # h => pc'[u] = pc[u]
    BY <2>1 DEF EntryTypes, Shapes, TypeOK
  <2>3. pc'[h] = IF kind = "respond" THEN "found" ELSE "lock"  BY <1>1, <2>1 DEF Shapes
  <2> QED  BY <1>1, <1>2, <2>1, <2>2, <2>3 DEF HostMove
<1>4. CASE DirectClose(h)
  <2>1. /\ UNCHANGED <<wait, lifecycle, live, at, entry, todo, history>>
        /\ pc[h] = "idle"
        /\ call' = [call EXCEPT ![h] = "close"]
        /\ pc' = [pc EXCEPT ![h] = "lock"]
    BY <1>4 DEF DirectClose, Goes, interruptVars, entryVars
  <2>2. \A u \in Tasks : /\ call'[u] = IF u = h THEN "close" ELSE call[u]
                         /\ pc'[u] = IF u = h THEN "lock" ELSE pc[u]
    BY <2>1 DEF Shapes
  <2> QED  BY <1>1, <1>2, <2>1, <2>2 DEF HostMove
<1>5. CASE Answered(h)
  <2>1. /\ UNCHANGED <<wait, lifecycle, at, entry, call, todo, history>>
        /\ pc[h] = "answered"
        /\ \/ /\ entry[h].hooks /\ Pending # {} /\ Goes(h, "ending")
              /\ live' = [n \in Waits |-> IF n \in Pending THEN NewEntry(n, TRUE) ELSE live[n]]
           \/ entry[h].hooks /\ Pending = {} /\ Goes(h, "lock") /\ live' = live
           \/ ~entry[h].hooks /\ Goes(h, "ending") /\ live' = live
    BY <1>5, Zenon DEF Answered, RegisterNext, RegisterHooked, interruptVars
  <2>2. Responding(h) /\ at'[h] = at[h]  BY <2>1, SameCall
  <2>3. PICK s \in {"ending", "lock"} : \A u \in Tasks : pc'[u] = IF u = h THEN s ELSE pc[u]
    BY <2>1 DEF Goes, Shapes
  <2>4. CASE /\ entry[h].hooks /\ Pending # {}
             /\ live' = [n \in Waits |-> IF n \in Pending THEN NewEntry(n, TRUE) ELSE live[n]]
    <3>1. \A n \in Waits : IF n \in Pending THEN live'[n] # None /\ live'[n].hooks = TRUE
                                            ELSE live'[n] = live[n]
      BY <2>4, NewEntryTyped
    <3>2. Pending \subseteq Waits  BY DEF Pending
    <3> QED  BY <1>1, <1>2, <2>1, <2>2, <2>3, <2>4, <3>1, <3>2 DEF HostMove, AnswerSteps
  <2>5. CASE live' = live /\ (Pending = {} \/ ~entry[h].hooks)
    BY <1>1, <1>2, <2>1, <2>2, <2>3, <2>5 DEF HostMove, AnswerSteps
  <2> QED  BY <2>1, <2>4, <2>5
<1>6. CASE RespondEnds(h)
  <2>1. /\ UNCHANGED <<wait, lifecycle, at, call, todo, history>>
        /\ pc[h] = "ending"
        /\ live' = [live EXCEPT ![at[h]] = None]
        /\ entry' = [entry EXCEPT ![h] = None]
        /\ pc' = [pc EXCEPT ![h] = "idle"]
    BY <1>6 DEF RespondEnds, HostIdle, Goes, Unregistered, interruptVars
  <2>2. \A u \in Tasks : /\ u # h => entry'[u] = entry[u]
                         /\ pc'[u] = IF u = h THEN "idle" ELSE pc[u]
    BY <2>1 DEF Shapes, EntryTypes
  <2>3. \A n \in Waits : live'[n] = IF n = at[h] THEN None ELSE live[n]  BY <1>1, <2>1 DEF EntryTypes
  <2> QED  BY <1>1, <1>2, <2>1, <2>2, <2>3 DEF HostMove
<1> QED  BY <1>3, <1>4, <1>5, <1>6

\* What a host does to a run that has not paused, and to the waits it has opened.
LEMMA HostKeepsBegun ==
  ASSUME TypeOK, Shapes, Claimed, Begun, Keeps, NEW h \in Hosts, HostMove(h)
  PROVE  Begun'
<1>1. InterruptTypes  BY TypeParts
<1>2. pc'[Driver] = "start" => \A n \in Waits : wait'[n] = "absent"
  <2> SUFFICES ASSUME pc[Driver] = "start", NEW n \in Waits, wait'[n] # "absent"
               PROVE  FALSE
    BY DEF HostMove
  <2>1. \A k \in Waits : wait[k] = "absent"  BY DEF Begun
  <2>2. pc[h] = "running"  BY <2>1 DEF HostMove
  <2>3. at[h] \in Waits /\ wait[at[h]] = "resumed"
    BY <2>2 DEF Claimed, Shapes, AnswerSteps, Tasks
  <2> QED  BY <2>1, <2>3
<1>3. pc'[Driver] \in {"notifying", "hot", "pausing", "paused"} => wait'[at'[Driver]] # "absent"
  <2> SUFFICES ASSUME pc[Driver] \in {"notifying", "hot", "pausing", "paused"}
               PROVE  wait'[at[Driver]] # "absent"
    BY DEF HostMove
  <2>1. at[Driver] \in Waits  BY DEF Shapes, Tasks
  <2> QED  BY <2>1 DEF Begun, Keeps
<1>4. \A n \in Waits : live'[n] # None => wait'[n] # "absent"
  BY DEF HostMove, Begun, Keeps, Pending
<1>5. \A g \in Hosts : Responding(g)' => wait'[at'[g]] # "absent"
  <2> SUFFICES ASSUME NEW g \in Hosts, Responding(g)'
               PROVE  wait'[at'[g]] # "absent"
    OBVIOUS
  <2>1. CASE g # h \/ (Responding(h) /\ at'[h] = at[h])
    <3>1. Responding(g) /\ at'[g] = at[g]  BY <2>1 DEF HostMove, Responding
    <3>2. PICK k \in Waits : k = at[g]  BY <3>1 DEF Shapes, Responding
    <3> QED  BY <3>1, <3>2 DEF Begun, Keeps
  <2>2. CASE g = h /\ at'[h] \in Waits /\ live[at'[h]] # None /\ wait' = wait
    BY <2>2 DEF Begun
  <2> QED  BY <2>1, <2>2 DEF HostMove, Responding
<1>6. \A n \in todo' : wait'[n] # "absent"
  BY DEF HostMove, Begun, Keeps, Shapes
<1> QED  BY <1>2, <1>3, <1>4, <1>5, <1>6 DEF Begun

LEMMA HostBeforePause ==
  ASSUME TypeOK, Shapes, BeforePause, NEW h \in Hosts, HostMove(h), pc[Driver] # "paused"
  PROVE  BeforePause' /\ \A n \in Waits : live'[n] # None => live'[n] = live[n]
<1>1. pc[h] = "answered" => ~entry[h].hooks
  BY DEF BeforePause, Responding, Shapes
<1>2. \A n \in Waits : live'[n] # None => live'[n] = live[n]
  BY <1>1 DEF HostMove
<1>3. \A g \in Hosts : Responding(g)' => ~entry'[g].hooks
  BY DEF HostMove, BeforePause, Responding
<1> QED  BY <1>2, <1>3 DEF HostMove, BeforePause

LEMMA HostPausing ==
  ASSUME TypeOK, Shapes, BeforePause, Pausing, NEW h \in Hosts, HostMove(h)
  PROVE  Pausing'
<1> SUFFICES ASSUME pc'[Driver] = "pausing", history' = {}
             PROVE  Pending' \subseteq todo' /\ \A g \in Hosts : ~Responding(g)'
  BY DEF Pausing
<1>1. pc[Driver] = "pausing" /\ history = {} /\ todo' = todo
  BY DEF HostMove
<1>2. Pending \subseteq todo /\ \A g \in Hosts : ~Responding(g)
  BY <1>1 DEF Pausing
<1>3. \A n \in Waits : live[n] = None  BY <1>1 DEF BeforePause, AnswerSteps
<1>4. \A g \in Hosts : ~Responding(g)'
  BY <1>2, <1>3 DEF HostMove, Responding
<1>5. pc[h] \notin {"running", "publishing"}
  BY <1>2 DEF Shapes, Responding, AnswerSteps
<1>6. Pending' \subseteq Pending  BY <1>5 DEF HostMove, Pending
<1> QED  BY <1>1, <1>2, <1>4, <1>6

LEMMA HostAfterPause ==
  ASSUME TypeOK, Shapes, Claimed, Begun, AfterPause, Keeps, NEW h \in Hosts, HostMove(h),
         pc[Driver] = "paused"
  PROVE  AfterPause'
<1> SUFFICES ASSUME history' = {}, lifecycle' # "closed"
             PROVE  /\ \A n \in Waits : live'[n] # None => live'[n].hooks
                    /\ \A g \in Hosts : Responding(g)' =>
                          \/ Decided(at[g])'
                          \/ /\ pc'[g] \in AnswerSteps \cup {"found"} /\ entry'[g].hooks
                             /\ live'[at'[g]] # None
                    /\ Reachable'
  BY DEF AfterPause
<1>1. history = {} /\ lifecycle # "closed"  BY DEF HostMove
<1>2. /\ \A n \in Waits : live[n] # None => live[n].hooks
      /\ \A g \in Hosts : Responding(g) =>
            \/ Decided(at[g])
            \/ pc[g] \in AnswerSteps \cup {"found"} /\ entry[g].hooks /\ live[at[g]] # None
      /\ Reachable
  BY <1>1 DEF AfterPause
<1>3. \A n \in Waits : live'[n] # None => live'[n].hooks
  BY <1>2 DEF HostMove
<1>4. pc[h] = "ending" => Responding(h) /\ at[h] \in Waits /\ Decided(at[h])
  BY <1>2 DEF Shapes, Responding, AnswerSteps
<1>5. \A n \in Waits : live[n] # None => live'[n] # None \/ (pc[h] = "ending" /\ n = at[h])
  BY DEF HostMove
<1>6. ASSUME NEW g \in Hosts, Responding(g)'
      PROVE  \E n \in Waits : /\ n = at'[g]
                              /\ \/ Decided(n)'
                                 \/ /\ pc'[g] \in AnswerSteps \cup {"found"} /\ entry'[g].hooks
                                    /\ live'[n] # None
  <2>1. CASE g # h
    <3>1. /\ Responding(g) /\ at'[g] = at[g] /\ pc'[g] = pc[g] /\ entry'[g] = entry[g]
      BY <1>6, <2>1 DEF HostMove, Responding
    <3>2. PICK n \in Waits : n = at[g]  BY <3>1 DEF Shapes, Responding
    <3>3. Decided(n) \/ (pc[g] \in AnswerSteps \cup {"found"} /\ entry[g].hooks /\ live[n] # None)
      BY <1>2, <3>1, <3>2
    <3>4. live[n] # None => live'[n] # None \/ Decided(n)  BY <1>4, <1>5, <3>2
    <3> QED  BY <3>1, <3>2, <3>3, <3>4 DEF Keeps
  <2>2. CASE g = h
    <3>1. CASE /\ pc'[h] = "found" /\ live' = live /\ at'[h] \in Waits
               /\ live[at'[h]] # None /\ entry'[h] = live[at'[h]]
      BY <1>2, <2>2, <3>1
    <3>2. CASE /\ Responding(h) /\ at'[h] = at[h] /\ entry'[h] = entry[h]
               /\ \/ pc[h] \in AnswerSteps \cup {"found"} /\ pc'[h] \in AnswerSteps \cup {"found"}
                     /\ live' = live
                  \/ pc[h] \notin AnswerSteps \cup {"found"}
                  \/ \E n \in Waits : n = at[h] /\ Decided(n)'
      <4>1. PICK n \in Waits : n = at[h]  BY <3>2 DEF Shapes, Responding
      <4>2. Decided(n) \/ (pc[h] \in AnswerSteps \cup {"found"} /\ entry[h].hooks /\ live[n] # None)
        BY <1>2, <3>2, <4>1
      <4> QED  BY <2>2, <3>2, <4>1, <4>2 DEF Keeps
    <3> QED  BY <1>6, <2>2, <3>1, <3>2 DEF HostMove, Responding
  <2> QED  BY <2>1, <2>2
<1>7. \* An answer that nobody has decided was given to a live wait, with its hooks.
      ASSUME NEW g \in Hosts, pc[g] \in AnswerSteps, ~Decided(at[g])
      PROVE  at[g] \in Waits /\ entry[g].hooks /\ live[at[g]] # None
  BY <1>2, <1>7 DEF Shapes, Responding, AnswerSteps, Tasks
<1>8. ASSUME \E n \in Waits : wait'[n] = "waiting" /\ wait[n] # "waiting"
      PROVE  Reachable'
  <2>1. PICK n \in Waits : wait'[n] = "waiting" /\ wait[n] # "waiting"  BY <1>8
  <2>2. /\ pc[h] \in {"running", "publishing"} /\ live' = live
        /\ n = at[h] \/ (pc'[h] = "publishing" /\ entry'[h] = entry[h])
    BY <2>1 DEF HostMove
  <2>3. ~Decided(at[h])  BY <2>2 DEF Decided, Tasks
  <2>4. entry[h].hooks /\ live[at[h]] # None  BY <1>7, <2>2, <2>3 DEF AnswerSteps
  <2> QED  BY <2>1, <2>2, <2>4 DEF Reachable, Registering, Pending
<1>9. ASSUME Pending' \subseteq Pending, \E n \in Pending : live[n] # None
      PROVE  Reachable'
  <2>1. PICK n \in Pending : live[n] # None  BY <1>9
  <2>2. n \in Waits /\ wait[n] = "waiting"  BY <2>1 DEF Pending
  <2>3. CASE wait'[n] = "waiting"
    <3>1. pc[h] = "ending" => n # at[h]  BY <1>4, <2>2 DEF Decided
    <3> QED  BY <1>5, <2>1, <2>2, <2>3, <3>1 DEF Reachable, Pending
  <2>4. CASE /\ wait'[n] # "waiting" /\ n = at[h]
             /\ pc[h] = "claimed" /\ pc'[h] = "resumed" /\ entry'[h] = entry[h]
    <3>1. ~Decided(at[h])  BY <2>2, <2>4 DEF Decided
    <3> QED  BY <1>7, <2>4, <3>1 DEF Reachable, Registering, AnswerSteps
  <2>5. CASE wait' = Cancelled /\ live' = live
    <3> SUFFICES ASSUME NEW k \in Waits, wait'[k] = "waiting"
                 PROVE  \E m \in Pending' : live'[m] # None
      BY DEF Reachable, Pending
    <3>1. wait[k] = "waiting" /\ claim[k] # None  BY <2>5 DEF Cancelled
    <3>2. PICK t \in Tasks : pc[t] = "claimed" /\ at[t] = k  BY <3>1 DEF Claimed
    <3>3. t \in Hosts /\ ~Decided(at[t])  BY <3>1, <3>2 DEF Tasks, Decided
    <3> QED  BY <1>7, <2>5, <3>2, <3>3 DEF Reachable, Pending, AnswerSteps
  <2> QED  BY <2>2, <2>3, <2>4, <2>5 DEF HostMove
<1>10. ASSUME Pending' \subseteq Pending, \E g \in Hosts : Registering(g)
       PROVE  Reachable'
  <2>1. PICK g \in Hosts : Registering(g)  BY <1>10
  <2>2. CASE g # h  BY <2>1, <2>2 DEF Reachable, HostMove, Registering
  <2>3. CASE g = h
    <3>1. CASE /\ pc'[h] \in {"resumed", "running", "publishing", "answered"}
               /\ entry'[h] = entry[h]
      BY <2>1, <2>3, <3>1 DEF Reachable, Registering
    <3>2. CASE pc[h] \in {"running", "publishing"} /\ live' = live /\ wait'[at[h]] = "waiting"
      <4>1. ~Decided(at[h])  BY <3>2 DEF Decided, Tasks
      <4> QED  BY <1>7, <3>2, <4>1 DEF Reachable, Pending, AnswerSteps
    <3>3. CASE pc[h] = "answered" /\ wait' = wait
      BY <2>1, <2>3, <3>3 DEF Reachable, HostMove, Registering, Pending
    <3> QED  BY <2>1, <2>3, <3>1, <3>2, <3>3 DEF Reachable, HostMove, Registering
  <2> QED  BY <2>2, <2>3
<1>11. Pending' \subseteq Pending \/ \E n \in Waits : wait'[n] = "waiting" /\ wait[n] # "waiting"
  BY DEF Pending
<1>12. Reachable'
  <2>1. CASE Pending' \subseteq Pending
    <3>1. Pending = {} => Reachable'  BY <2>1 DEF Reachable
    <3> QED  BY <1>2, <1>9, <1>10, <2>1, <3>1 DEF Reachable
  <2> QED  BY <1>8, <1>11, <2>1
<1> QED  BY <1>3, <1>6, <1>12


\* A step of the run of the action loop.
DriverMove ==
    /\ \A h \in Hosts :
          pc'[h] = pc[h] /\ at'[h] = at[h] /\ call'[h] = call[h] /\ entry'[h] = entry[h]
    /\ history \subseteq history'
    /\ lifecycle = "closed" => lifecycle' = "closed"
    /\ pc[Driver] # "paused" /\ pc'[Driver] # "start"
    /\ pc'[Driver] \in {"notifying", "hot", "pausing", "paused"} =>
          /\ wait' = wait
          /\ \/ at'[Driver] = at[Driver] /\ pc[Driver] \in {"notifying", "hot", "pausing"}
             \/ at'[Driver] \in Pending
    /\ todo' = todo \/ (todo' = Pending /\ wait' = wait)
    /\ \A n \in Waits : live'[n] # None =>
          \/ /\ live'[n] = live[n] /\ pc'[Driver] \in AnswerSteps
             /\ at'[Driver] = at[Driver] /\ entry'[Driver] = entry[Driver]
          \/ /\ pc'[Driver] = "hot" /\ n = at'[Driver]
             /\ entry'[Driver] # None /\ live'[n].hooks = FALSE
          \/ pc'[Driver] = "paused" /\ n \in todo /\ live'[n].hooks = TRUE
    /\ pc'[Driver] = "pausing" =>
          /\ at'[Driver] = at[Driver] /\ todo' = Pending
          /\ pc[Driver] \in {"notifying", "hot"}
          /\ history' = {} => Overtaken(at[Driver]) = {}
    /\ pc'[Driver] = "paused" =>
          /\ pc[Driver] = "pausing" /\ at'[Driver] = at[Driver]
          /\ \A n \in todo : live'[n] # None

\* Outside its hot wait and its answer, the run has nothing registered.
LEMMA NothingLive ==
  ASSUME BeforePause, pc[Driver] \notin AnswerSteps \cup {"hot", "paused"}
  PROVE  \A n \in Waits : live[n] = None
BY DEF BeforePause

LEMMA DriverAnswerMoves ==
  ASSUME TypeOK, Shapes, BeforePause, NEW leaving \in BOOLEAN, NEW noted,
         pc[Driver] \in {"notifying", "hot"},
         Continue(Driver, at[Driver], Driver, leaving, noted),
         UNCHANGED <<lifecycle, at, call, todo>>
  PROVE  DriverMove
<1>1. EntryTypes /\ InterruptTypes /\ Driver \in Tasks  BY TypeParts DEF Tasks
<1>2. \A h \in Hosts : h \in Tasks /\ h # Driver  BY ExchangeAssumption DEF Tasks
<1>3. \A s : Goes(Driver, s) => \A u \in Tasks : pc'[u] = IF u = Driver THEN s ELSE pc[u]
  BY DEF Goes, Shapes
<1>4. \A n \in Waits : live[n] # None => n = at[Driver] /\ entry[Driver] # None
  BY DEF BeforePause
<1>5. history \subseteq history'  BY DEF Continue
<1>6. CASE ContinueReturns(Driver)
  <2>1. /\ Goes(Driver, "resolving") /\ \A h \in Hosts : entry'[h] = entry[h]
        /\ \A n \in Waits : live'[n] = None
    BY <1>1, <1>4, <1>6, ReturnEffect
  <2>2. \A u \in Tasks : pc'[u] = IF u = Driver THEN "resolving" ELSE pc[u]  BY <1>3, <2>1
  <2> QED  BY <1>1, <1>2, <1>5, <2>1, <2>2 DEF DriverMove
<1>7. CASE ContinueRaises(Driver)
  <2>1. /\ Goes(Driver, "failed") /\ \A h \in Hosts : entry'[h] = entry[h]
        /\ \A n \in Waits : live'[n] = None
    BY <1>1, <1>2, <1>4, <1>7, RaiseEffect
  <2>2. \A u \in Tasks : pc'[u] = IF u = Driver THEN "failed" ELSE pc[u]  BY <1>3, <2>1
  <2> QED  BY <1>1, <1>2, <1>5, <2>1, <2>2 DEF DriverMove
<1>8. CASE /\ Goes(Driver, "claimed")
           /\ IF leaving THEN LeaveHot ELSE UNCHANGED <<entryVars, entry>>
  <2>1. \A u \in Tasks : pc'[u] = IF u = Driver THEN "claimed" ELSE pc[u]  BY <1>3, <1>8
  <2>2. /\ \A h \in Hosts : entry'[h] = entry[h]
        /\ \A n \in Waits : live'[n] = None \/ (live'[n] = live[n] /\ entry'[Driver] = entry[Driver])
    <3>1. CASE leaving  BY <1>1, <1>2, <1>8, <3>1, LeaveHotTyped, <1>4
    <3>2. CASE ~leaving  BY <1>8, <3>2 DEF entryVars
    <3> QED  BY <3>1, <3>2
  <2> QED  BY <1>1, <1>2, <1>5, <2>1, <2>2 DEF DriverMove, AnswerSteps
<1> QED  BY <1>6, <1>7, <1>8, Zenon DEF Continue

LEMMA DriverTaskMoves ==
  ASSUME TypeOK, Shapes, Locked, BeforePause, TaskStep(Driver)
  PROVE  DriverMove
<1>1. EntryTypes /\ InterruptTypes /\ Driver \in Tasks  BY TypeParts DEF Tasks
<1>2. \A h \in Hosts : h \in Tasks /\ h # Driver  BY ExchangeAssumption DEF Tasks
<1>3. \A s : Goes(Driver, s) => \A u \in Tasks : pc'[u] = IF u = Driver THEN s ELSE pc[u]
  BY DEF Goes, Shapes
<1>4. pc[Driver] # "paused" => \A n \in Waits : live[n] # None => n = at[Driver] /\ entry[Driver] # None
  BY DEF BeforePause
<1>5. CASE \/ Resume(Driver) \/ RunOpens(Driver)
           \/ Dispatch(Driver) /\ Goes(Driver, "running") /\ UNCHANGED <<live, entry>>
  <2>1. /\ pc[Driver] \in AnswerSteps
        /\ UNCHANGED <<lifecycle, live, at, entry, call, todo, history>>
        /\ \E s \in {"resumed", "running", "publishing"} : Goes(Driver, s)
    BY <1>5, Zenon DEF Resume, RunOpens, Dispatch, entryVars, AnswerSteps
  <2>2. PICK s \in {"resumed", "running", "publishing"} :
           \A u \in Tasks : pc'[u] = IF u = Driver THEN s ELSE pc[u]  BY <1>3, <2>1
  <2> QED  BY <1>1, <1>2, <2>1, <2>2 DEF DriverMove, AnswerSteps
<1>6. CASE /\ pc[Driver] \in {"resumed", "running", "publishing"}
           /\ ContinueReturns(Driver) /\ UNCHANGED <<lifecycle, at, call, todo, history>>
  <2>1. /\ Goes(Driver, "resolving") /\ \A h \in Hosts : entry'[h] = entry[h]
        /\ \A n \in Waits : live'[n] = None
    BY <1>1, <1>4, <1>6, ReturnEffect
  <2>2. \A u \in Tasks : pc'[u] = IF u = Driver THEN "resolving" ELSE pc[u]  BY <1>3, <2>1
  <2> QED  BY <1>1, <1>2, <1>6, <2>1, <2>2 DEF DriverMove
<1>7. CASE RunFails(Driver)
  <2>1. /\ pc[Driver] \in {"running", "publishing"} /\ UNCHANGED <<lifecycle, at, call, todo, history>>
        /\ ContinueRaises(Driver)
    BY <1>7 DEF RunFails
  <2>2. /\ Goes(Driver, "failed") /\ \A h \in Hosts : entry'[h] = entry[h]
        /\ \A n \in Waits : live'[n] = None
    BY <1>1, <1>2, <1>4, <2>1, RaiseEffect
  <2>3. \A u \in Tasks : pc'[u] = IF u = Driver THEN "failed" ELSE pc[u]  BY <1>3, <2>2
  <2> QED  BY <1>1, <1>2, <2>1, <2>2, <2>3 DEF DriverMove
<1>8. CASE CloseBegins(Driver) \/ DrainEnds(Driver) \/ CloseLooks(Driver) \/ CloseEnds(Driver)
  <2>1. /\ pc[Driver] \in CloseSteps
        /\ UNCHANGED <<at, call, todo, history>>
    BY <1>8, Zenon DEF CloseBegins, DrainEnds, CloseLooks, CloseEnds, CloseSteps
  <2>2. \/ CloseReturns(Driver) /\ lifecycle' = "closed"
        \/ CloseRaises(Driver) /\ (pc[Driver] = "drained" \/ lifecycle # "closed")
        \/ /\ \E s \in {"draining", "drained", "settled"} : Goes(Driver, s)
           /\ UNCHANGED <<live, entry>> /\ (lifecycle' = lifecycle \/ lifecycle # "closed")
    BY <1>8, Zenon DEF CloseBegins, DrainEnds, CloseLooks, CloseEnds, entryVars, interruptVars
  <2>3. lifecycle = "closed" => lifecycle' = "closed"  BY <1>1, <2>2 DEF Locked, Closing
  <2>4. \A n \in Waits : live[n] = None
    BY <2>1, NothingLive DEF CloseSteps, AnswerSteps
  <2>5. /\ \A h \in Hosts : entry'[h] = entry[h]
        /\ \A n \in Waits : live'[n] = None
        /\ \E s \in {"finished", "failed", "draining", "drained", "settled"} : Goes(Driver, s)
    <3>1. CASE CloseReturns(Driver)  BY <1>1, <1>2, <2>1, <2>4, <3>1, CloseReturnEffect
    <3>2. CASE CloseRaises(Driver)  BY <1>1, <1>2, <2>4, <3>2, CloseRaiseEffect
    <3>3. CASE /\ \E s \in {"draining", "drained", "settled"} : Goes(Driver, s)
               /\ UNCHANGED <<live, entry>>
      BY <2>4, <3>3
    <3> QED  BY <2>2, <3>1, <3>2, <3>3
  <2>6. PICK s \in {"finished", "failed", "draining", "drained", "settled"} :
           \A u \in Tasks : pc'[u] = IF u = Driver THEN s ELSE pc[u]  BY <1>3, <2>5
  <2> QED  BY <1>1, <1>2, <2>1, <2>3, <2>5, <2>6 DEF DriverMove, CloseSteps
<1>9. Dispatch(Driver) => \/ Goes(Driver, "running") /\ UNCHANGED <<live, entry>>
                          \/ /\ pc[Driver] \in {"resumed", "running", "publishing"}
                             /\ ContinueReturns(Driver) /\ UNCHANGED <<lifecycle, at, call, todo, history>>
  BY Zenon DEF Dispatch, entryVars
<1>10. RunReturns(Driver) =>
          /\ pc[Driver] \in {"resumed", "running", "publishing"}
          /\ ContinueReturns(Driver) /\ UNCHANGED <<lifecycle, at, call, todo, history>>
  BY Zenon DEF RunReturns
<1> QED  BY <1>5, <1>6, <1>7, <1>8, <1>9, <1>10, Zenon DEF TaskStep, RunSteps

LEMMA DriverStepMoves ==
  ASSUME TypeOK, Shapes, BeforePause,
         Start \/ Resolve \/ HotWait \/ HotResolved \/ Pause \/ Paused
           \/ (HotOver /\ mode = "handover")
  PROVE  DriverMove
<1>1. EntryTypes /\ InterruptTypes /\ Driver \in Tasks  BY TypeParts DEF Tasks
<1>2. \A h \in Hosts : h \in Tasks /\ h # Driver  BY ExchangeAssumption DEF Tasks
<1>3. \A s : Goes(Driver, s) => \A u \in Tasks : pc'[u] = IF u = Driver THEN s ELSE pc[u]
  BY DEF Goes, Shapes
<1>4. CASE Start
  <2>1. /\ pc[Driver] = "start" /\ UNCHANGED <<lifecycle, live, at, entry, todo, call, history>>
        /\ \E s \in {"resolving", "failed"} : Goes(Driver, s)
    BY <1>4, Zenon DEF Start, DriverOnly, DriverEnds
  <2>2. PICK s \in {"resolving", "failed"} :
           \A u \in Tasks : pc'[u] = IF u = Driver THEN s ELSE pc[u]  BY <1>3, <2>1
  <2>3. \A n \in Waits : live[n] = None  BY <2>1, NothingLive DEF AnswerSteps
  <2> QED  BY <1>1, <1>2, <2>1, <2>2, <2>3 DEF DriverMove
<1>5. CASE Resolve
  <2>1. /\ pc[Driver] = "resolving"
        /\ UNCHANGED <<wait, lifecycle, live, entry, todo, call, history>>
        /\ \/ Goes(Driver, "lock") /\ UNCHANGED at
           \/ Pending # {} /\ Goes(Driver, "notifying") /\ at' = [at EXCEPT ![Driver] = Min(Pending)]
    BY <1>5, Zenon DEF Resolve, DriverOnly, interruptVars, entryVars
  <2>2. \A n \in Waits : live[n] = None  BY <2>1, NothingLive DEF AnswerSteps
  <2>3. CASE Goes(Driver, "lock") /\ UNCHANGED at
    <3>1. \A u \in Tasks : pc'[u] = IF u = Driver THEN "lock" ELSE pc[u]  BY <1>3, <2>3
    <3> QED  BY <1>1, <1>2, <2>1, <2>2, <2>3, <3>1 DEF DriverMove
  <2>4. CASE Pending # {} /\ Goes(Driver, "notifying") /\ at' = [at EXCEPT ![Driver] = Min(Pending)]
    <3>1. \A u \in Tasks : pc'[u] = IF u = Driver THEN "notifying" ELSE pc[u]  BY <1>3, <2>4
    <3>2. Pending \in SUBSET Nat  BY ExchangeAssumption DEF Pending, Waits
    <3>3. PICK n \in Pending : n = Min(Pending)  BY <2>4, <3>2, MinIn
    <3>4. \A u \in Tasks : at'[u] = IF u = Driver THEN n ELSE at[u]  BY <2>4, <3>3 DEF Shapes
    <3> QED  BY <1>1, <1>2, <2>1, <2>2, <3>1, <3>4 DEF DriverMove
  <2> QED  BY <2>1, <2>3, <2>4
<1>6. CASE HotWait
  <2>1. /\ pc[Driver] = "notifying" /\ Goes(Driver, "hot")
        /\ UNCHANGED <<wait, lifecycle, at, todo, call, history>>
        /\ live' = [live EXCEPT ![at[Driver]] = NewEntry(at[Driver], FALSE)]
        /\ entry' = [entry EXCEPT ![Driver] = NewEntry(at[Driver], FALSE)]
    BY <1>6, Zenon DEF HotWait, DriverOnly, interruptVars
  <2>2. \A n \in Waits : live[n] = None  BY <2>1, NothingLive DEF AnswerSteps
  <2>3. at[Driver] \in Waits  BY <1>1, <2>1 DEF Shapes
  <2>4. PICK e \in Entries : e = NewEntry(at[Driver], FALSE) /\ e # None /\ e.hooks = FALSE
    BY <2>3, NewEntryTyped
  <2>5. /\ live' = [live EXCEPT ![at[Driver]] = e]
        /\ entry' = [entry EXCEPT ![Driver] = e]
    BY <2>1, <2>4, Zenon
  <2>6. /\ \A n \in Waits : live'[n] = IF n = at[Driver] THEN e ELSE live[n]
        /\ \A u \in Tasks : entry'[u] = IF u = Driver THEN e ELSE entry[u]
    BY <1>1, <2>5 DEF EntryTypes
  <2>7. \A u \in Tasks : pc'[u] = IF u = Driver THEN "hot" ELSE pc[u]  BY <1>3, <2>1
  <2> QED  BY <1>1, <1>2, <2>1, <2>2, <2>4, <2>6, <2>7 DEF DriverMove
<1>7. CASE HotResolved
  <2>1. /\ pc[Driver] = "hot" /\ Goes(Driver, "resolving") /\ LeaveHot
        /\ UNCHANGED <<wait, lifecycle, at, todo, call, history>>
    BY <1>7, Zenon DEF HotResolved, DriverOnly, interruptVars
  <2>2. \A n \in Waits : live[n] # None => n = at[Driver]  BY <2>1 DEF BeforePause
  <2>3. /\ \A n \in Waits : live'[n] = None
        /\ \A u \in Tasks : entry'[u] = IF u = Driver THEN None ELSE entry[u]
    BY <1>1, <2>1, <2>2, LeaveHotTyped
  <2>4. \A u \in Tasks : pc'[u] = IF u = Driver THEN "resolving" ELSE pc[u]  BY <1>3, <2>1
  <2> QED  BY <1>1, <1>2, <2>1, <2>3, <2>4 DEF DriverMove
<1>8. CASE Pause \/ (HotOver /\ mode = "handover")
  <2>1. /\ Goes(Driver, "pausing") /\ todo' = Pending
        /\ UNCHANGED <<wait, lifecycle, at, call>>
        /\ history' = history \cup Overtaken(at[Driver])
        /\ \/ pc[Driver] = "hot" /\ LeaveHot
           \/ pc[Driver] = "notifying" /\ UNCHANGED <<live, entry>>
    BY <1>8, Zenon DEF Pause, HotOver, DriverOnly, interruptVars, entryVars
  <2>2. /\ \A n \in Waits : live'[n] = None
        /\ \A h \in Hosts : entry'[h] = entry[h]
    <3>1. CASE pc[Driver] = "hot" /\ LeaveHot
      <4>1. \A n \in Waits : live[n] # None => n = at[Driver]  BY <3>1 DEF BeforePause
      <4> QED  BY <1>1, <1>2, <3>1, <4>1, LeaveHotTyped
    <3>2. CASE pc[Driver] = "notifying" /\ UNCHANGED <<live, entry>>
      BY <3>2, NothingLive DEF AnswerSteps
    <3> QED  BY <2>1, <3>1, <3>2
  <2>3. \A u \in Tasks : pc'[u] = IF u = Driver THEN "pausing" ELSE pc[u]  BY <1>3, <2>1
  <2> QED  BY <1>1, <1>2, <2>1, <2>2, <2>3 DEF DriverMove
<1>9. CASE Paused
  <2>1. /\ pc[Driver] = "pausing" /\ Goes(Driver, "paused")
        /\ live' = [n \in Waits |-> IF n \in todo THEN NewEntry(n, TRUE) ELSE live[n]]
        /\ UNCHANGED <<wait, lifecycle, at, entry, todo, call, history>>
    BY <1>9, Zenon DEF Paused, RegisterHooked, DriverOnly, interruptVars
  <2>2. \A n \in Waits : live[n] = None  BY <2>1, NothingLive DEF AnswerSteps
  <2>3. \A n \in Waits : IF n \in todo THEN live'[n] # None /\ live'[n].hooks = TRUE ELSE live'[n] = None
    BY <2>1, <2>2, NewEntryTyped
  <2>4. todo \subseteq Waits  BY DEF Shapes
  <2>5. \A u \in Tasks : pc'[u] = IF u = Driver THEN "paused" ELSE pc[u]  BY <1>3, <2>1
  <2> QED  BY <1>1, <1>2, <2>1, <2>3, <2>4, <2>5 DEF DriverMove
<1> QED  BY <1>4, <1>5, <1>6, <1>7, <1>8, <1>9


LEMMA DriverKeepsBegun ==
  ASSUME TypeOK, Shapes, Begun, Keeps, DriverMove
  PROVE  Begun'
<1>1. pc'[Driver] \in {"notifying", "hot", "pausing", "paused"} => wait'[at'[Driver]] # "absent"
  BY DEF DriverMove, Begun, Pending
<1>2. \A n \in Waits : live'[n] # None => wait'[n] # "absent"
  BY <1>1 DEF DriverMove, Begun, Keeps
<1>3. \A h \in Hosts : Responding(h)' => wait'[at'[h]] # "absent"
  <2> SUFFICES ASSUME NEW h \in Hosts, Responding(h)'
               PROVE  wait'[at'[h]] # "absent"
    OBVIOUS
  <2>1. Responding(h) /\ at'[h] = at[h]  BY DEF DriverMove, Responding
  <2>2. PICK k \in Waits : k = at[h]  BY <2>1 DEF Shapes, Responding
  <2> QED  BY <2>1, <2>2 DEF Begun, Keeps
<1>4. \A n \in todo' : wait'[n] # "absent"
  BY DEF DriverMove, Begun, Keeps, Shapes, Pending
<1> QED  BY <1>1, <1>2, <1>3, <1>4 DEF DriverMove, Begun

LEMMA DriverBeforePause ==
  ASSUME TypeOK, Shapes, BeforePause, DriverMove
  PROVE  BeforePause'
<1> SUFFICES ASSUME pc'[Driver] # "paused"
             PROVE  /\ \A n \in Waits : live'[n] # None =>
                          /\ pc'[Driver] \in AnswerSteps \cup {"hot"}
                          /\ n = at'[Driver] /\ entry'[Driver] # None /\ ~live'[n].hooks
                    /\ \A h \in Hosts : Responding(h)' => ~entry'[h].hooks
  BY DEF BeforePause
<1>1. pc[Driver] # "paused"  BY DEF DriverMove
<1>2. /\ \A n \in Waits : live[n] # None =>
            n = at[Driver] /\ entry[Driver] # None /\ ~live[n].hooks
      /\ \A h \in Hosts : Responding(h) => ~entry[h].hooks
  BY <1>1 DEF BeforePause
<1>3. \A n \in Waits : live'[n] # None =>
          /\ pc'[Driver] \in AnswerSteps \cup {"hot"}
          /\ n = at'[Driver] /\ entry'[Driver] # None /\ ~live'[n].hooks
  BY <1>2 DEF DriverMove
<1>4. \A h \in Hosts : Responding(h)' => ~entry'[h].hooks
  BY <1>2 DEF DriverMove, Responding
<1> QED  BY <1>3, <1>4

\* The run pauses while nobody is answering a wait.
LEMMA DriverPausing ==
  ASSUME DriverMove
  PROVE  Pausing'
<1> SUFFICES ASSUME pc'[Driver] = "pausing", history' = {}
             PROVE  Pending' \subseteq todo' /\ \A h \in Hosts : ~Responding(h)'
  BY DEF Pausing
<1>1. wait' = wait /\ todo' = Pending /\ Overtaken(at[Driver]) = {}
  BY DEF DriverMove
<1>2. \A h \in Hosts : ~Responding(h)  BY <1>1 DEF Overtaken
<1>3. \A h \in Hosts : ~Responding(h)'  BY <1>2 DEF DriverMove, Responding
<1> QED  BY <1>1, <1>3 DEF Pending

LEMMA DriverAfterPause ==
  ASSUME TypeOK, Shapes, Pausing, DriverMove
  PROVE  AfterPause'
<1> SUFFICES ASSUME pc'[Driver] = "paused", history' = {}
             PROVE  /\ \A n \in Waits : live'[n] # None => live'[n].hooks
                    /\ \A h \in Hosts : ~Responding(h)'
                    /\ \A n \in Pending' : live'[n] # None
  BY DEF AfterPause, Reachable
<1>1. /\ wait' = wait /\ pc[Driver] = "pausing" /\ history = {}
      /\ \A n \in todo : live'[n] # None
  BY DEF DriverMove
<1>2. Pending \subseteq todo /\ \A h \in Hosts : ~Responding(h)
  BY <1>1 DEF Pausing
<1>3. \A n \in Waits : live'[n] # None => live'[n].hooks
  BY <1>1 DEF DriverMove, AnswerSteps
<1>4. \A h \in Hosts : ~Responding(h)'  BY <1>2 DEF DriverMove, Responding
<1>5. \A n \in Pending' : live'[n] # None  BY <1>1, <1>2 DEF Pending
<1> QED  BY <1>3, <1>4, <1>5

LEMMA HostAct ==
  ASSUME TypeOK, Shapes, Claimed, Locked, Begun, NEW h \in Hosts,
         \/ TaskStep(h) \/ HostStep(h) \/ DirectClose(h)
         \/ \E n \in Waits, kind \in {"respond", "abandon"} : LookUp(h, n, kind)
  PROVE  HostMove(h)
BY TaskStepMoves, RespondMoves, CallMoves, Zenon DEF HostStep

LEMMA DriverAct ==
  ASSUME TypeOK, Shapes, Locked, BeforePause,
         TaskStep(Driver) \/ DriverStep \/ HotOver \/ ProviderAnswers
  PROVE  DriverMove
<1>1. CASE TaskStep(Driver)
  BY <1>1, DriverTaskMoves
<1>2. CASE Deny \/ ProviderAnswers \/ (HotOver /\ mode = "connected")
  <2>1. pc[Driver] \in {"notifying", "hot"} /\ UNCHANGED <<lifecycle, at, call, todo>>
    BY <1>2, Zenon DEF Deny, ProviderAnswers, HotOver
  <2>2. \E leaving \in BOOLEAN, noted \in {{}, Overtaken(at[Driver])} :
            Continue(Driver, at[Driver], Driver, leaving, noted)
    BY <1>2, Zenon DEF Deny, ProviderAnswers, HotOver
  <2> QED  BY <2>1, <2>2, DriverAnswerMoves
<1>3. CASE Start \/ Resolve \/ HotWait \/ HotResolved \/ Pause \/ Paused \/ (HotOver /\ mode = "handover")
  BY <1>3, DriverStepMoves
<1>4. HotOver => mode = "handover" \/ mode = "connected"  BY Zenon DEF HotOver
<1> QED  BY <1>1, <1>2, <1>3, <1>4, Zenon DEF DriverStep

-----------------------------------------------------------------------------
(* The theorem *)

IInv == TypeOK /\ Shapes /\ Claimed /\ Locked /\ Registry

LEMMA InitIInv == Init => IInv
<1> SUFFICES ASSUME Init PROVE Claimed /\ Locked /\ Registry
  BY InitTyped DEF IInv
<1>1. /\ \A h \in Hosts : pc[h] = "idle"
      /\ pc[Driver] = "start"
      /\ \A t \in Tasks : pc[t] \in {"start", "idle"}
  BY ExchangeAssumption DEF Init, Tasks
<1>2. \A n \in Waits : wait[n] = "absent" /\ claim[n] = None /\ live[n] = None  BY DEF Init
<1>3. Claimed  BY <1>1, <1>2 DEF Claimed, AnswerSteps
<1>4. Locked  BY <1>1 DEF Locked, Closing
<1>5. Registry
  BY <1>1, <1>2 DEF Init, Registry, Begun, BeforePause, Pausing, AfterPause, Responding
<1> QED  BY <1>3, <1>4, <1>5

LEMMA NextIInv == IInv /\ [Next]_vars => IInv'
<1> SUFFICES ASSUME IInv, [Next]_vars PROVE IInv'  OBVIOUS
<1>1. /\ TypeOK /\ Shapes /\ Claimed /\ Locked
      /\ Begun /\ BeforePause /\ Pausing /\ AfterPause
  BY DEF IInv, Registry
<1>2. TypeOK' /\ Shapes' /\ Claimed' /\ Keeps /\ Locked'
  BY <1>1, NextTyped, NextAnswers, NextLocked
<1>3. CASE UNCHANGED vars
  BY <1>1, <1>2, <1>3 DEF vars, interruptVars, entryVars, IInv, Registry, Begun, BeforePause, Pausing,
                          AfterPause, Responding, Registering, Reachable, Pending, Decided
<1>4. ASSUME NEW h \in Hosts, HostMove(h)
      PROVE  IInv'
  <2>1. Begun'  BY <1>1, <1>2, <1>4, HostKeepsBegun
  <2>2. Pausing'  BY <1>1, <1>4, HostPausing
  <2>3. BeforePause' /\ AfterPause'
    <3>1. CASE pc[Driver] = "paused"
      <4>1. pc'[Driver] = "paused"  BY <1>4, <3>1 DEF HostMove
      <4>2. BeforePause'  BY <4>1 DEF BeforePause
      <4> QED  BY <1>1, <1>2, <1>4, <3>1, <4>2, HostAfterPause
    <3>2. CASE pc[Driver] # "paused"
      <4>1. pc'[Driver] # "paused"  BY <1>4, <3>2 DEF HostMove
      <4>2. AfterPause'  BY <4>1 DEF AfterPause
      <4> QED  BY <1>1, <1>4, <3>2, <4>2, HostBeforePause
    <3> QED  BY <3>1, <3>2
  <2> QED  BY <1>2, <2>1, <2>2, <2>3 DEF IInv, Registry
<1>5. ASSUME DriverMove
      PROVE  IInv'
  BY <1>1, <1>2, <1>5, DriverKeepsBegun, DriverBeforePause, DriverPausing, DriverAfterPause
     DEF IInv, Registry
<1>6. CASE Watch
  <2>1. /\ lifecycle = "closed" /\ live' = [n \in Waits |-> None]
        /\ UNCHANGED <<wait, lifecycle, pc, at, entry, call, todo, history>>
    BY <1>6 DEF Watch, interruptVars
  <2>2. Begun'  BY <1>1, <2>1 DEF Begun, Responding
  <2>3. BeforePause'  BY <1>1, <2>1 DEF BeforePause, Responding
  <2>4. Pausing'  BY <1>1, <2>1 DEF Pausing, Pending, Responding
  <2>5. AfterPause'  BY <2>1 DEF AfterPause
  <2> QED  BY <1>2, <2>2, <2>3, <2>4, <2>5 DEF IInv, Registry
<1>7. Next => \/ \E h \in Hosts : \/ TaskStep(h) \/ HostStep(h) \/ DirectClose(h)
                                  \/ \E n \in Waits, kind \in {"respond", "abandon"} : LookUp(h, n, kind)
              \/ TaskStep(Driver) \/ DriverStep \/ HotOver \/ ProviderAnswers
              \/ Watch
  <2>1. \A t \in Tasks : t \in Hosts \/ t = Driver  BY DEF Tasks
  <2> QED  BY <2>1, Zenon DEF Next
<1> QED  BY <1>1, <1>3, <1>4, <1>5, <1>6, <1>7, HostAct, DriverAct

LEMMA InvariantAnswerable ==
  ASSUME IInv
  PROVE  Answerable
<1> SUFFICES ASSUME pc[Driver] = "paused", lifecycle = "open", history = {},
                    \A h \in Hosts : pc[h] = "idle"
             PROVE  /\ \A n \in Pending : claim[n] = None
                    /\ Pending # {} => \E n \in Pending : live[n] # None
  BY DEF Answerable
<1>1. Claimed /\ AfterPause /\ Pending \subseteq Waits  BY DEF IInv, Registry, Pending
<1>2. \A n \in Pending : claim[n] = None
  <2>1. \A t \in Tasks : pc[t] # "claimed"  BY DEF Tasks
  <2> QED  BY <1>1, <2>1 DEF Claimed
<1>3. \A h \in Hosts : ~Registering(h)  BY DEF Registering
<1>4. Pending # {} => \E n \in Pending : live[n] # None  BY <1>1, <1>3 DEF AfterPause, Reachable
<1> QED  BY <1>2, <1>4

\* build_exchange_paused_records, finalize_live_exchange_execution, async_respond: as
\* long as a run that ended paused has pending waits, a host can find one of them when the
\* hosts' calls have ended, however many answers failed and however many publications of
\* the waits that they opened.
THEOREM PausedRunsAnswerable == Spec => []Answerable
<1>1. Spec => []IInv
  BY InitIInv, NextIInv, PTL DEF Spec
<1> QED  BY <1>1, InvariantAnswerable, PTL

\* _close_lock: at most one close of the execution is past the lock, and while it drains
\* and freezes the execution stays sealed, whichever task began it.
THEOREM OneCloseAtATime == Spec => []Locked
<1>1. Spec => []IInv
  BY InitIInv, NextIInv, PTL DEF Spec
<1>2. IInv => Locked  BY DEF IInv
<1> QED  BY <1>1, <1>2, PTL

\* async_continue_with: a wait that is claimed is claimed for one task that is about to
\* answer it; while that task resumes it, dispatches it and runs the rest of the loop, no
\* other task answers it, and the wait stays resumed, whatever else the run opens.
THEOREM OneAnswerAtATime == Spec => []Claimed
<1>1. Spec => []IInv
  BY InitIInv, NextIInv, PTL DEF Spec
<1>2. IInv => Claimed  BY DEF IInv
<1> QED  BY <1>1, <1>2, PTL
=============================================================================
