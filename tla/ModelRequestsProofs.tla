------------------------ MODULE ModelRequestsProofs ------------------------
(***************************************************************************)
(* Proofs about model requests, for any numbers of streams, readers,       *)
(* waiters, limits and reconfigurations.                                   *)
(*                                                                         *)
(* First the scheduler, as the streams of ModelRequests drive it: its      *)
(* permits, its limit and its tokens.  Then the shared response streams:   *)
(* whenever a reader subscribes and whoever closes, is cancelled or fails  *)
(* meanwhile, it is replayed the same messages, and what ends without an   *)
(* error is whole or was closed.                                           *)
(***************************************************************************)
EXTENDS ModelRequests, FiniteSetTheorems, SequenceTheorems, TLAPS

\* Who holds a permit of semaphore s.
Holders(s) == {r \in InFlight : mySemaphore[r] = s}

\* A semaphore is named after a request that waits for it, holds it or has held it.
Owned ==
    /\ \A r \in Requests : mySemaphore[r] # Nothing => mySemaphore[mySemaphore[r]] = mySemaphore[r]
    /\ semaphore # Nothing => mySemaphore[semaphore] = semaphore

Places ==
    \A r \in Requests :
        /\ slot[r] \in {"idle", "bucket", "sleeping"} => mySemaphore[r] = Nothing
        /\ slot[r] \in {"bucket", "sleeping"} => myBucket[r] \in Requests
        /\ slot[r] = "semaphore" => mySemaphore[r] \in Requests

SlotInv == SchedulerTypeOK /\ Owned /\ Places /\ PermitsAddUp

-----------------------------------------------------------------------------
(* Every step of the streams is a step of the scheduler, or none of it *)

LEMMA ComposedStep ==
  ASSUME [Next]_vars
  PROVE  [SchedulerNext]_schedulerVars
<1>1. CASE UNCHANGED vars  BY <1>1 DEF vars
<1>2. ASSUME NEW s \in Streams, StreamStep(s) \/ Answer(s)
      PROVE  [SchedulerNext]_schedulerVars
  BY <1>2, OneSlotPerStream
  DEF StreamStep, Begin, AskSlot, AdvanceSlot, UnwindSlot, Finish, SlotGivenBack, Answer,
      SchedulerNext
<1>3. ASSUME NEW x \in Readers, ReaderStep(x) \/ ReaderChooses(x)
      PROVE  [SchedulerNext]_schedulerVars
  BY <1>3 DEF ReaderStep, ReaderChooses
<1>4. ASSUME NEW w \in Waiters, WaiterStep(w) \/ WaiterChooses(w)
      PROVE  [SchedulerNext]_schedulerVars
  BY <1>4 DEF WaiterStep, WaiterChooses
<1>5. ASSUME Reconfigure \/ Time  PROVE [SchedulerNext]_schedulerVars
  BY <1>5 DEF Reconfigure, Time, SchedulerNext
<1> QED  BY <1>1, <1>2, <1>3, <1>4, <1>5 DEF Next

-----------------------------------------------------------------------------
(* Permits *)

LEMMA HoldersFinite ==
  ASSUME NEW s
  PROVE  IsFiniteSet(Holders(s)) /\ Cardinality(Holders(s)) \in Nat
<1>1. IsFiniteSet(Holders(s))
  BY SchedulerAssumption, FS_Subset DEF Holders, InFlight
<1> QED  BY <1>1, FS_CardinalityType

LEMMA SlotInit ==
  ASSUME SchedulerInit
  PROVE  SlotInv
<1> USE SchedulerAssumption DEF SchedulerInit
<1>1. SchedulerTypeOK
  <2>0. MaxConfigures \in Nat  BY SMT
  <2>1. limit \in Limits /\ configures \in 0 .. MaxConfigures /\ now \in Nat  BY <2>0
  <2>4. {semaphore, bucket} \subseteq Requests \cup {Nothing}  OBVIOUS
  <2>5. overtaken \in BOOLEAN  OBVIOUS
  <2>2. /\ permits \in [Requests -> Nat] /\ nextAllowed \in [Requests -> Nat]
        /\ seen \in [Requests -> Nat] /\ wakeAt \in [Requests -> Nat]
        /\ tokenAt \in [Requests -> Nat \cup {-1}]
    OBVIOUS
  <2>3. /\ bucketLock \in [Requests -> Requests \cup {Nothing}]
        /\ mySemaphore \in [Requests -> Requests \cup {Nothing}]
        /\ myBucket \in [Requests -> Requests \cup {Nothing}]
        /\ slot \in [Requests -> Slots]
    BY DEF Slots
  <2> QED  BY <2>1, <2>2, <2>3, <2>4, <2>5 DEF SchedulerTypeOK
<1>2. \A r \in Requests : mySemaphore[r] = Nothing /\ r # Nothing /\ slot[r] = "idle"
  OBVIOUS
<1>3. Owned /\ Places /\ PermitsAddUp
  BY <1>2 DEF Owned, Places, PermitsAddUp
<1> QED  BY <1>1, <1>3 DEF SlotInv

\* What is the same before and after keeps the sums.
LEMMA SameHolders ==
  ASSUME SlotInv, permits' = permits, seen' = seen, mySemaphore' = mySemaphore,
         InFlight' = InFlight
  PROVE  PermitsAddUp'
BY DEF SlotInv, PermitsAddUp

\* Asking for the semaphore takes no permit: whoever makes it is its first user.
LEMMA ToSemaphoreKeeps ==
  ASSUME SlotInv,
         NEW r \in Requests, slot[r] \in {"idle", "sleeping"},
         NEW found \in {Nothing, semaphore},
         NEW max \in Nat,
         seen' = [seen EXCEPT ![r] = max],
         ToSemaphore(r, found, max)
  PROVE  /\ permits' \in [Requests -> Nat]
         /\ slot' \in [Requests -> Slots]
         /\ seen' \in [Requests -> Nat]
         /\ semaphore' \in Requests \cup {Nothing}
         /\ mySemaphore' \in [Requests -> Requests \cup {Nothing}]
         /\ Owned'
         /\ PermitsAddUp'
         /\ slot'[r] \in {"semaphore", "inFlight"}
         /\ slot'[r] = "semaphore" => mySemaphore'[r] \in Requests
         /\ \A q \in Requests \ {r} : slot'[q] = slot[q] /\ mySemaphore'[q] = mySemaphore[q]
<1> USE DEF SlotInv, SchedulerTypeOK, ToSemaphore, Moves, Slots
<1>0. mySemaphore[r] = Nothing  BY DEF Places
<1>1. CASE max = 0
  <2>1. /\ permits' = permits /\ mySemaphore' = mySemaphore /\ semaphore' = found
        /\ slot' = [slot EXCEPT ![r] = "inFlight"]
    BY <1>1
  <2>2. \A s \in Requests : Holders(s)' = Holders(s)
    BY <1>0, <2>1, SchedulerAssumption DEF Holders, InFlight
  <2>3. PermitsAddUp'
    BY <1>0, <2>1, <2>2, SchedulerAssumption DEF PermitsAddUp, Holders
  <2>4. Owned'  BY <2>1 DEF Owned
  <2> QED  BY <2>1, <2>3, <2>4
<1>2. CASE max # 0 /\ found # Nothing
  <2>1. /\ permits' = permits /\ mySemaphore' = [mySemaphore EXCEPT ![r] = semaphore]
        /\ semaphore' = semaphore /\ semaphore \in Requests
        /\ slot' = [slot EXCEPT ![r] = "semaphore"]
    BY <1>2
  <2>0. mySemaphore[semaphore] = semaphore /\ semaphore # r
    BY <1>0, <1>2, <2>1, SchedulerAssumption DEF Owned
  <2>2. \A s \in Requests : Holders(s)' = Holders(s)
    BY <2>1 DEF Holders, InFlight
  <2>3. PermitsAddUp'
    BY <2>0, <2>1, <2>2 DEF PermitsAddUp, Holders
  <2>4. Owned'  BY <1>0, <2>0, <2>1, SchedulerAssumption DEF Owned
  <2> QED  BY <2>1, <2>3, <2>4
<1>3. CASE max # 0 /\ found = Nothing
  <2>1. /\ permits' = [permits EXCEPT ![r] = max]
        /\ mySemaphore' = [mySemaphore EXCEPT ![r] = r]
        /\ semaphore' = r
        /\ slot' = [slot EXCEPT ![r] = "semaphore"]
    BY <1>3
  <2>0. \A q \in Requests : mySemaphore[q] # r
    BY <1>0, SchedulerAssumption DEF Owned
  <2>2. \A s \in Requests : Holders(s)' = Holders(s)
    BY <2>1 DEF Holders, InFlight
  <2>5. Holders(r) = {}  BY <2>0 DEF Holders, InFlight
  <2>6. Cardinality(Holders(r)) = 0  BY <2>5, FS_EmptySet
  <2>3. ASSUME NEW s \in Requests, mySemaphore'[s] = s
        PROVE  permits'[s] + Cardinality(Holders(s)') = seen'[s]
    <3>1. CASE s = r  BY <2>1, <2>2, <2>6, <3>1
    <3>2. CASE s # r
      <4>1. permits[s] + Cardinality(Holders(s)) = seen[s]
        BY <2>1, <2>3, <3>2 DEF PermitsAddUp, Holders
      <4> QED  BY <2>1, <2>2, <3>2, <4>1
    <3> QED  BY <3>1, <3>2
  <2>7. PermitsAddUp'  BY <2>3 DEF PermitsAddUp, Holders
  <2>4. Owned'  BY <2>0, <2>1, SchedulerAssumption DEF Owned
  <2> QED  BY <2>1, <2>4, <2>7
<1> QED  BY <1>1, <1>2, <1>3

LEMMA IssueKeeps ==
  ASSUME SlotInv, NEW r \in Requests, Issue(r)
  PROVE  SlotInv'
<1> USE DEF Issue, Cached
<1>0. limit \in Nat  BY SchedulerAssumption DEF SlotInv, SchedulerTypeOK
<1>1. CASE Interval = 0
  <2>1. ToSemaphore(r, Cached(semaphore), limit) /\ Cached(semaphore) \in {Nothing, semaphore}
    BY <1>1
  <2>2. /\ permits' \in [Requests -> Nat]
        /\ slot' \in [Requests -> Slots]
        /\ seen' \in [Requests -> Nat]
        /\ semaphore' \in Requests \cup {Nothing}
        /\ mySemaphore' \in [Requests -> Requests \cup {Nothing}]
        /\ Owned'
        /\ PermitsAddUp'
        /\ slot'[r] \in {"semaphore", "inFlight"}
        /\ slot'[r] = "semaphore" => mySemaphore'[r] \in Requests
        /\ \A q \in Requests \ {r} : slot'[q] = slot[q] /\ mySemaphore'[q] = mySemaphore[q]
    BY <1>0, <2>1, ToSemaphoreKeeps
  <2>3. SchedulerTypeOK'
    BY <1>1, <2>2 DEF SlotInv, SchedulerTypeOK
  <2>4. Places'
    BY <1>1, <2>2 DEF SlotInv, Places
  <2> QED  BY <2>2, <2>3, <2>4 DEF SlotInv
<1>2. CASE Interval # 0
  <2> USE DEF SlotInv, SchedulerTypeOK, Moves, Slots
  <2>1. SchedulerTypeOK'  BY <1>0, <1>2
  <2>2. Owned'  BY <1>2 DEF Owned
  <2>3. Places'  BY <1>2 DEF Places
  <2>4. \A s \in Requests : Holders(s)' = Holders(s)
    BY <1>2 DEF Holders, InFlight
  <2>5. mySemaphore[r] = Nothing  BY DEF Places
  <2>6. PermitsAddUp'
    BY <1>2, <2>4, <2>5, SchedulerAssumption DEF PermitsAddUp, Holders
  <2> QED  BY <2>1, <2>2, <2>3, <2>6
<1> QED  BY <1>1, <1>2

LEMMA TakeBucketKeeps ==
  ASSUME SlotInv, NEW r \in Requests, TakeBucket(r)
  PROVE  SlotInv'
<1> USE DEF SlotInv, SchedulerTypeOK, TakeBucket, Moves, Slots
<1>1. SchedulerTypeOK'  BY DEF Places
<1>2. Owned'  BY DEF Owned
<1>3. Places'  BY DEF Places
<1>4. PermitsAddUp'  BY SameHolders DEF InFlight
<1> QED  BY <1>1, <1>2, <1>3, <1>4

LEMMA PassBucketKeeps ==
  ASSUME SlotInv, NEW r \in Requests, PassBucket(r)
  PROVE  SlotInv'
<1> USE DEF PassBucket
<1>1. seen[r] \in Nat /\ seen' = [seen EXCEPT ![r] = seen[r]] /\ myBucket[r] \in Requests
  BY DEF SlotInv, SchedulerTypeOK, Places
<1>2. /\ permits' \in [Requests -> Nat]
      /\ slot' \in [Requests -> Slots]
      /\ seen' \in [Requests -> Nat]
      /\ semaphore' \in Requests \cup {Nothing}
      /\ mySemaphore' \in [Requests -> Requests \cup {Nothing}]
      /\ Owned'
      /\ PermitsAddUp'
      /\ slot'[r] \in {"semaphore", "inFlight"}
      /\ slot'[r] = "semaphore" => mySemaphore'[r] \in Requests
      /\ \A q \in Requests \ {r} : slot'[q] = slot[q] /\ mySemaphore'[q] = mySemaphore[q]
  BY <1>1, ToSemaphoreKeeps
<1>3. SchedulerTypeOK'
  BY <1>1, <1>2, SchedulerAssumption DEF SlotInv, SchedulerTypeOK, Later
<1>4. Places'
  BY <1>2 DEF SlotInv, Places
<1> QED  BY <1>2, <1>3, <1>4 DEF SlotInv

LEMMA EnterKeeps ==
  ASSUME SlotInv, NEW r \in Requests, Enter(r)
  PROVE  SlotInv'
<1> USE DEF SlotInv, SchedulerTypeOK, Enter, Moves, Slots
<1> DEFINE s == mySemaphore[r]
<1>0. s \in Requests  BY DEF Places
<1>1. SchedulerTypeOK'  BY <1>0
<1>2. Owned'  BY DEF Owned
<1>3. Places'  BY DEF Places
<1>4. r \notin Holders(s) /\ Holders(s)' = Holders(s) \cup {r}
  BY DEF Holders, InFlight
<1>5. Cardinality(Holders(s)') = Cardinality(Holders(s)) + 1
  BY <1>4, HoldersFinite, FS_AddElement
<1>6. \A t \in Requests \ {s} : Holders(t)' = Holders(t)
  BY DEF Holders, InFlight
<1>7. ASSUME NEW t \in Requests, mySemaphore'[t] = t
      PROVE  permits'[t] + Cardinality(Holders(t)') = seen'[t]
  <2>1. permits[t] + Cardinality(Holders(t)) = seen[t]
    BY <1>7 DEF PermitsAddUp, Holders
  <2>2. Cardinality(Holders(t)) \in Nat  BY HoldersFinite
  <2>3. CASE t = s
    <3>1. permits'[t] = permits[t] - 1  BY <1>0, <2>3
    <3>2. Cardinality(Holders(t)') = Cardinality(Holders(t)) + 1  BY <1>5, <2>3
    <3> QED  BY <2>1, <2>2, <3>1, <3>2
  <2>4. CASE t # s
    BY <1>6, <2>1, <2>4
  <2> QED  BY <2>3, <2>4
<1>8. PermitsAddUp'  BY <1>7 DEF PermitsAddUp, Holders
<1> QED  BY <1>1, <1>2, <1>3, <1>8

LEMMA LeaveKeeps ==
  ASSUME SlotInv, NEW r \in Requests, Leave(r)
  PROVE  SlotInv'
<1> USE DEF SlotInv, SchedulerTypeOK, Leave, GivesBackPermit, Moves, Slots
<1> DEFINE s == mySemaphore[r]
<1>1. SchedulerTypeOK'
  <2>1. permits' \in [Requests -> Nat]  OBVIOUS
  <2>2. bucketLock' \in [Requests -> Requests \cup {Nothing}]  BY DEF Places
  <2> QED  BY <2>1, <2>2
<1>2. Owned'  BY DEF Owned
<1>3. Places'  BY DEF Places
<1>4. CASE slot[r] = "inFlight" /\ s # Nothing
  <2>1. r \in Holders(s) /\ Holders(s)' = Holders(s) \ {r} /\ s \in Requests
    BY <1>4 DEF Holders, InFlight
  <2>2. Cardinality(Holders(s)') = Cardinality(Holders(s)) - 1
    <3>1. IsFiniteSet(Holders(s))  BY HoldersFinite
    <3>2. Cardinality(Holders(s) \ {r}) = Cardinality(Holders(s)) - 1
      BY ONLY <2>1, <3>1, FS_RemoveElement
    <3> QED  BY ONLY <2>1, <3>2
  <2>3. \A t \in Requests \ {s} : Holders(t)' = Holders(t)
    BY DEF Holders, InFlight
  <2>4. ASSUME NEW t \in Requests, mySemaphore'[t] = t
        PROVE  permits'[t] + Cardinality(Holders(t)') = seen'[t]
    <3>1. permits[t] + Cardinality(Holders(t)) = seen[t]
      BY <2>4 DEF PermitsAddUp, Holders
    <3>2. Cardinality(Holders(t)) \in Nat  BY HoldersFinite
    <3>3. CASE t = s
      <4>1. permits'[t] = permits[t] + 1  BY <1>4, <2>1, <3>3
      <4>2. Cardinality(Holders(t)') = Cardinality(Holders(t)) - 1  BY <2>2, <3>3
      <4> QED  BY <3>1, <3>2, <4>1, <4>2
    <3>4. CASE t # s
      BY <1>4, <2>3, <3>1, <3>4
    <3> QED  BY <3>3, <3>4
  <2> QED  BY <1>1, <1>2, <1>3, <2>4 DEF PermitsAddUp, Holders
<1>5. CASE ~(slot[r] = "inFlight" /\ s # Nothing)
  <2>1. permits' = permits  BY <1>5
  <2>2. \A t \in Requests : Holders(t)' = Holders(t)
    BY <1>5, SchedulerAssumption DEF Holders, InFlight
  <2>3. PermitsAddUp'  BY <2>1, <2>2 DEF PermitsAddUp, Holders
  <2> QED  BY <1>1, <1>2, <1>3, <2>3
<1> QED  BY <1>4, <1>5

LEMMA SlotNext ==
  ASSUME SlotInv, [SchedulerNext]_schedulerVars
  PROVE  SlotInv'
<1>1. CASE UNCHANGED schedulerVars
  <2> USE <1>1 DEF schedulerVars, SlotInv
  <2>1. SchedulerTypeOK'  BY DEF SchedulerTypeOK
  <2>2. Owned' /\ Places'  BY DEF Owned, Places
  <2>3. PermitsAddUp'  BY SameHolders DEF InFlight
  <2> QED  BY <2>1, <2>2, <2>3
<1>2. ASSUME NEW r \in Requests, Issue(r) \/ SchedulerStep(r) \/ Leave(r)
      PROVE  SlotInv'
  BY <1>2, IssueKeeps, TakeBucketKeeps, PassBucketKeeps, EnterKeeps, LeaveKeeps
  DEF SchedulerStep
<1>3. ASSUME NEW n \in Limits, Configure(n)
      PROVE  SlotInv'
  <2> USE <1>3 DEF Configure, ClearCachedPrimitives, SlotInv
  <2>1. SchedulerTypeOK'  BY SchedulerAssumption DEF SchedulerTypeOK
  <2>2. Owned' /\ Places'  BY DEF Owned, Places
  <2>3. PermitsAddUp'  BY SameHolders DEF InFlight
  <2> QED  BY <2>1, <2>2, <2>3
<1>4. CASE Tick
  <2> USE <1>4 DEF Tick, SlotInv
  <2>1. SchedulerTypeOK'  BY DEF SchedulerTypeOK
  <2>2. Owned' /\ Places'  BY DEF Owned, Places
  <2>3. PermitsAddUp'  BY SameHolders DEF InFlight
  <2> QED  BY <2>1, <2>2, <2>3
<1> QED  BY <1>1, <1>2, <1>3, <1>4 DEF SchedulerNext

LEMMA SlotAlways == Spec => []SlotInv
<1>1. Init => SlotInv  BY SlotInit DEF Init
<1>2. SlotInv /\ [Next]_vars => SlotInv'  BY ComposedStep, SlotNext
<1> QED  BY <1>1, <1>2, PTL DEF Spec

\* The permits of a semaphore and the requests in flight that hold one add up to its limit,
\* through cancellations at any await of slot() and through configure().
THEOREM PermitsBalance == Spec => []PermitsAddUp
<1>1. SlotInv => PermitsAddUp  BY DEF SlotInv
<1> QED  BY <1>1, SlotAlways, PTL
-----------------------------------------------------------------------------
(* The limit *)

\* As long as the limit is the one the program began with, every request has read it and
\* they all share one semaphore.
OneLimit ==
    configures = 0 =>
        /\ \A r \in Requests : slot[r] # "idle" => seen[r] = limit
        /\ limit > 0 =>
              \A r \in Requests : slot[r] \in {"semaphore", "inFlight"} =>
                  semaphore # Nothing /\ mySemaphore[r] = semaphore

LEMMA OneLimitNext ==
  ASSUME ~PerRequest, SlotInv, OneLimit, [SchedulerNext]_schedulerVars
  PROVE  OneLimit'
<1> USE DEF OneLimit
<1>t. /\ slot \in [Requests -> Slots] /\ seen \in [Requests -> Nat]
      /\ mySemaphore \in [Requests -> Requests \cup {Nothing}]
      /\ limit \in Nat /\ configures \in Nat
  BY SchedulerAssumption DEF SlotInv, SchedulerTypeOK
<1>1. CASE UNCHANGED schedulerVars  BY <1>1 DEF schedulerVars
<1>2. ASSUME NEW r \in Requests, Issue(r)  PROVE OneLimit'
  <2>1. Cached(semaphore) = semaphore  BY DEF Cached, Reconfigures
  <2>2. CASE Interval = 0
    BY <1>t, <1>2, <2>1, <2>2, SchedulerAssumption DEF Issue, ToSemaphore, Moves
  <2>3. CASE Interval # 0
    BY <1>t, <1>2, <2>1, <2>3 DEF Issue, Moves
  <2> QED  BY <2>2, <2>3
<1>3. ASSUME NEW r \in Requests, PassBucket(r)  PROVE OneLimit'
  BY <1>t, <1>3, SchedulerAssumption DEF PassBucket, ToSemaphore, Moves
<1>4. ASSUME NEW r \in Requests, TakeBucket(r) \/ Enter(r) \/ Leave(r)  PROVE OneLimit'
  BY <1>t, <1>4 DEF TakeBucket, Enter, Leave, Moves
<1>5. ASSUME NEW n \in Limits, Configure(n)  PROVE OneLimit'
  BY <1>t, <1>5 DEF Configure
<1>6. CASE Tick  BY <1>6 DEF Tick
<1> QED  BY <1>1, <1>2, <1>3, <1>4, <1>5, <1>6 DEF SchedulerNext, SchedulerStep

LEMMA OneLimitSuffices ==
  ASSUME SlotInv, OneLimit
  PROVE  LimitKept
<1>1. SUFFICES ASSUME configures = 0, limit > 0
               PROVE  Cardinality(InFlight) <= limit
  BY DEF LimitKept
<1>2. limit \in Nat  BY SchedulerAssumption DEF SlotInv, SchedulerTypeOK
<1>3. CASE InFlight = {}  BY <1>2, <1>3, FS_EmptySet
<1>4. CASE InFlight # {}
  <2>1. /\ semaphore \in Requests /\ mySemaphore[semaphore] = semaphore
        /\ InFlight = Holders(semaphore)
    BY <1>1, <1>4 DEF OneLimit, SlotInv, SchedulerTypeOK, Owned, InFlight, Holders
  <2>2. slot[semaphore] # "idle"
    BY <2>1, SchedulerAssumption DEF SlotInv, Places
  <2>3. permits[semaphore] + Cardinality(Holders(semaphore)) = limit
    BY <1>1, <2>1, <2>2 DEF OneLimit, SlotInv, PermitsAddUp, Holders
  <2>4. permits[semaphore] \in Nat  BY <2>1 DEF SlotInv, SchedulerTypeOK
  <2>5. Cardinality(Holders(semaphore)) \in Nat  BY HoldersFinite
  <2> QED  BY <1>2, <2>1, <2>3, <2>4, <2>5
<1> QED  BY <1>3, <1>4

\* A provider whose limit the program sets once, before its requests, never has more
\* requests in flight than max_concurrency.
THEOREM LimitHolds ==
  ASSUME ~PerRequest
  PROVE  Spec => []LimitKept
<1>1. Init => OneLimit  BY DEF Init, SchedulerInit, OneLimit
<1>2. SlotInv /\ OneLimit /\ [Next]_vars => OneLimit'
  BY ComposedStep, OneLimitNext
<1>3. SlotInv /\ OneLimit => LimitKept  BY OneLimitSuffices
<1> QED  BY <1>1, <1>2, <1>3, SlotAlways, PTL DEF Spec

-----------------------------------------------------------------------------
(* The token bucket *)

\* Who sleeps has the lock of its bucket and sleeps until the bucket's next token, which is
\* an interval after every token given.
TokenInv ==
    \A r \in Requests :
        /\ slot[r] \in {"idle", "bucket", "sleeping"} => tokenAt[r] = -1
        /\ slot[r] = "sleeping" =>
              bucketLock[myBucket[r]] = r /\ wakeAt[r] = nextAllowed[myBucket[r]]
        /\ tokenAt[r] >= 0 =>
              myBucket[r] \in Requests /\ nextAllowed[myBucket[r]] >= tokenAt[r] + Interval

LEMMA TokenNext ==
  ASSUME SlotInv, TokenInv, TokensSpaced, [SchedulerNext]_schedulerVars
  PROVE  TokenInv' /\ TokensSpaced'
<1>t. /\ slot \in [Requests -> Slots] /\ tokenAt \in [Requests -> Nat \cup {-1}]
      /\ bucketLock \in [Requests -> Requests \cup {Nothing}]
      /\ myBucket \in [Requests -> Requests \cup {Nothing}]
      /\ wakeAt \in [Requests -> Nat] /\ nextAllowed \in [Requests -> Nat]
      /\ now \in Nat /\ Interval \in Nat
      /\ \A r \in Requests : slot[r] \in {"bucket", "sleeping"} => myBucket[r] \in Requests
      /\ Nothing \notin Requests
  BY SchedulerAssumption DEF SlotInv, SchedulerTypeOK, Places
<1>1. CASE UNCHANGED schedulerVars
  BY <1>1 DEF schedulerVars, TokenInv, TokensSpaced
<1>2. ASSUME NEW r \in Requests, Issue(r)  PROVE TokenInv' /\ TokensSpaced'
  <2>1. /\ \A q \in Requests \ {r} : slot'[q] = slot[q] /\ myBucket'[q] = myBucket[q]
        /\ slot'[r] # "sleeping" /\ tokenAt[r] = -1
        /\ UNCHANGED <<tokenAt, bucketLock, wakeAt, nextAllowed>>
    BY <1>t, <1>2 DEF Issue, ToSemaphore, Moves, TokenInv
  <2>2. TokenInv'  BY <1>t, <2>1 DEF TokenInv
  <2>3. TokensSpaced'  BY <1>t, <2>1 DEF TokensSpaced
  <2> QED  BY <2>2, <2>3
<1>3. ASSUME NEW r \in Requests, TakeBucket(r)  PROVE TokenInv' /\ TokensSpaced'
  BY <1>t, <1>3 DEF TakeBucket, Moves, TokenInv, TokensSpaced
<1>4. ASSUME NEW r \in Requests, PassBucket(r)  PROVE TokenInv' /\ TokensSpaced'
  <2> DEFINE b == myBucket[r]
  <2>0. /\ b \in Requests /\ bucketLock[b] = r /\ now >= nextAllowed[b] /\ nextAllowed[b] \in Nat
    BY <1>t, <1>4 DEF PassBucket, TokenInv
  <2>6. slot' = [slot EXCEPT ![r] = "semaphore"] \/ slot' = [slot EXCEPT ![r] = "inFlight"]
    BY <1>4 DEF PassBucket, ToSemaphore, Moves
  <2>7. nextAllowed' = [nextAllowed EXCEPT ![b] = now + Interval]
    <3>1. Later(now, nextAllowed[b]) = now  BY <1>t, <2>0 DEF Later
    <3> QED  BY <1>t, <1>4, <2>0, <3>1 DEF PassBucket
  <2>1. /\ b \in Requests /\ bucketLock[b] = r /\ now >= nextAllowed[b]
        /\ slot' \in [Requests -> Slots] /\ slot'[r] \in {"semaphore", "inFlight"}
        /\ \A q \in Requests \ {r} : slot'[q] = slot[q]
        /\ nextAllowed' = [nextAllowed EXCEPT ![b] = now + Interval]
        /\ bucketLock' = [bucketLock EXCEPT ![b] = Nothing]
        /\ tokenAt' = [tokenAt EXCEPT ![r] = now]
        /\ UNCHANGED <<myBucket, wakeAt>>
    BY <1>t, <1>4, <2>0, <2>6, <2>7 DEF PassBucket, Slots
  <2>2. \A q \in Requests \ {r} : slot[q] = "sleeping" => myBucket[q] # b
    BY <2>1 DEF TokenInv
  <2>3. \A q \in Requests \ {r} :
            tokenAt[q] >= 0 /\ myBucket[q] = b => now >= tokenAt[q] + Interval
    BY <1>t, <2>1 DEF TokenInv
  <2>4. TokenInv'  BY <1>t, <2>1, <2>2, <2>3 DEF TokenInv
  <2>5. TokensSpaced'  BY <1>t, <2>1, <2>3 DEF TokensSpaced
  <2> QED  BY <2>4, <2>5
<1>5. ASSUME NEW r \in Requests, Enter(r)  PROVE TokenInv' /\ TokensSpaced'
  BY <1>t, <1>5 DEF Enter, Moves, TokenInv, TokensSpaced
<1>6. ASSUME NEW r \in Requests, Leave(r)  PROVE TokenInv' /\ TokensSpaced'
  BY <1>t, <1>6 DEF Leave, Moves, TokenInv, TokensSpaced
<1>7. ASSUME NEW n \in Limits, Configure(n)  PROVE TokenInv' /\ TokensSpaced'
  BY <1>7 DEF Configure, TokenInv, TokensSpaced
<1>8. CASE Tick  BY <1>8 DEF Tick, TokenInv, TokensSpaced
<1> QED
  BY <1>1, <1>2, <1>3, <1>4, <1>5, <1>6, <1>7, <1>8 DEF SchedulerNext, SchedulerStep

\* A bucket gives no two tokens within an interval, whoever is cancelled while it sleeps
\* with the lock and however often the provider is configured.
THEOREM TokensApart == Spec => []TokensSpaced
<1>1. Init => TokenInv /\ TokensSpaced
  BY DEF Init, SchedulerInit, TokenInv, TokensSpaced
<1>2. SlotInv /\ (TokenInv /\ TokensSpaced) /\ [Next]_vars => (TokenInv /\ TokensSpaced)'
  BY ComposedStep, TokenNext
<1> QED  BY <1>1, <1>2, SlotAlways, PTL DEF Spec
-----------------------------------------------------------------------------
(* The rebuilt semaphore *)

\* Unless a configure() overtook it, a request on its way to its semaphore has read the
\* configured limit, and so had whoever made the semaphore in use.
FreshLimit ==
    ~overtaken =>
        /\ \A r \in Requests : slot[r] \in {"bucket", "sleeping"} => seen[r] = limit
        /\ semaphore # Nothing => seen[semaphore] = limit

LEMMA FreshLimitNext ==
  ASSUME SlotInv, FreshLimit, [SchedulerNext]_schedulerVars
  PROVE  FreshLimit'
<1> USE DEF FreshLimit
<1>t. /\ slot \in [Requests -> Slots] /\ seen \in [Requests -> Nat]
      /\ semaphore \in Requests \cup {Nothing} /\ Nothing \notin Requests
      /\ semaphore # Nothing => slot[semaphore] \notin {"idle", "bucket", "sleeping"}
      /\ overtaken \in BOOLEAN
  BY SchedulerAssumption DEF SlotInv, SchedulerTypeOK, Owned, Places
<1>1. CASE UNCHANGED schedulerVars  BY <1>1 DEF schedulerVars
<1>2. ASSUME NEW r \in Requests, Issue(r)  PROVE FreshLimit'
  <2>1. Cached(semaphore) \in {Nothing, semaphore}  BY DEF Cached
  <2>2. semaphore' \in {Nothing, semaphore, r} /\ semaphore # r
    BY <1>t, <1>2, <2>1 DEF Issue, ToSemaphore
  <2>3. \A q \in Requests \ {r} : slot'[q] = slot[q]
    BY <1>t, <1>2 DEF Issue, ToSemaphore, Moves
  <2> QED  BY <1>t, <1>2, <2>2, <2>3 DEF Issue
<1>3. ASSUME NEW r \in Requests, PassBucket(r)  PROVE FreshLimit'
  <2>1. semaphore' = semaphore \/ semaphore' = r
    BY <1>3 DEF PassBucket, ToSemaphore
  <2>2. slot'[r] \notin {"bucket", "sleeping"}
    BY <1>t, <1>3 DEF PassBucket, ToSemaphore, Moves
  <2>3. \A q \in Requests \ {r} : slot'[q] = slot[q]
    BY <1>t, <1>3 DEF PassBucket, ToSemaphore, Moves
  <2>4. overtaken' = overtaken /\ seen' = seen /\ limit' = limit /\ slot[r] = "sleeping"
    BY <1>3 DEF PassBucket
  <2> QED  BY <1>t, <2>1, <2>2, <2>3, <2>4
<1>4. ASSUME NEW r \in Requests, TakeBucket(r) \/ Enter(r) \/ Leave(r)  PROVE FreshLimit'
  BY <1>t, <1>4 DEF TakeBucket, Enter, Leave, Moves
<1>5. ASSUME NEW n \in Limits, Configure(n)  PROVE FreshLimit'
  BY <1>t, <1>5 DEF Configure, ClearCachedPrimitives
<1>6. CASE Tick  BY <1>6 DEF Tick
<1> QED  BY <1>1, <1>2, <1>3, <1>4, <1>5, <1>6 DEF SchedulerNext, SchedulerStep

\* The semaphore new requests find was made with the configured limit, unless a configure()
\* overtook a request that had read the old one.
THEOREM LimitIsRebuilt == Spec => []RebuiltLimit
<1>1. Init => FreshLimit  BY DEF Init, SchedulerInit, FreshLimit
<1>2. SlotInv /\ FreshLimit /\ [Next]_vars => FreshLimit'
  BY ComposedStep, FreshLimitNext
<1>3. FreshLimit => RebuiltLimit  BY DEF FreshLimit, RebuiltLimit
<1> QED  BY <1>1, <1>2, <1>3, SlotAlways, PTL DEF Spec

-----------------------------------------------------------------------------
(* The response streams *)

\* What the state of a stream says about its task.
StreamInv ==
    \A s \in Streams :
        /\ task[s] \in {"running", "cancelling"} => source[s] = "live" /\ ~done[s]
        /\ task[s] \in {"none", "created"} => source[s] \in {"live", "closed"}
        /\ done[s] <=> source[s] # "live"
        /\ task[s] = "cancelling" \/ source[s] = "closed" => closed[s]

\* Readers and waiters are on a stream; a reader's has been started, and what it waits for
\* was not over before.
PlacesInv ==
    \A u \in Readers \cup Waiters :
        /\ at[u] # "idle" => of[u] \in Streams
        /\ at[u] = "ended" => done[of[u]] /\ source[of[u]] # "failed"
        /\ at[u] = "reading" =>
              task[of[u]] # "none" /\ (task[of[u]] = "created" => source[of[u]] = "live")

\* The queue q of a reader that has got g: what it lacks of the h messages, then the end.
Queued(q, g, h, how, over) ==
    /\ Len(g) <= h /\ h <= Len(g) + Len(q)
    /\ \A i \in 1 .. Len(q) : Len(g) + i <= h => q[i] = Len(g) + i
    /\ \A i \in 1 .. Len(q) : Len(g) + i > h => over /\ q[i] \in {End, Error}
    /\ how = "failed" => h < Len(g) + Len(q) /\ q[h + 1 - Len(g)] = Error
    /\ how # "failed" => \A i \in 1 .. Len(q) : Len(g) + i > h => q[i] = End

InOrder(g) == \A i \in 1 .. Len(g) : g[i] = i

ReadersInv ==
    \A x \in Readers :
        /\ InOrder(got[x])
        /\ at[x] = "idle" => of[x] = NoStream /\ got[x] = <<>>
        /\ at[x] = "reading" =>
              Queued(queue[x], got[x], history[of[x]], source[of[x]], done[of[x]])
        /\ at[x] # "idle" => Len(got[x]) <= history[of[x]]
        /\ at[x] = "ended" => Len(got[x]) = history[of[x]]

StreamsInv == ConsumerTypeOK /\ StreamInv /\ PlacesInv /\ ReadersInv

-----------------------------------------------------------------------------
(* Queues *)

\* Until its stream is over, a reader has or will find in its queue just what was sent.
LEMMA AllMessages ==
  ASSUME NEW q \in Seq(Int), NEW g \in Seq(Int), NEW h \in Nat, NEW how,
         Queued(q, g, h, how, FALSE)
  PROVE  /\ Len(g) + Len(q) = h
         /\ \A i \in 1 .. Len(q) : q[i] = Len(g) + i
<1>1. Len(g) \in Nat /\ Len(q) \in Nat  OBVIOUS
<1>2. \A i \in 1 .. Len(q) : Len(g) + i <= h
  BY <1>1 DEF Queued
<1>3. Len(g) + Len(q) = h
  <2>1. CASE Len(q) = 0  BY <1>1, <2>1 DEF Queued
  <2>2. CASE Len(q) > 0
    <3>1. Len(q) \in 1 .. Len(q)  BY <1>1, <2>2
    <3>2. Len(g) + Len(q) <= h  BY <1>2, <3>1
    <3> QED  BY <1>1, <3>2 DEF Queued
  <2> QED  BY <1>1, <2>1, <2>2
<1>4. \A i \in 1 .. Len(q) : q[i] = Len(g) + i
  BY <1>2 DEF Queued
<1> QED  BY <1>3, <1>4

LEMMA MessageQueued ==
  ASSUME NEW q \in Seq(Int), NEW g \in Seq(Int), NEW h \in Nat, NEW how,
         how # "failed", Queued(q, g, h, how, FALSE)
  PROVE  Queued(q \o <<h + 1>>, g, h + 1, how, FALSE)
<1> DEFINE r == q \o <<h + 1>>
<1>1. /\ Len(g) + Len(q) = h
      /\ \A i \in 1 .. Len(q) : q[i] = Len(g) + i
  BY AllMessages
<1>2. /\ Len(r) = Len(q) + 1
      /\ \A i \in 1 .. Len(q) : r[i] = q[i]
      /\ r[Len(q) + 1] = h + 1
  OBVIOUS
<1>3. Len(g) \in Nat /\ Len(q) \in Nat  OBVIOUS
<1> HIDE DEF r
<1>4. ASSUME NEW i \in 1 .. Len(r)
      PROVE  r[i] = Len(g) + i /\ Len(g) + i <= h + 1
  <2>1. CASE i \in 1 .. Len(q)  BY <1>1, <1>2, <1>3, <2>1
  <2>2. CASE i = Len(q) + 1  BY <1>1, <1>2, <1>3, <2>2
  <2> QED  BY <1>2, <1>3, <2>1, <2>2
<1>5. Queued(r, g, h + 1, how, FALSE)  BY <1>1, <1>2, <1>3, <1>4 DEF Queued
<1> QED  BY <1>5 DEF r

LEMMA EndQueued ==
  ASSUME NEW q \in Seq(Int), NEW g \in Seq(Int), NEW h \in Nat, NEW how, NEW how2,
         how2 # "failed", Queued(q, g, h, how, FALSE)
  PROVE  Queued(q \o <<End>>, g, h, how2, TRUE)
<1> DEFINE r == q \o <<End>>
<1>1. /\ Len(g) + Len(q) = h
      /\ \A i \in 1 .. Len(q) : q[i] = Len(g) + i
  BY AllMessages
<1>2. /\ Len(r) = Len(q) + 1
      /\ \A i \in 1 .. Len(q) : r[i] = q[i]
      /\ r[Len(q) + 1] = End
  BY DEF End
<1>3. Len(g) \in Nat /\ Len(q) \in Nat  OBVIOUS
<1> HIDE DEF r
<1>4. \A i \in 1 .. Len(r) : Len(g) + i <= h => r[i] = Len(g) + i
  BY <1>1, <1>2, <1>3
<1>5. \A i \in 1 .. Len(r) : Len(g) + i > h => r[i] = End
  BY <1>1, <1>2, <1>3
<1>6. Queued(r, g, h, how2, TRUE)  BY <1>1, <1>2, <1>3, <1>4, <1>5 DEF Queued
<1> QED  BY <1>6 DEF r

LEMMA ErrorQueued ==
  ASSUME NEW q \in Seq(Int), NEW g \in Seq(Int), NEW h \in Nat, NEW how,
         Queued(q, g, h, how, FALSE)
  PROVE  Queued(q \o <<Error, End>>, g, h, "failed", TRUE)
<1> DEFINE r == q \o <<Error, End>>
<1>1. /\ Len(g) + Len(q) = h
      /\ \A i \in 1 .. Len(q) : q[i] = Len(g) + i
  BY AllMessages
<1>2. /\ Len(r) = Len(q) + 2
      /\ \A i \in 1 .. Len(q) : r[i] = q[i]
      /\ r[Len(q) + 1] = Error /\ r[Len(q) + 2] = End
  BY DEF End, Error
<1>3. Len(g) \in Nat /\ Len(q) \in Nat  OBVIOUS
<1> HIDE DEF r
<1>4. \A i \in 1 .. Len(r) : Len(g) + i <= h => r[i] = Len(g) + i
  BY <1>1, <1>2, <1>3
<1>5. \A i \in 1 .. Len(r) : Len(g) + i > h => r[i] \in {End, Error}
  BY <1>1, <1>2, <1>3
<1>6. h < Len(g) + Len(r) /\ r[h + 1 - Len(g)] = Error
  BY <1>1, <1>2, <1>3
<1>7. Queued(r, g, h, "failed", TRUE)  BY <1>1, <1>2, <1>3, <1>4, <1>5, <1>6 DEF Queued
<1> QED  BY <1>7 DEF r

\* What a reader finds when it subscribes.
Replay(h, how, over) ==
    Numbers(h) \o (IF how = "failed" THEN <<Error>> ELSE IF over THEN <<End>> ELSE <<>>)

LEMMA ReplayQueued ==
  ASSUME NEW h \in Nat, NEW how, NEW over \in BOOLEAN, how = "failed" => over
  PROVE  Queued(Replay(h, how, over), <<>>, h, how, over)
<1> DEFINE r == Replay(h, how, over)
<1>1. Numbers(h) \in Seq(Int) /\ Len(Numbers(h)) = h /\ \A i \in 1 .. h : Numbers(h)[i] = i
  BY DEF Numbers
<1>0. Len(<<>>) = 0  OBVIOUS
<1>2. CASE how = "failed"
  <2>1. r = Numbers(h) \o <<Error>>  BY <1>2 DEF Replay
  <2>2. Len(r) = h + 1 /\ (\A i \in 1 .. h : r[i] = i) /\ r[h + 1] = Error
    BY <1>1, <2>1 DEF Error
  <2>3. over  BY <1>2
  <2> HIDE DEF r
  <2>4. \A i \in 1 .. Len(r) : i <= h => r[i] = i  BY <2>2
  <2>5. \A i \in 1 .. Len(r) : i > h => r[i] = Error  BY <2>2
  <2>6. Queued(r, <<>>, h, how, over)  BY <1>0, <1>2, <2>2, <2>3, <2>4, <2>5 DEF Queued
  <2> QED  BY <2>6 DEF r
<1>3. CASE how # "failed" /\ over
  <2>1. r = Numbers(h) \o <<End>>  BY <1>3 DEF Replay
  <2>2. Len(r) = h + 1 /\ (\A i \in 1 .. h : r[i] = i) /\ r[h + 1] = End
    BY <1>1, <2>1 DEF End
  <2> HIDE DEF r
  <2>4. \A i \in 1 .. Len(r) : i <= h => r[i] = i  BY <2>2
  <2>5. \A i \in 1 .. Len(r) : i > h => r[i] = End  BY <2>2
  <2>6. Queued(r, <<>>, h, how, over)  BY <1>0, <1>3, <2>2, <2>4, <2>5 DEF Queued
  <2> QED  BY <2>6 DEF r
<1>4. CASE how # "failed" /\ ~over
  <2>1. r = Numbers(h)  BY <1>1, <1>4 DEF Replay
  <2> QED  BY <1>0, <1>1, <1>4, <2>1 DEF Queued
<1> QED  BY <1>2, <1>3, <1>4

LEMMA HeadQueued ==
  ASSUME NEW q \in Seq(Int), NEW g \in Seq(Int), NEW h \in Nat, NEW how, NEW over,
         Queued(q, g, h, how, over), q # <<>>
  PROVE  /\ Head(q) \notin {End, Error} =>
                /\ Head(q) = Len(g) + 1 /\ Len(g) < h
                /\ Queued(Tail(q), Append(g, Head(q)), h, how, over)
         /\ Head(q) = End => Len(g) = h /\ over /\ how # "failed"
<1>1. /\ Head(q) = q[1] /\ Len(q) \in Nat /\ Len(q) >= 1 /\ Len(g) \in Nat
      /\ Len(Tail(q)) = Len(q) - 1
      /\ \A i \in 1 .. Len(q) - 1 : Tail(q)[i] = q[i + 1]
      /\ Len(Append(g, Head(q))) = Len(g) + 1
  OBVIOUS
<1>2. ASSUME Head(q) \notin {End, Error}
      PROVE  Head(q) = Len(g) + 1 /\ Len(g) < h
  BY <1>1, <1>2 DEF Queued
<1>3. ASSUME Head(q) \notin {End, Error}
      PROVE  Queued(Tail(q), Append(g, Head(q)), h, how, over)
  BY <1>1, <1>2, <1>3 DEF Queued
<1>4. ASSUME Head(q) = End
      PROVE  Len(g) = h /\ over /\ how # "failed"
  <2>1. 1 \in 1 .. Len(q) /\ q[1] = 0  BY <1>1, <1>4 DEF End
  <2>2. Len(g) + 1 > h
    <3>1. Len(g) + 1 <= h => q[1] = Len(g) + 1  BY <2>1 DEF Queued
    <3> QED  BY <1>1, <2>1, <3>1
  <2>3. Len(g) = h /\ over  BY <1>1, <2>1, <2>2 DEF Queued
  <2>4. ASSUME how = "failed"  PROVE FALSE
    <3>1. q[h + 1 - Len(g)] = -1  BY <2>4 DEF Queued, Error
    <3>2. h + 1 - Len(g) = 1  BY <1>1, <2>3
    <3> QED  BY <2>1, <3>1, <3>2
  <2> QED  BY <2>3, <2>4
<1> QED  BY <1>2, <1>3, <1>4
-----------------------------------------------------------------------------
(* The invariant holds at first and is kept *)

Users == Readers \cup Waiters

LEMMA StreamsInit ==
  ASSUME ConsumerInit
  PROVE  StreamsInv
<1> USE ConsumerAssumption DEF ConsumerInit
<1>1. ConsumerTypeOK
  <2>1. /\ history \in [Streams -> 0 .. MaxMessages]
        /\ source \in [Streams -> {"live", "ended", "failed", "closed"}]
        /\ task \in [Streams -> {"none", "created", "running", "cancelling", "over"}]
        /\ done \in [Streams -> BOOLEAN] /\ closed \in [Streams -> BOOLEAN]
    OBVIOUS
  <2>2. /\ queue \in [Readers -> Seq(Items)] /\ got \in [Readers -> Seq(Items)]
    OBVIOUS
  <2> QED  BY <2>1, <2>2 DEF ConsumerTypeOK
<1>2. StreamInv /\ PlacesInv  BY DEF StreamInv, PlacesInv
<1>3. ReadersInv  BY DEF ReadersInv, InOrder
<1> QED  BY <1>1, <1>2, <1>3 DEF StreamsInv

\* The sequences of the model are sequences of integers, as the lemmas above have them.
LEMMA QueueTypes ==
  ASSUME ConsumerTypeOK
  PROVE  /\ \A x \in Readers : queue[x] \in Seq(Items) /\ queue[x] \in Seq(Int)
         /\ \A x \in Readers : got[x] \in Seq(Items) /\ got[x] \in Seq(Int)
         /\ \A s \in Streams : history[s] \in Nat /\ done[s] \in BOOLEAN
         /\ End \in Items /\ (MaxMessages \in Nat) /\ Error \in Items
<1>1. MaxMessages \in Nat  BY ConsumerAssumption
<1>2. Items \subseteq Int  BY <1>1 DEF Items
<1>3. ASSUME NEW q \in Seq(Items)  PROVE q \in Seq(Int)
  BY <1>2, SeqMonotonic
<1>4. End \in Items /\ Error \in Items  BY <1>1 DEF End, Error, Items
<1> QED  BY <1>1, <1>3, <1>4 DEF ConsumerTypeOK

LEMMA ConsumeBeginsKeeps ==
  ASSUME StreamsInv, NEW s \in Streams, ConsumeBegins(s)
  PROVE  StreamsInv'
<1> USE DEF StreamsInv, ConsumeBegins, userVars
<1>1. ConsumerTypeOK'  BY DEF ConsumerTypeOK
<1>2. StreamInv'  BY DEF StreamInv, ConsumerTypeOK
<1>3. PlacesInv'  BY DEF PlacesInv, ConsumerTypeOK
<1>4. ReadersInv'  BY DEF ReadersInv, InOrder, Queued
<1> QED  BY <1>1, <1>2, <1>3, <1>4

LEMMA ProduceKeeps ==
  ASSUME StreamsInv, NEW s \in Streams, Produce(s)
  PROVE  StreamsInv'
<1> USE DEF StreamsInv
<1>t. /\ history \in [Streams -> 0 .. MaxMessages] /\ queue \in [Readers -> Seq(Items)]
      /\ MaxMessages \in Nat
  BY ConsumerAssumption DEF ConsumerTypeOK
<1>0. /\ task[s] \in {"running", "cancelling"} /\ history[s] < MaxMessages
      /\ history' = [history EXCEPT ![s] = history[s] + 1]
      /\ queue' = [x \in Readers |-> IF x \in Listeners(s) THEN queue[x] \o <<history[s] + 1>>
                                                            ELSE queue[x]]
      /\ UNCHANGED <<source, task, done, closed, at, of, got>>
  BY DEF Produce, Broadcast
<1>1. ConsumerTypeOK'
  <2>1. history' \in [Streams -> 0 .. MaxMessages]  BY <1>t, <1>0
  <2>2. history[s] + 1 \in Items  BY <1>t, <1>0 DEF Items
  <2>3. \A x \in Readers : queue[x] \o <<history[s] + 1>> \in Seq(Items)  BY <1>t, <2>2
  <2>4. queue' \in [Readers -> Seq(Items)]  BY <1>t, <1>0, <2>3
  <2> QED  BY <1>0, <2>1, <2>4 DEF ConsumerTypeOK
<1>2. StreamInv'  BY <1>0 DEF StreamInv
<1>3. PlacesInv'  BY <1>0 DEF PlacesInv
<1>4. source[s] = "live" /\ done[s] = FALSE
  BY <1>0, QueueTypes DEF StreamInv
<1>5. ASSUME NEW x \in Readers
      PROVE  /\ InOrder(got'[x])
             /\ at'[x] = "idle" => of'[x] = NoStream /\ got'[x] = <<>>
             /\ at'[x] = "reading" =>
                   Queued(queue'[x], got'[x], history'[of'[x]], source'[of'[x]], done'[of'[x]])
             /\ at'[x] # "idle" => Len(got'[x]) <= history'[of'[x]]
             /\ at'[x] = "ended" => Len(got'[x]) = history'[of'[x]]
  <2>0. x \in Readers \cup Waiters /\ (at[x] # "idle" => of[x] \in Streams)
    BY DEF PlacesInv
  <2>1. CASE at[x] = "reading" /\ of[x] = s
    <3>1. Queued(queue[x], got[x], history[s], source[s], FALSE)
      BY <1>4, <2>1 DEF ReadersInv
    <3>2. Queued(queue[x] \o <<history[s] + 1>>, got[x], history[s] + 1, source[s], FALSE)
      BY <1>4, <3>1, QueueTypes, MessageQueued
    <3>3. x \in Listeners(s)  BY <2>1 DEF Listeners
    <3>4. queue'[x] = queue[x] \o <<history[s] + 1>> /\ history'[s] = history[s] + 1
      BY <1>t, <1>0, <3>3
    <3>5. Len(got[x]) <= history[s] /\ Len(got[x]) \in Nat /\ history[s] \in Nat
      BY <2>1, QueueTypes DEF ReadersInv
    <3>6. Queued(queue'[x], got'[x], history'[s], source'[s], done'[s])
      BY <1>0, <1>4, <3>2, <3>4
    <3>7. at'[x] = "reading" /\ of'[x] = s /\ got'[x] = got[x] /\ InOrder(got[x])
      BY <1>0, <2>1 DEF ReadersInv
    <3> QED  BY <3>4, <3>5, <3>6, <3>7
  <2>2. CASE ~(at[x] = "reading" /\ of[x] = s)
    <3>1. queue'[x] = queue[x]  BY <1>0, <2>2 DEF Listeners
    <3>2. CASE of[x] # s
      <4>1. at[x] # "idle" => history'[of[x]] = history[of[x]]  BY <1>t, <1>0, <2>0, <3>2
      <4> QED  BY <1>0, <3>1, <4>1 DEF ReadersInv
    <3>3. CASE of[x] = s
      <4>1. at[x] # "ended"  BY <1>4, <2>0, <3>3 DEF PlacesInv
      <4>2. history'[s] = history[s] + 1 /\ history[s] \in Nat /\ Len(got[x]) \in Nat
        BY <1>t, <1>0, QueueTypes
      <4> QED  BY <1>0, <2>2, <3>1, <3>3, <4>1, <4>2 DEF ReadersInv
    <3> QED  BY <3>2, <3>3
  <2> QED  BY <2>1, <2>2
<1>6. ReadersInv'  BY <1>5 DEF ReadersInv
<1> QED  BY <1>1, <1>2, <1>3, <1>6

\* The task ends, with a generator that lives until now or was closed before.
LEMMA OverKeeps ==
  ASSUME StreamsInv, NEW s \in Streams, NEW how \in {"ended", "failed", "closed"}, Over(s, how),
         \/ task[s] = "cancelling" \/ (task[s] = "running" /\ how # "closed")
         \/ task[s] = "created" /\ source[s] = how
  PROVE  StreamsInv'
<1> USE DEF StreamsInv
<1> DEFINE items == IF how = "failed" THEN <<Error, End>> ELSE <<End>>
<1>t. /\ source \in [Streams -> {"live", "ended", "failed", "closed"}]
      /\ task \in [Streams -> {"none", "created", "running", "cancelling", "over"}]
      /\ done \in [Streams -> BOOLEAN] /\ queue \in [Readers -> Seq(Items)]
  BY DEF ConsumerTypeOK
<1>0. /\ source' = [source EXCEPT ![s] = how] /\ task' = [task EXCEPT ![s] = "over"]
      /\ done' = [done EXCEPT ![s] = TRUE]
      /\ queue' = [x \in Readers |-> IF x \in Listeners(s) THEN queue[x] \o items ELSE queue[x]]
      /\ UNCHANGED <<history, closed, at, of, got>>
  BY DEF Over, Broadcast
<1>1. ConsumerTypeOK'
  <2>1. items \in Seq(Items)  BY QueueTypes
  <2> HIDE DEF items
  <2>2. \A x \in Readers : queue[x] \o items \in Seq(Items)  BY <1>t, <2>1
  <2>3. queue' \in [Readers -> Seq(Items)]  BY <1>t, <1>0, <2>2
  <2> QED  BY <1>t, <1>0, <2>3 DEF ConsumerTypeOK
<1>2. StreamInv'  BY <1>t, <1>0 DEF StreamInv
<1>3. PlacesInv'  BY <1>t, <1>0 DEF PlacesInv, StreamInv
<1>5. ASSUME NEW x \in Readers
      PROVE  /\ InOrder(got'[x])
             /\ at'[x] = "idle" => of'[x] = NoStream /\ got'[x] = <<>>
             /\ at'[x] = "reading" =>
                   Queued(queue'[x], got'[x], history'[of'[x]], source'[of'[x]], done'[of'[x]])
             /\ at'[x] # "idle" => Len(got'[x]) <= history'[of'[x]]
             /\ at'[x] = "ended" => Len(got'[x]) = history'[of'[x]]
  <2>1. CASE at[x] = "reading" /\ of[x] = s
    <3>0. task[s] # "created"
      BY <2>1 DEF PlacesInv
    <3>1. source[s] = "live" /\ done[s] = FALSE
      BY <1>t, <3>0 DEF StreamInv
    <3>2. Queued(queue[x], got[x], history[s], source[s], FALSE)
      BY <2>1, <3>1 DEF ReadersInv
    <3>3. Queued(queue[x] \o items, got[x], history[s], how, TRUE)
      BY <3>2, QueueTypes, EndQueued, ErrorQueued
    <3>4. x \in Listeners(s)  BY <2>1 DEF Listeners
    <3>5. queue'[x] = queue[x] \o items /\ source'[s] = how /\ done'[s] = TRUE
      BY <1>t, <1>0, <3>4
    <3> HIDE DEF items
    <3> QED  BY <1>0, <2>1, <3>3, <3>5 DEF ReadersInv
  <2>2. CASE ~(at[x] = "reading" /\ of[x] = s)
    <3> HIDE DEF items
    <3>1. queue'[x] = queue[x]  BY <1>0, <2>2 DEF Listeners
    <3>2. at[x] = "reading" => source'[of[x]] = source[of[x]] /\ done'[of[x]] = done[of[x]]
      BY <1>t, <1>0, <2>2 DEF PlacesInv
    <3> QED  BY <1>0, <3>1, <3>2 DEF ReadersInv
  <2> QED  BY <2>1, <2>2
<1>6. ReadersInv'  BY <1>5 DEF ReadersInv
<1> QED  BY <1>1, <1>2, <1>3, <1>6

\* A first reader or waiter starts the task of its stream.
LEMMA Started ==
  ASSUME ConsumerTypeOK, StreamInv, NEW s \in Streams, EnsureStarted(s),
         UNCHANGED <<source, done, closed>>
  PROVE  /\ StreamInv'
         /\ task' \in [Streams -> {"none", "created", "running", "cancelling", "over"}]
         /\ task'[s] # "none"
         /\ \A t \in Streams : t # s \/ task[s] # "none" => task'[t] = task[t]
BY DEF ConsumerTypeOK, StreamInv, EnsureStarted

LEMMA SubscribeKeeps ==
  ASSUME StreamsInv, NEW x \in Readers, NEW s \in Streams, Subscribe(x, s)
  PROVE  StreamsInv'
<1> USE DEF StreamsInv
<1>0. /\ at[x] = "idle" /\ ~closed[s] /\ EnsureStarted(s)
      /\ at' = [at EXCEPT ![x] = "reading"] /\ of' = [of EXCEPT ![x] = s]
      /\ queue' = [queue EXCEPT ![x] = Replay(history[s], source[s], done[s])]
      /\ UNCHANGED <<history, source, done, closed, got>>
  BY DEF Subscribe, Goes, Replay
<1>t. /\ at \in [Users -> {"idle", "reading", "waiting", "closing", "ended", "raised", "left"}]
      /\ of \in [Users -> Streams \cup {NoStream}]
      /\ queue \in [Readers -> Seq(Items)] /\ x \in Users
      /\ task \in [Streams -> {"none", "created", "running", "cancelling", "over"}]
      /\ history[s] \in 0 .. MaxMessages
  BY DEF ConsumerTypeOK, Users
<1>1. /\ StreamInv' /\ task'[s] # "none"
      /\ task' \in [Streams -> {"none", "created", "running", "cancelling", "over"}]
      /\ \A t \in Streams : t # s \/ task[s] # "none" => task'[t] = task[t]
  BY <1>0, Started
<1>2. ConsumerTypeOK'
  <2>1. Numbers(history[s]) \in Seq(Items)
    <3>1. MaxMessages \in Nat /\ 1 .. history[s] \subseteq Items /\ history[s] \in Nat
      BY <1>t, QueueTypes DEF Items
    <3>2. Numbers(history[s]) \in [1 .. history[s] -> Items]  BY <3>1 DEF Numbers
    <3> QED  BY <3>1, <3>2, SeqDef
  <2>2. Replay(history[s], source[s], done[s]) \in Seq(Items)
    BY <2>1, QueueTypes DEF Replay
  <2>3. /\ queue' \in [Readers -> Seq(Items)]
        /\ at' \in [Users -> {"idle", "reading", "waiting", "closing", "ended", "raised", "left"}]
        /\ of' \in [Users -> Streams \cup {NoStream}]
    BY <1>0, <1>t, <2>2
  <2> QED  BY <1>0, <1>1, <2>3 DEF ConsumerTypeOK, Users
<1>3. PlacesInv'
  <2>1. task'[s] = "created" => source[s] = "live"
    BY <1>0, <1>1 DEF EnsureStarted, StreamInv
  <2> QED  BY <1>0, <1>t, <1>1, <2>1 DEF PlacesInv, Users
<1>4. Queued(Replay(history[s], source[s], done[s]), <<>>, history[s], source[s], done[s])
  BY QueueTypes, ReplayQueued DEF StreamInv
<1>5. ASSUME NEW y \in Readers
      PROVE  /\ InOrder(got'[y])
             /\ at'[y] = "idle" => of'[y] = NoStream /\ got'[y] = <<>>
             /\ at'[y] = "reading" =>
                   Queued(queue'[y], got'[y], history'[of'[y]], source'[of'[y]], done'[of'[y]])
             /\ at'[y] # "idle" => Len(got'[y]) <= history'[of'[y]]
             /\ at'[y] = "ended" => Len(got'[y]) = history'[of'[y]]
  <2>1. CASE y # x
    BY <1>0, <1>t, <2>1 DEF ReadersInv, Users
  <2>2. CASE y = x
    <3>1. got[x] = <<>> /\ InOrder(got[x])  BY <1>0 DEF ReadersInv
    <3>2. at'[x] = "reading" /\ of'[x] = s /\ got'[x] = <<>> /\ Len(got'[x]) = 0
          /\ queue'[x] = Replay(history[s], source[s], done[s])
      BY <1>0, <1>t, <3>1
    <3>3. history[s] \in Nat  BY QueueTypes
    <3> QED  BY <1>0, <1>4, <2>2, <3>1, <3>2, <3>3
  <2> QED  BY <2>1, <2>2
<1>6. ReadersInv'  BY <1>5 DEF ReadersInv
<1> QED  BY <1>1, <1>2, <1>3, <1>6

LEMMA RefusedKeeps ==
  ASSUME StreamsInv, NEW x \in Readers, NEW s \in Streams, SubscribeRefused(x, s)
  PROVE  StreamsInv'
<1> USE DEF StreamsInv, SubscribeRefused, Goes, streamVars
<1>1. ConsumerTypeOK'  BY DEF ConsumerTypeOK
<1>2. StreamInv'  BY DEF StreamInv
<1>3. PlacesInv'  BY DEF PlacesInv, ConsumerTypeOK
<1>4. got[x] = <<>> /\ Len(got[x]) = 0 /\ history[s] \in Nat
  BY QueueTypes DEF ReadersInv
<1>5. ReadersInv'  BY <1>4 DEF ReadersInv, ConsumerTypeOK
<1> QED  BY <1>1, <1>2, <1>3, <1>5

LEMMA ReadKeeps ==
  ASSUME StreamsInv, NEW x \in Readers, Read(x)
  PROVE  StreamsInv'
<1> USE DEF StreamsInv
<1> DEFINE q == queue[x]
           g == got[x]
           s == of[x]
<1>t. /\ at \in [Users -> {"idle", "reading", "waiting", "closing", "ended", "raised", "left"}]
      /\ queue \in [Readers -> Seq(Items)] /\ got \in [Readers -> Seq(Items)]
      /\ x \in Users /\ s \in Streams
      /\ q \in Seq(Int) /\ g \in Seq(Int) /\ history[s] \in Nat
  BY QueueTypes DEF ConsumerTypeOK, Users, Read, PlacesInv
<1>0. /\ at[x] = "reading" /\ q # <<>>
      /\ queue' = [queue EXCEPT ![x] = Tail(q)]
      /\ UNCHANGED <<history, source, task, done, closed, of>>
  BY DEF Read, streamVars
<1>1. Queued(q, g, history[s], source[s], done[s])
  BY <1>0 DEF ReadersInv
<1>2. /\ Head(q) \notin {End, Error} =>
            /\ Head(q) = Len(g) + 1 /\ Len(g) < history[s]
            /\ Queued(Tail(q), Append(g, Head(q)), history[s], source[s], done[s])
      /\ Head(q) = End => Len(g) = history[s] /\ done[s] /\ source[s] # "failed"
  BY <1>0, <1>1, <1>t, HeadQueued
<1>3. Head(q) \in Items /\ Tail(q) \in Seq(Items) /\ q \in Seq(Items) /\ g \in Seq(Items)
      /\ queue' \in [Readers -> Seq(Items)]
  BY <1>0, <1>t
<1>4. CASE Head(q) \in {End, Error}
  <2>1. /\ at' = [at EXCEPT ![x] = IF Head(q) = End THEN "ended" ELSE "raised"]
        /\ got' = got
    BY <1>4 DEF Read, Goes, End, Error
  <2>2. ConsumerTypeOK'  BY <1>0, <1>3, <2>1 DEF ConsumerTypeOK
  <2>3. StreamInv'  BY <1>0 DEF StreamInv
  <2>4. PlacesInv'  BY <1>0, <1>t, <1>2, <2>1 DEF PlacesInv, Users
  <2>5. at'[x] \in {"ended", "raised"} /\ (at'[x] = "ended" => Len(g) = history[s])
    BY <1>t, <1>2, <2>1
  <2>6. \A y \in Readers \ {x} : at'[y] = at[y] /\ queue'[y] = queue[y]
    BY <1>0, <1>t, <2>1 DEF Users
  <2>7. ReadersInv'  BY <1>0, <2>1, <2>5, <2>6 DEF ReadersInv
  <2> QED  BY <2>2, <2>3, <2>4, <2>7
<1>5. CASE Head(q) \notin {End, Error}
  <2>1. at' = at /\ got' = [got EXCEPT ![x] = Append(g, Head(q))]
    BY <1>5 DEF Read
  <2>2. ConsumerTypeOK'
    <3>1. Append(g, Head(q)) \in Seq(Items)  BY <1>3
    <3>2. got' \in [Readers -> Seq(Items)]  BY <1>t, <2>1, <3>1
    <3> QED  BY <1>0, <1>3, <2>1, <3>2 DEF ConsumerTypeOK
  <2>3. StreamInv'  BY <1>0 DEF StreamInv
  <2>4. PlacesInv'  BY <1>0, <2>1 DEF PlacesInv
  <2>5. /\ Len(Append(g, Head(q))) = Len(g) + 1 /\ Len(g) \in Nat
        /\ \A i \in 1 .. Len(g) : Append(g, Head(q))[i] = g[i]
        /\ Append(g, Head(q))[Len(g) + 1] = Head(q)
    BY <1>t
  <2>6. InOrder(Append(g, Head(q)))
    <3>1. InOrder(g)  BY DEF ReadersInv
    <3> QED  BY <1>2, <1>5, <2>5, <3>1 DEF InOrder
  <2>7. \A y \in Readers \ {x} : got'[y] = got[y] /\ queue'[y] = queue[y]
    BY <1>0, <1>t, <2>1
  <2>8. got'[x] = Append(g, Head(q)) /\ queue'[x] = Tail(q)
    BY <1>0, <1>t, <2>1
  <2>9. Len(got'[x]) <= history[s]  BY <1>2, <1>5, <1>t, <2>5, <2>8
  <2>10. Queued(queue'[x], got'[x], history'[s], source'[s], done'[s])
    BY <1>0, <1>2, <1>5, <2>8
  <2>11. ReadersInv'
    BY <1>0, <2>1, <2>6, <2>7, <2>8, <2>9, <2>10 DEF ReadersInv
  <2> QED  BY <2>2, <2>3, <2>4, <2>11
<1> QED  BY <1>4, <1>5

\* A reader that breaks off, and a waiter or closer that gets what it waits for.
LEMMA GoesKeeps ==
  ASSUME StreamsInv, NEW u \in Users, NEW where \in {"ended", "raised", "left"}, Goes(u, where),
         UNCHANGED <<streamVars, of, queue, got>>,
         at[u] # "idle",
         where = "ended" => u \in Waiters /\ done[of[u]] /\ source[of[u]] # "failed"
  PROVE  StreamsInv'
<1> USE DEF StreamsInv, Goes, streamVars, Users
<1>1. ConsumerTypeOK'  BY DEF ConsumerTypeOK
<1>2. StreamInv'  BY DEF StreamInv
<1>3. PlacesInv'  BY DEF PlacesInv, ConsumerTypeOK
<1>4. ReadersInv'  BY ConsumerAssumption DEF ReadersInv, ConsumerTypeOK
<1> QED  BY <1>1, <1>2, <1>3, <1>4

LEMMA WaitKeeps ==
  ASSUME StreamsInv, NEW w \in Waiters, NEW s \in Streams, Wait(w, s)
  PROVE  StreamsInv'
<1> USE DEF StreamsInv
<1>0. /\ EnsureStarted(s)
      /\ at' = [at EXCEPT ![w] = "waiting"] /\ of' = [of EXCEPT ![w] = s]
      /\ UNCHANGED <<history, source, done, closed, queue, got>>
  BY DEF Wait, Goes
<1>t. /\ at \in [Users -> {"idle", "reading", "waiting", "closing", "ended", "raised", "left"}]
      /\ of \in [Users -> Streams \cup {NoStream}] /\ w \in Users
  BY DEF ConsumerTypeOK, Users
<1>1. /\ StreamInv' /\ task'[s] # "none"
      /\ task' \in [Streams -> {"none", "created", "running", "cancelling", "over"}]
      /\ \A t \in Streams : t # s \/ task[s] # "none" => task'[t] = task[t]
  BY <1>0, Started
<1>2. ConsumerTypeOK'
  BY <1>0, <1>t, <1>1 DEF ConsumerTypeOK, Users
<1>3. PlacesInv'
  BY <1>0, <1>t, <1>1 DEF PlacesInv, Users
<1>4. \A x \in Readers : at'[x] = at[x] /\ of'[x] = of[x]
  BY <1>0, <1>t, ConsumerAssumption DEF Users
<1>5. ReadersInv'  BY <1>0, <1>4 DEF ReadersInv
<1> QED  BY <1>1, <1>2, <1>3, <1>5

\* A close: of a cancelled waiter or reader, or of async_close.
LEMMA CloseKeeps ==
  ASSUME StreamsInv, NEW w \in Users, NEW s \in Streams, CloseStream(s),
         w \in Readers => at[w] = "reading" /\ of[w] = s,
         at' = [at EXCEPT ![w] = "closing"], of' = [of EXCEPT ![w] = s], got' = got
  PROVE  StreamsInv'
<1> USE DEF StreamsInv
<1>t. /\ at \in [Users -> {"idle", "reading", "waiting", "closing", "ended", "raised", "left"}]
      /\ of \in [Users -> Streams \cup {NoStream}] /\ w \in Users
      /\ source \in [Streams -> {"live", "ended", "failed", "closed"}]
      /\ task \in [Streams -> {"none", "created", "running", "cancelling", "over"}]
      /\ done \in [Streams -> BOOLEAN] /\ queue \in [Readers -> Seq(Items)]
      /\ closed \in [Streams -> BOOLEAN]
  BY DEF ConsumerTypeOK, Users
<1>4. /\ \A x \in Readers : /\ at'[x] = at[x] \/ (at[x] = "reading" /\ at'[x] = "closing")
                            /\ of'[x] = of[x] /\ got'[x] = got[x]
      /\ \A u \in Users \ {w} : at'[u] = at[u] /\ of'[u] = of[u]
      /\ at'[w] = "closing" /\ of'[w] = s
      /\ at' \in [Users -> {"idle", "reading", "waiting", "closing", "ended", "raised", "left"}]
      /\ of' \in [Users -> Streams \cup {NoStream}]
  BY <1>t, ConsumerAssumption DEF Users
<1>5. history' = history /\ closed' = [closed EXCEPT ![s] = TRUE]
  BY DEF CloseStream
<1>6. CASE task[s] = "running"
  <2>1. task' = [task EXCEPT ![s] = "cancelling"] /\ UNCHANGED <<source, done, queue>>
    BY <1>6 DEF CloseStream
  <2>2. ConsumerTypeOK'  BY <1>4, <1>5, <2>1 DEF ConsumerTypeOK, Users
  <2>3. StreamInv'  BY <1>t, <1>5, <1>6, <2>1 DEF StreamInv
  <2>4. PlacesInv'  BY <1>t, <1>4, <1>6, <2>1 DEF PlacesInv, Users
  <2>5. ReadersInv'  BY <1>4, <1>5, <2>1 DEF ReadersInv
  <2> QED  BY <2>2, <2>3, <2>4, <2>5
<1>7. CASE task[s] \in {"none", "created"}
  <2>1. /\ task' = [task EXCEPT ![s] = IF task[s] = "created" THEN "over" ELSE task[s]]
        /\ source' = [source EXCEPT ![s] = IF source[s] = "live" THEN "closed" ELSE source[s]]
        /\ done' = [done EXCEPT ![s] = TRUE]
        /\ IF done[s] THEN UNCHANGED queue ELSE Broadcast(s, <<End>>)
    BY <1>7 DEF CloseStream
  <2>2. queue' \in [Readers -> Seq(Items)]
    <3>1. \A x \in Readers : queue[x] \o <<End>> \in Seq(Items)  BY <1>t, QueueTypes
    <3> QED  BY <1>t, <2>1, <3>1 DEF Broadcast
  <2>3. ConsumerTypeOK'  BY <1>t, <1>4, <1>5, <2>1, <2>2 DEF ConsumerTypeOK, Users
  <2>4. StreamInv'  BY <1>t, <1>5, <1>7, <2>1 DEF StreamInv
  <2>5. source'[s] = "closed"  BY <1>t, <1>7, <2>1 DEF StreamInv
  <2>6. PlacesInv'
    <3>1. ASSUME NEW u \in Users \ {w}
          PROVE  /\ at'[u] # "idle" => of'[u] \in Streams
                 /\ at'[u] = "ended" => done'[of'[u]] /\ source'[of'[u]] # "failed"
                 /\ at'[u] = "reading" => /\ task'[of'[u]] # "none"
                                          /\ task'[of'[u]] = "created" => source'[of'[u]] = "live"
      <4>1. CASE of[u] = s  BY <1>t, <1>4, <2>1, <2>5, <4>1 DEF PlacesInv, Users
      <4>2. CASE of[u] # s
        <5>1. at[u] # "idle" => /\ of[u] \in Streams /\ task'[of[u]] = task[of[u]]
                                /\ source'[of[u]] = source[of[u]] /\ done'[of[u]] = done[of[u]]
          BY <1>t, <2>1, <4>2 DEF PlacesInv, Users
        <5> QED  BY <1>4, <5>1 DEF PlacesInv, Users
      <4> QED  BY <4>1, <4>2
    <3> QED  BY <1>4, <3>1 DEF PlacesInv, Users
  <2>7. ASSUME NEW x \in Readers, at[x] = "reading"
        PROVE  Queued(queue'[x], got[x], history[of[x]], source'[of[x]], done'[of[x]])
    <3>0. Queued(queue[x], got[x], history[of[x]], source[of[x]], done[of[x]])
      BY <2>7 DEF ReadersInv
    <3>1. CASE of[x] = s
      <4>1. source[s] = "live" /\ done[s] = FALSE
        BY <1>t, <1>7, <2>7, <3>1 DEF PlacesInv, StreamInv
      <4>2. Queued(queue[x] \o <<End>>, got[x], history[s], "closed", TRUE)
        BY <3>0, <3>1, <4>1, QueueTypes, EndQueued
      <4>3. queue'[x] = queue[x] \o <<End>> /\ done'[s] = TRUE
        BY <1>t, <2>1, <2>7, <3>1, <4>1 DEF Broadcast, Listeners
      <4> QED  BY <2>5, <3>1, <4>2, <4>3
    <3>2. CASE of[x] # s
      <4>1. queue'[x] = queue[x]  BY <2>1, <3>2 DEF Broadcast, Listeners
      <4>2. source'[of[x]] = source[of[x]] /\ done'[of[x]] = done[of[x]]
        BY <1>t, <2>1, <2>7, <3>2 DEF PlacesInv
      <4> QED  BY <3>0, <4>1, <4>2
    <3> QED  BY <3>1, <3>2
  <2>8. ReadersInv'  BY <1>4, <1>5, <2>7 DEF ReadersInv
  <2> QED  BY <2>3, <2>4, <2>6, <2>8
<1>8. CASE task[s] \in {"cancelling", "over"}
  <2>1. UNCHANGED <<source, task, done, queue>>
    BY <1>8 DEF CloseStream
  <2>2. ConsumerTypeOK'  BY <1>4, <1>5, <2>1 DEF ConsumerTypeOK, Users
  <2>3. StreamInv'  BY <1>t, <1>5, <2>1 DEF StreamInv
  <2>4. PlacesInv'  BY <1>t, <1>4, <2>1 DEF PlacesInv, Users
  <2>5. ReadersInv'  BY <1>4, <1>5, <2>1 DEF ReadersInv
  <2> QED  BY <2>2, <2>3, <2>4, <2>5
<1> QED  BY <1>t, <1>6, <1>7, <1>8

LEMMA StreamsNext ==
  ASSUME StreamsInv, [Next]_vars
  PROVE  StreamsInv'
<1>0. CASE UNCHANGED consumerVars
  <2> USE <1>0 DEF consumerVars, streamVars, userVars, StreamsInv
  <2>1. ConsumerTypeOK'  BY DEF ConsumerTypeOK
  <2>2. StreamInv' /\ PlacesInv'  BY DEF StreamInv, PlacesInv
  <2>3. ReadersInv'  BY DEF ReadersInv
  <2> QED  BY <2>1, <2>2, <2>3
<1>1. CASE UNCHANGED vars  BY <1>0, <1>1 DEF vars
<1>2. ASSUME NEW s \in Streams, StreamStep(s) \/ Answer(s)
      PROVE  StreamsInv'
  <2>1. CASE Begin(s)  BY <2>1, ConsumeBeginsKeeps DEF Begin
  <2>2. CASE Answer(s)  BY <2>2, ProduceKeeps DEF Answer
  <2>3. CASE Finish(s)
    <3>1. CASE SourceEnds(s)  BY <3>1, OverKeeps DEF SourceEnds
    <3>2. CASE SourceFails(s)  BY <3>2, OverKeeps DEF SourceFails
    <3>3. CASE SourceCancelled(s)  BY <3>3, OverKeeps DEF SourceCancelled
    <3>4. CASE ConsumeNothing(s)
      <4>1. source[s] \in {"ended", "failed", "closed"}
        BY <3>4 DEF ConsumeNothing, StreamsInv, ConsumerTypeOK
      <4> QED  BY <3>4, <4>1, OverKeeps DEF ConsumeNothing
    <3> QED  BY <2>3, <3>1, <3>2, <3>3, <3>4 DEF Finish
  <2>4. CASE AskSlot(s) \/ AdvanceSlot(s) \/ UnwindSlot(s)
    BY <1>0, <2>4 DEF AskSlot, AdvanceSlot, UnwindSlot
  <2> QED  BY <1>2, <2>1, <2>2, <2>3, <2>4 DEF StreamStep
<1>3. ASSUME NEW x \in Readers, ReaderStep(x) \/ ReaderChooses(x)
      PROVE  StreamsInv'
  <2>1. CASE Read(x)  BY <2>1, ReadKeeps
  <2>4. CASE CloseReturns(x)  BY <2>4, GoesKeeps DEF CloseReturns, Users
  <2>2. CASE Quit(x)  BY <2>2, GoesKeeps DEF Quit, Users
  <2>5. CASE ReadCancelled(x)
    <3>1. of[x] \in Streams /\ of' = [of EXCEPT ![x] = of[x]] /\ x \in Users
      BY <2>5 DEF ReadCancelled, StreamsInv, PlacesInv, ConsumerTypeOK, Users
    <3> QED  BY <2>5, <3>1, CloseKeeps DEF ReadCancelled, Goes
  <2>3. ASSUME NEW s \in Streams, Subscribe(x, s) \/ SubscribeRefused(x, s)
        PROVE  StreamsInv'
    BY <2>3, SubscribeKeeps, RefusedKeeps
  <2> QED  BY <1>3, <2>1, <2>2, <2>3, <2>4, <2>5 DEF ReaderStep, ReaderChooses
<1>4. ASSUME NEW w \in Waiters, WaiterStep(w) \/ WaiterChooses(w)
      PROVE  StreamsInv'
  <2>1. CASE WaitReturns(w)
    <3>1. at[w] = "waiting" /\ done[of[w]] /\ UNCHANGED <<streamVars, of, queue, got>> /\ w \in Users
      BY <2>1 DEF WaitReturns, Users
    <3>2. CASE source[of[w]] = "failed"
      BY <2>1, <3>1, <3>2, GoesKeeps DEF WaitReturns
    <3>3. CASE source[of[w]] # "failed"
      BY <2>1, <3>1, <3>3, GoesKeeps DEF WaitReturns
    <3> QED  BY <3>2, <3>3
  <2>2. CASE CloseReturns(w)  BY <2>2, GoesKeeps DEF CloseReturns, Users
  <2>3. CASE WaitCancelled(w)
    <3>1. of[w] \in Streams /\ of' = [of EXCEPT ![w] = of[w]] /\ w \in Users /\ w \notin Readers
      BY <2>3, ConsumerAssumption DEF WaitCancelled, StreamsInv, PlacesInv, ConsumerTypeOK, Users
    <3> QED  BY <2>3, <3>1, CloseKeeps DEF WaitCancelled, Goes
  <2>4. ASSUME NEW s \in Streams, Wait(w, s) \/ Close(w, s)
        PROVE  StreamsInv'
    <3>1. w \in Users /\ w \notin Readers  BY ConsumerAssumption DEF Users
    <3> QED  BY <2>4, <3>1, WaitKeeps, CloseKeeps DEF Close, Goes
  <2> QED  BY <1>4, <2>1, <2>2, <2>3, <2>4 DEF WaiterStep, WaiterChooses
<1>5. CASE Reconfigure \/ Time  BY <1>0, <1>5 DEF Reconfigure, Time
<1> QED  BY <1>1, <1>2, <1>3, <1>4, <1>5 DEF Next

LEMMA StreamsAlways == Spec => []StreamsInv
<1>1. Init => StreamsInv  BY StreamsInit DEF Init
<1>2. StreamsInv /\ [Next]_vars => StreamsInv'  BY StreamsNext
<1> QED  BY <1>1, <1>2, PTL DEF Spec

-----------------------------------------------------------------------------
(* Theorems *)

LEMMA OrderedNumbers ==
  ASSUME NEW g \in Seq(Int), InOrder(g)
  PROVE  g = Numbers(Len(g))
<1>1. Len(g) \in Nat /\ DOMAIN g = 1 .. Len(g) /\ g \in [1 .. Len(g) -> Int]
  BY LenProperties
<1> QED  BY <1>1 DEF InOrder, Numbers

\* A reader gets the messages in order, none twice and none missing, whenever it subscribes
\* and whatever happens to the stream; when its loop ends it has all of them.
THEOREM ReadersGetAll == Spec => []ReadersReplay
<1>1. ASSUME StreamsInv  PROVE ReadersReplay
  <2>1. ASSUME NEW x \in Readers, of[x] # NoStream
        PROVE  /\ got[x] = Numbers(Len(got[x]))
               /\ Len(got[x]) <= history[of[x]]
               /\ at[x] = "ended" => Len(got[x]) = history[of[x]]
    <3>1. got[x] \in Seq(Int)  BY <1>1, QueueTypes DEF StreamsInv
    <3>2. got[x] = Numbers(Len(got[x]))
      BY <1>1, <3>1, OrderedNumbers DEF StreamsInv, ReadersInv
    <3> QED  BY <1>1, <2>1, <3>2 DEF StreamsInv, ReadersInv
  <2> QED  BY <2>1 DEF ReadersReplay
<1> QED  BY <1>1, StreamsAlways, PTL

\* Who gets an output without an error gets a whole one, or one that was closed; nobody is
\* given the part that a failed generator sent as if it were the output.
THEOREM OutputsAreHonest == Spec => []EndsHonestly
<1>1. ASSUME StreamsInv  PROVE EndsHonestly
  <2>1. ASSUME NEW u \in Readers \cup Waiters, at[u] = "ended"
        PROVE  source[of[u]] = "ended" \/ (closed[of[u]] /\ source[of[u]] # "failed")
    <3>1. of[u] \in Streams /\ done[of[u]] /\ source[of[u]] # "failed"
      BY <1>1, <2>1 DEF StreamsInv, PlacesInv
    <3>2. source[of[u]] \in {"ended", "closed"}
      BY <1>1, <3>1 DEF StreamsInv, StreamInv, ConsumerTypeOK
    <3> QED  BY <1>1, <3>1, <3>2 DEF StreamsInv, StreamInv
  <2> QED  BY <2>1 DEF EndsHonestly
<1> QED  BY <1>1, StreamsAlways, PTL


\* Streams and slots together: whatever the streams do, every variable of both keeps its
\* type, so no request is in two places, no permit count goes below zero and no queue holds
\* anything but messages and the end (slot, _consume).
THEOREM RequestTypes == Spec => []TypeOK
<1>1. SlotInv /\ StreamsInv => TypeOK  BY DEF SlotInv, StreamsInv, TypeOK
<1> QED  BY <1>1, SlotAlways, StreamsAlways, PTL

\* The streams use the slots only as the scheduler lets them: what RequestScheduler says of
\* one provider is true of every request of the program (_scheduler_slot, slot).
THEOREM StreamsKeepToScheduler == Spec => SchedulerSpec
<1>1. Init => SchedulerInit  BY DEF Init
<1> QED  BY <1>1, ComposedStep, PTL DEF Spec, SchedulerSpec
=============================================================================
