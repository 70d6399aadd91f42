-------------------------- MODULE RequestScheduler --------------------------
(***************************************************************************)
(* The scheduler of model requests: utils/RequestScheduler.py, for one     *)
(* provider and one event loop, and the call of it that opens every model  *)
(* request (ModelRequestRunner._scheduler_slot).  A request passes the     *)
(* token bucket, then the semaphore, and keeps its permit until its        *)
(* response has ended.  configure() drops the cached semaphore and bucket; *)
(* who waits for one of them or holds it keeps its own reference, so both  *)
(* are named here after the request that made them.                        *)
(***************************************************************************)
EXTENDS Integers, FiniteSets

CONSTANTS
    Requests,       \* the model requests of the program, one slot each
    Limits,         \* values max_concurrency is configured with; 0 is None
    Interval,       \* 1 / rate_per_second in ticks; 0 without a rate limit
    PerRequest,     \* is the provider configured from the settings, by every request?
    Nothing,        \* no semaphore, no bucket
    MaxConfigures,  \* bound: calls of configure() once requests run
    MaxTime         \* bound: ticks while nobody waits for the clock

ASSUME SchedulerAssumption ==
    /\ IsFiniteSet(Requests)
    /\ Nothing \notin Requests
    /\ Limits \subseteq Nat
    /\ {Interval, MaxConfigures, MaxTime} \subseteq Nat
    /\ PerRequest \in BOOLEAN

VARIABLES
    limit,         \* max_concurrency of _configs[provider]
    configures,    \* calls counted by MaxConfigures
    semaphore,     \* semaphores[provider]
    bucket,        \* buckets[provider]
    permits,       \* free permits of each semaphore
    nextAllowed,   \* _next_allowed_at of each bucket
    bucketLock,    \* who holds the _lock of each bucket
    slot,          \* where each request is in slot()
    seen,          \* the max_concurrency each request has read
    mySemaphore,   \* the semaphore each request waits for or holds
    myBucket,      \* the bucket each request passes
    wakeAt,        \* until when each request sleeps in acquire()
    tokenAt,       \* history: when each request got its token, or -1
    overtaken,     \* history: did a configure() overtake a request at the bucket?
    now            \* time.monotonic()

schedulerVars == <<limit, configures, semaphore, bucket, permits, nextAllowed, bucketLock, slot,
                   seen, mySemaphore, myBucket, wakeAt, tokenAt, overtaken, now>>

Slots == {"idle", "bucket", "sleeping", "semaphore", "inFlight", "done"}

InFlight == {r \in Requests : slot[r] = "inFlight"}

SchedulerTypeOK ==
    /\ limit \in Limits
    /\ configures \in 0 .. MaxConfigures
    /\ {semaphore, bucket} \subseteq Requests \cup {Nothing}
    /\ permits \in [Requests -> Nat]
    /\ nextAllowed \in [Requests -> Nat]
    /\ bucketLock \in [Requests -> Requests \cup {Nothing}]
    /\ slot \in [Requests -> Slots]
    /\ seen \in [Requests -> Nat]
    /\ mySemaphore \in [Requests -> Requests \cup {Nothing}]
    /\ myBucket \in [Requests -> Requests \cup {Nothing}]
    /\ wakeAt \in [Requests -> Nat]
    /\ tokenAt \in [Requests -> Nat \cup {-1}]
    /\ overtaken \in BOOLEAN
    /\ now \in Nat

SchedulerInit ==
    /\ limit \in Limits /\ configures = 0
    /\ semaphore = Nothing /\ bucket = Nothing
    /\ permits = [r \in Requests |-> 0]
    /\ nextAllowed = [r \in Requests |-> 0]
    /\ bucketLock = [r \in Requests |-> Nothing]
    /\ slot = [r \in Requests |-> "idle"]
    /\ seen = [r \in Requests |-> 0]
    /\ mySemaphore = [r \in Requests |-> Nothing]
    /\ myBucket = [r \in Requests |-> Nothing]
    /\ wakeAt = [r \in Requests |-> 0]
    /\ tokenAt = [r \in Requests |-> -1]
    /\ overtaken = FALSE
    /\ now = 0

-----------------------------------------------------------------------------
Moves(r, where) == slot' = [slot EXCEPT ![r] = where]

\* Is the slot more than a no-op?
Limited == limit > 0 \/ Interval > 0

\* configure_from_settings leaves a provider without limits alone.
Reconfigures == PerRequest /\ Limited

\* What a request finds cached after the configuration it begins with.
Cached(primitive) == IF Reconfigures THEN Nothing ELSE primitive

\* The semaphore is asked for: made if there is none, with the limit read at the start.
ToSemaphore(r, found, max) ==
    IF max = 0
      THEN /\ Moves(r, "inFlight")
           /\ semaphore' = found
           /\ UNCHANGED <<permits, mySemaphore>>
      ELSE LET s == IF found = Nothing THEN r ELSE found IN
           /\ Moves(r, "semaphore")
           /\ semaphore' = s
           /\ mySemaphore' = [mySemaphore EXCEPT ![r] = s]
           /\ permits' = IF found = Nothing THEN [permits EXCEPT ![r] = max] ELSE permits

\* _scheduler_slot and slot() up to its first await.
Issue(r) ==
    /\ slot[r] = "idle"
    /\ seen' = [seen EXCEPT ![r] = limit]
    /\ IF Interval = 0
         THEN /\ ToSemaphore(r, Cached(semaphore), limit)
              /\ bucket' = Cached(bucket)
              /\ UNCHANGED myBucket
         ELSE LET b == IF Cached(bucket) = Nothing THEN r ELSE bucket IN
              /\ Moves(r, "bucket")
              /\ semaphore' = Cached(semaphore)
              /\ bucket' = b
              /\ myBucket' = [myBucket EXCEPT ![r] = b]
              /\ UNCHANGED <<permits, mySemaphore>>
    /\ UNCHANGED <<limit, configures, nextAllowed, bucketLock, wakeAt, tokenAt,
                   overtaken, now>>

\* Mutant of TakeBucket: the bucket does without its lock.
TakeBucketUnlocked(r) ==
    /\ slot[r] = "bucket"
    /\ bucketLock' = [bucketLock EXCEPT ![myBucket[r]] = r]
    /\ Moves(r, "sleeping")
    /\ wakeAt' = [wakeAt EXCEPT ![r] = nextAllowed[myBucket[r]]]
    /\ UNCHANGED <<limit, configures, semaphore, bucket, permits, nextAllowed, seen, mySemaphore,
                   myBucket, tokenAt, overtaken, now>>

TakeBucket(r) ==
    /\ slot[r] = "bucket" /\ bucketLock[myBucket[r]] = Nothing
    /\ bucketLock' = [bucketLock EXCEPT ![myBucket[r]] = r]
    /\ Moves(r, "sleeping")
    /\ wakeAt' = [wakeAt EXCEPT ![r] = nextAllowed[myBucket[r]]]
    /\ UNCHANGED <<limit, configures, semaphore, bucket, permits, nextAllowed, seen, mySemaphore,
                   myBucket, tokenAt, overtaken, now>>

Later(t, u) == IF t > u THEN t ELSE u

\* The token: the lock is given back and the semaphore asked for, without an await.
PassBucket(r) ==
    /\ slot[r] = "sleeping" /\ now >= wakeAt[r]
    /\ nextAllowed' = [nextAllowed EXCEPT ![myBucket[r]] = Later(now, @) + Interval]
    /\ bucketLock' = [bucketLock EXCEPT ![myBucket[r]] = Nothing]
    /\ tokenAt' = [tokenAt EXCEPT ![r] = now]
    /\ ToSemaphore(r, semaphore, seen[r])
    /\ UNCHANGED <<limit, configures, bucket, seen, myBucket, wakeAt, overtaken, now>>

\* Mutant of Enter: a request does not wait for a permit.
EnterAtOnce(r) ==
    /\ slot[r] = "semaphore"
    /\ permits' = [permits EXCEPT ![mySemaphore[r]] = @ - 1]
    /\ Moves(r, "inFlight")
    /\ UNCHANGED <<limit, configures, semaphore, bucket, nextAllowed, bucketLock, seen, mySemaphore,
                   myBucket, wakeAt, tokenAt, overtaken, now>>

Enter(r) ==
    /\ slot[r] = "semaphore" /\ permits[mySemaphore[r]] > 0
    /\ permits' = [permits EXCEPT ![mySemaphore[r]] = @ - 1]
    /\ Moves(r, "inFlight")
    /\ UNCHANGED <<limit, configures, semaphore, bucket, nextAllowed, bucketLock, seen, mySemaphore,
                   myBucket, wakeAt, tokenAt, overtaken, now>>

\* Mutant of GivesBackPermit: a cancelled request also returns the permit it waits for.
GivesBackAnyPermit(r) ==
    IF slot[r] \in {"semaphore", "inFlight"} /\ mySemaphore[r] # Nothing
      THEN permits' = [permits EXCEPT ![mySemaphore[r]] = @ + 1]
      ELSE UNCHANGED permits

\* What a request that leaves its slot, or is cancelled on the way, gives back.
GivesBackPermit(r) ==
    IF slot[r] = "inFlight" /\ mySemaphore[r] # Nothing
      THEN permits' = [permits EXCEPT ![mySemaphore[r]] = @ + 1]
      ELSE UNCHANGED permits

\* The end of the response, or a cancellation at any await of the slot.
Leave(r) ==
    /\ slot[r] \notin {"idle", "done"}
    /\ GivesBackPermit(r)
    /\ bucketLock' = IF slot[r] = "sleeping" THEN [bucketLock EXCEPT ![myBucket[r]] = Nothing]
                     ELSE bucketLock
    /\ Moves(r, "done")
    /\ UNCHANGED <<limit, configures, semaphore, bucket, nextAllowed, seen, mySemaphore, myBucket,
                   wakeAt, tokenAt, overtaken, now>>

\* Mutant of ClearCachedPrimitives: configure() leaves the semaphore in place.
KeepSemaphore == UNCHANGED semaphore /\ bucket' = Nothing

ClearCachedPrimitives == semaphore' = Nothing /\ bucket' = Nothing

Configure(n) ==
    /\ configures < MaxConfigures
    /\ configures' = configures + 1
    /\ limit' = n
    /\ ClearCachedPrimitives
    /\ overtaken' = (overtaken \/ \E r \in Requests : slot[r] \in {"bucket", "sleeping"})
    /\ UNCHANGED <<permits, nextAllowed, bucketLock, slot, seen, mySemaphore, myBucket, wakeAt,
                   tokenAt, now>>

Tick ==
    /\ \/ now < MaxTime
       \/ \E r \in Requests : slot[r] = "sleeping" /\ now < wakeAt[r]
    /\ now' = now + 1
    /\ UNCHANGED <<limit, configures, semaphore, bucket, permits, nextAllowed, bucketLock, slot,
                   seen, mySemaphore, myBucket, wakeAt, tokenAt, overtaken>>

SchedulerStep(r) == TakeBucket(r) \/ PassBucket(r) \/ Enter(r)

SchedulerNext ==
    \/ \E r \in Requests : Issue(r) \/ SchedulerStep(r) \/ Leave(r)
    \/ \E n \in Limits : Configure(n)
    \/ Tick

SchedulerSpec == SchedulerInit /\ [][SchedulerNext]_schedulerVars

-----------------------------------------------------------------------------
(* Properties *)

\* The permits of a semaphore and the requests in flight that hold one add up to the
\* limit it was made with, through cancellations and reconfigurations (slot).
PermitsAddUp ==
    \A s \in Requests :
        mySemaphore[s] = s =>
            permits[s] + Cardinality({r \in InFlight : mySemaphore[r] = s}) = seen[s]

\* Requests in flight never exceed max_concurrency, as long as the limit is the one the
\* program set before its requests (configure, slot).
LimitKept == configures = 0 /\ limit > 0 => Cardinality(InFlight) <= limit

\* Two tokens of one bucket are an interval apart, whoever was cancelled while it slept
\* with the lock (_TokenBucket.acquire).
TokensSpaced ==
    \A q, r \in Requests :
        q # r /\ tokenAt[q] >= 0 /\ tokenAt[r] >= tokenAt[q] /\ myBucket[q] = myBucket[r]
            => tokenAt[r] >= tokenAt[q] + Interval

\* The semaphore new requests find was made with the configured limit, unless a
\* configure() overtook a request that had read the old one and waited at the bucket
\* (configure, _clear_cached_primitives, slot).
RebuiltLimit == semaphore # Nothing /\ ~overtaken => seen[semaphore] = limit
=============================================================================
