------------------------- MODULE ExecutionResources -------------------------
(***************************************************************************)
(* The managed resources of operation/ExecutionResource and the coroutines *)
(* that use them: action calls (ActionDispatcher), which ensure what their *)
(* action needs and release it when it has run, the starts of TriggerFlow  *)
(* executions, which ensure theirs, and the releasers: closes of those     *)
(* executions, and release_scope.  No operation holds a lock over its      *)
(* awaits; an action is the code from one await to the next.               *)
(***************************************************************************)
EXTENDS Integers, FiniteSets

CONSTANTS
    Keys,         \* reuse keys
    SessionKeys,  \* those an action call requires with the scope of its session
    Actions,      \* action calls
    Executions,   \* starts of executions
    Closers,      \* closes of executions
    Scopes,       \* calls of release_scope for the session
    Needs,        \* the keys each action and execution requires
    ClosedBy,     \* the execution each closer closes
    None,         \* no handle, no key
    MaxHandles,   \* bound: handles ever made
    MaxFaults,    \* bound: failures and bad health of providers
    MaxCancels    \* bound: cancelled coroutines

Handles == 1 .. MaxHandles
Users == Actions \cup Executions
Tasks == Users \cup Closers \cup Scopes

ASSUME ResourcesAssumption ==
    /\ SessionKeys \subseteq Keys
    /\ Needs \in [Users -> SUBSET Keys]
    /\ ClosedBy \in [Closers -> Executions]
    /\ None \notin Keys \cup Handles
    /\ Actions \cap Executions = {} /\ Users \cap (Closers \cup Scopes) = {}
    /\ Closers \cap Scopes = {}
    /\ {MaxHandles, MaxFaults, MaxCancels} \subseteq Nat

VARIABLES
    count,    \* handles made so far: they are numbered
    keyOf,    \* the reuse key of each handle
    scopeOf,  \* its scope: the one that whoever made it asked for
    status,   \* its status, "none" before it is made
    refs,     \* its ref_count
    table,    \* _handles
    reuse,    \* _handles_by_reuse_key
    up,       \* does the provider's resource exist?
    pc,       \* the await each task is in
    key,      \* the requirement a user is ensuring
    mine,     \* the handle a task checks or releases
    held,     \* ensured_handles, _managed_execution_resource_handles, targets
    left,     \* the requirements a user has not ensured yet
    faults, cancels,
    excused,  \* history: handles taken from their holders, or handed out too late
    kept      \* history: handles that the finally of an action call passed over

handleVars == <<count, keyOf, scopeOf, status, refs, table, reuse, up>>
taskVars == <<pc, key, mine, held, left>>
vars == <<handleVars, taskVars, faults, cancels, excused, kept>>

ScopeNames == {"action_call", "execution", "session"}

Statuses == {"none", "ready", "unhealthy", "releasing", "failed", "released"}
Places == {"idle", "asking", "checking", "unhealthy", "dropping", "ensuring", "announcing",
           "using", "returning", "releasing", "done"}

TypeOK ==
    /\ count \in 0 .. MaxHandles
    /\ keyOf \in [Handles -> Keys \cup {None}]
    /\ scopeOf \in [Handles -> ScopeNames]
    /\ status \in [Handles -> Statuses]
    /\ refs \in [Handles -> Nat]
    /\ table \subseteq 1 .. count
    /\ reuse \in [Keys -> Handles \cup {None}]
    /\ up \subseteq 1 .. count
    /\ pc \in [Tasks -> Places]
    /\ key \in [Tasks -> Keys \cup {None}]
    /\ mine \in [Tasks -> Handles \cup {None}]
    /\ held \in [Tasks -> SUBSET Handles]
    /\ left \in [Tasks -> SUBSET Keys]
    /\ faults \in 0 .. MaxFaults /\ cancels \in 0 .. MaxCancels
    /\ excused \subseteq Handles /\ kept \subseteq Handles

Init ==
    /\ count = 0
    /\ keyOf = [h \in Handles |-> None]
    /\ scopeOf = [h \in Handles |-> "action_call"]
    /\ status = [h \in Handles |-> "none"]
    /\ refs = [h \in Handles |-> 0]
    /\ table = {} /\ up = {} /\ excused = {} /\ kept = {}
    /\ reuse = [k \in Keys |-> None]
    /\ pc = [t \in Tasks |-> "idle"]
    /\ key = [t \in Tasks |-> None]
    /\ mine = [t \in Tasks |-> None]
    /\ held = [t \in Tasks |-> {}]
    /\ left = [t \in Tasks |-> IF t \in Users THEN Needs[t] ELSE {}]
    /\ faults = 0 /\ cancels = 0

-----------------------------------------------------------------------------
Goes(t, place) == pc' = [pc EXCEPT ![t] = place]

Fault == faults < MaxFaults /\ faults' = faults + 1

\* Mutant of EnsureRaises: what the call had ensured before is left behind.
EnsureRaisesAtOnce(t) == Goes(t, "done")

\* What an ensure that raises does to its caller: an action call releases what it has,
\* a start leaves it to the close.
EnsureRaises(t) == Goes(t, IF t \in Actions THEN "returning" ELSE "done")

\* What a release that raises does: an action call goes on with the next handle, a close
\* and a release_scope end.
ReleaseRaises(t) == Goes(t, IF t \in Actions THEN "returning" ELSE "done")

-----------------------------------------------------------------------------
(* async_ensure *)

\* The next requirement: normalised, and its policy and provider resolved.
Ask(t) ==
    /\ pc[t] = "idle" /\ left[t] # {}
    /\ \E k \in left[t] :
           /\ key' = [key EXCEPT ![t] = k]
           /\ left' = [left EXCEPT ![t] = @ \ {k}]
    /\ Goes(t, "asking")
    /\ UNCHANGED <<handleVars, mine, held, faults, cancels, excused, kept>>

\* The policy is not approved or no provider is eligible.
Denied(t) ==
    /\ pc[t] = "asking" /\ Fault
    /\ EnsureRaises(t)
    /\ UNCHANGED <<handleVars, key, mine, held, left, cancels, excused, kept>>

\* The handle is about to be released; who holds it is not asked (force).
Drop(t, h) ==
    /\ status' = [status EXCEPT ![h] = "releasing"]
    /\ mine' = [mine EXCEPT ![t] = h]
    /\ excused' = excused \cup {h}
    /\ Goes(t, "dropping")

LookUp(t) ==
    /\ pc[t] = "asking"
    /\ LET h == reuse[key[t]] IN
           IF h = None \/ h \notin table
             THEN Goes(t, "ensuring") /\ UNCHANGED <<status, mine, excused>>
           ELSE IF status[h] = "ready"
             THEN /\ Goes(t, "checking")
                  /\ mine' = [mine EXCEPT ![t] = h]
                  /\ UNCHANGED <<status, excused>>
           ELSE Drop(t, h)
    /\ UNCHANGED <<count, keyOf, scopeOf, refs, table, reuse, up, key, held, left, faults, cancels, kept>>

\* The caller has its handle.
Receive(t, h) ==
    /\ held' = [held EXCEPT ![t] = @ \cup {h}]
    /\ Goes(t, IF left[t] # {} THEN "idle" ELSE IF t \in Actions THEN "using" ELSE "done")

\* Mutant of Share: reuse does not count.
ShareUncounted(t, h) == UNCHANGED refs

\* Mutant of Share: reuse counts the wrong way.
ShareDownwards(t, h) == refs' = [refs EXCEPT ![h] = @ - 1]

Share(t, h) == refs' = [refs EXCEPT ![h] = @ + 1]

\* The health check of a handle that may have been released since it began.
Healthy(t) ==
    /\ pc[t] = "checking"
    /\ Share(t, mine[t])
    /\ Receive(t, mine[t])
    /\ excused' = IF status[mine[t]] = "ready" THEN excused ELSE excused \cup {mine[t]}
    /\ UNCHANGED <<count, keyOf, scopeOf, status, table, reuse, up, key, mine, left, faults, cancels, kept>>

Unhealthy(t) ==
    /\ pc[t] = "checking" /\ Fault
    /\ status' = [status EXCEPT ![mine[t]] = "unhealthy"]
    /\ excused' = excused \cup {mine[t]}
    /\ Goes(t, "unhealthy")
    /\ UNCHANGED <<count, keyOf, scopeOf, refs, table, reuse, up, key, mine, held, left, cancels, kept>>

DropUnhealthy(t) ==
    /\ pc[t] = "unhealthy"
    /\ IF mine[t] \in table
         THEN Drop(t, mine[t])
         ELSE Goes(t, "ensuring") /\ UNCHANGED <<status, mine, excused>>
    /\ UNCHANGED <<count, keyOf, scopeOf, refs, table, reuse, up, key, held, left, faults, cancels, kept>>

\* The scope that t asks for with the key k: a start always asks for its execution's.
ScopeFor(t, k) ==
    IF t \in Executions THEN "execution"
    ELSE IF k \in SessionKeys THEN "session" ELSE "action_call"

Create(t) ==
    /\ pc[t] = "ensuring" /\ count < MaxHandles
    /\ LET h == count + 1 IN
           /\ count' = h
           /\ keyOf' = [keyOf EXCEPT ![h] = key[t]]
           /\ scopeOf' = [scopeOf EXCEPT ![h] = ScopeFor(t, key[t])]
           /\ status' = [status EXCEPT ![h] = "ready"]
           /\ refs' = [refs EXCEPT ![h] = 1]
           /\ table' = table \cup {h} /\ up' = up \cup {h}
           /\ reuse' = [reuse EXCEPT ![key[t]] = h]
           /\ mine' = [mine EXCEPT ![t] = h]
    /\ Goes(t, "announcing")
    /\ UNCHANGED <<key, held, left, faults, cancels, excused, kept>>

CreateFails(t) ==
    /\ pc[t] = "ensuring" /\ Fault
    /\ EnsureRaises(t)
    /\ UNCHANGED <<handleVars, key, mine, held, left, cancels, excused, kept>>

Announced(t) ==
    /\ pc[t] = "announcing"
    /\ Receive(t, mine[t])
    /\ UNCHANGED <<handleVars, key, mine, left, faults, cancels, excused, kept>>

-----------------------------------------------------------------------------
(* _async_release_handle *)

\* Mutant of Forget: the key is taken away from whoever has it by now.
ForgetWhoeverHasKey(h) ==
    /\ table' = table \ {h}
    /\ reuse' = [reuse EXCEPT ![keyOf[h]] = None]

\* The handle leaves the manager; its key may belong to a newer one by now.
Forget(h) ==
    /\ table' = table \ {h}
    /\ reuse' = [k \in Keys |-> IF k = keyOf[h] /\ reuse[k] = h THEN None ELSE reuse[k]]

\* The provider has released the resource.  Whoever comes second to the deletion of one
\* handle raises its KeyError.
Released(t) ==
    /\ pc[t] \in {"dropping", "releasing"}
    /\ status' = [status EXCEPT ![mine[t]] = "released"]
    /\ up' = up \ {mine[t]}
    /\ Forget(mine[t])
    /\ IF mine[t] \notin table
         THEN IF pc[t] = "dropping" THEN EnsureRaises(t) ELSE ReleaseRaises(t)
         ELSE Goes(t, IF pc[t] = "dropping" THEN "ensuring" ELSE "returning")
    /\ UNCHANGED <<count, keyOf, scopeOf, refs, key, mine, held, left, faults, cancels, excused, kept>>

\* The manager keeps what it could not release.
ReleaseFails(t) ==
    /\ pc[t] \in {"dropping", "releasing"} /\ Fault
    /\ status' = [status EXCEPT ![mine[t]] = "failed"]
    /\ IF pc[t] = "dropping" THEN EnsureRaises(t) ELSE ReleaseRaises(t)
    /\ UNCHANGED <<count, keyOf, scopeOf, refs, table, reuse, up, key, mine, held, left, cancels, excused, kept>>

\* Mutant of LastReference: off by one.
LastOrSecondLast(h) == refs[h] <= 2

LastReference(h) == refs[h] <= 1

\* async_release of one of the handles the task has.
Release(t, h) ==
    /\ pc[t] = "returning" /\ h \in held[t]
    /\ held' = [held EXCEPT ![t] = @ \ {h}]
    /\ IF h \notin table
         THEN UNCHANGED <<status, refs, pc, mine>>
       ELSE IF ~LastReference(h)
         THEN /\ refs' = [refs EXCEPT ![h] = @ - 1]
              /\ UNCHANGED <<status, pc, mine>>
       ELSE /\ status' = [status EXCEPT ![h] = "releasing"]
            /\ mine' = [mine EXCEPT ![t] = h]
            /\ Goes(t, "releasing")
            /\ UNCHANGED refs
    /\ excused' = IF t \in Scopes THEN excused \cup {h} ELSE excused
    /\ UNCHANGED <<count, keyOf, scopeOf, table, reuse, up, key, left, faults, cancels, kept>>

AllReturned(t) ==
    /\ pc[t] = "returning" /\ held[t] = {}
    /\ Goes(t, "done")
    /\ UNCHANGED <<handleVars, key, mine, held, left, faults, cancels, excused, kept>>

-----------------------------------------------------------------------------
(* Who releases *)

\* The finally of an action call, which ran, failed, timed out or was cancelled: it
\* releases the handles whose own scope is "action_call", and passes over those that were
\* made for a session, or for an execution that it shared one with.
Finish(t) ==
    /\ pc[t] = "using"
    /\ held' = [held EXCEPT ![t] = {h \in @ : scopeOf[h] = "action_call"}]
    /\ kept' = kept \cup {h \in held[t] : scopeOf[h] # "action_call"}
    /\ Goes(t, "returning")
    /\ UNCHANGED <<handleVars, key, mine, left, faults, cancels, excused>>

\* _release_managed_execution_resources takes the list of the execution.
Close(t) ==
    /\ pc[t] = "idle"
    /\ held' = [held EXCEPT ![t] = held[ClosedBy[t]], ![ClosedBy[t]] = {}]
    /\ Goes(t, "returning")
    /\ UNCHANGED <<handleVars, key, mine, left, faults, cancels, excused, kept>>

ReleaseScope(t) ==
    /\ pc[t] = "idle"
    /\ held' = [held EXCEPT ![t] = {h \in table : scopeOf[h] = "session"}]
    /\ Goes(t, "returning")
    /\ UNCHANGED <<handleVars, key, mine, left, faults, cancels, excused, kept>>

\* A task is cancelled in one of its awaits: only what runs has a finally.  A provider that
\* was releasing may or may not have done it.
Cancel(t) ==
    /\ pc[t] \notin {"idle", "using", "returning", "done"} /\ cancels < MaxCancels
    /\ cancels' = cancels + 1
    /\ Goes(t, "done")
    /\ up' \in IF pc[t] \in {"dropping", "releasing"} THEN {up, up \ {mine[t]}} ELSE {up}
    /\ UNCHANGED <<count, keyOf, scopeOf, status, refs, table, reuse, key, mine, held, left, faults, excused, kept>>

Step(t) ==
    \/ LookUp(t) \/ Healthy(t) \/ DropUnhealthy(t) \/ Create(t) \/ Announced(t)
    \/ Released(t) \/ (\E h \in Handles : Release(t, h)) \/ AllReturned(t)

Next ==
    \/ \E t \in Tasks :
           \/ Step(t) \/ Unhealthy(t) \/ CreateFails(t) \/ Denied(t) \/ ReleaseFails(t) \/ Cancel(t)
    \/ \E t \in Users : Ask(t)
    \/ \E t \in Actions : Finish(t)
    \/ \E t \in Closers : Close(t)
    \/ \E t \in Scopes : ReleaseScope(t)

Spec == Init /\ [][Next]_vars

-----------------------------------------------------------------------------
(* Properties *)

\* The reuse table names a handle of the manager that is of its key, and the last handle
\* that was made for a key can be reused while it is ready: a release that ends late
\* does not take the key from the handle that replaced its own (_async_release_handle).
ReuseCurrent ==
    /\ \A k \in Keys : reuse[k] # None => reuse[k] \in table /\ keyOf[reuse[k]] = k
    /\ \A h \in table :
           status[h] = "ready" /\ (\A g \in 1 .. count : keyOf[g] = keyOf[h] => g <= h)
               => reuse[keyOf[h]] = h

\* The users who have a handle, or are about to get it.
HasOrGets(h) ==
    {t \in Users : h \in held[t] \/ (pc[t] = "announcing" /\ mine[t] = h)}

\* A ready handle counts every user it was given to, until its scope is released
\* (async_ensure, async_release, async_release_scope).
CountsHolders ==
    \A h \in table \ excused : status[h] = "ready" => refs[h] >= Cardinality(HasOrGets(h))

\* Nobody's resource is released under him by an ordinary release: only by force, by
\* the end of its scope, or because it was given to him when its release had begun.
HeldIsReady ==
    \A t \in Users : \A h \in held[t] \ excused : h \in table /\ status[h] = "ready"

\* When all calls are over and none was cancelled, a resource is left only where a release
\* failed and the manager still has it, where its scope goes on, where the finally of an
\* action call passed over a handle that was not made for an action call, where a close
\* had taken the list of its execution before the start put it there, or where a
\* close raised at another handle of the list.
NothingLeft ==
    (\A t \in Tasks : pc[t] = "done") /\ cancels = 0 =>
        \A h \in up : \/ status[h] = "failed" /\ h \in table
                      \/ scopeOf[h] = "session"
                      \/ h \in kept
                      \/ \E t \in Executions \cup Closers : h \in held[t]
=============================================================================
