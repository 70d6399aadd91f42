-------------------------- MODULE ExecutionExchange --------------------------
(***************************************************************************)
(* The live waits of ExecutionExchange and the two sides that use them: the *)
(* run of an action loop (TriggerFlowActionFlow), which waits for an answer *)
(* or ends paused, and hosts, which answer, abandon or close its execution  *)
(* from other tasks and other event loops.                                  *)
(*                                                                         *)
(* The loop opens one wait after another: the answer to a wait runs the     *)
(* rest of the loop inside async_continue_with, and that run opens the next *)
(* wait, ends the loop or fails.  continue_with and async_close are here    *)
(* with the steps that the live waits can tell apart; TriggerFlowInterrupts *)
(* and TriggerFlowLifecycle have all of them.                               *)
(***************************************************************************)
EXTENDS Naturals, FiniteSets, FiniteSetsExt

CONSTANTS
    Hosts,    \* tasks that call the exchange, one call at a time
    Driver,   \* the task that runs the action loop
    Requests, \* the resume request ids of the hosts
    MaxWaits, \* bound: approvals the loop asks for
    MaxCalls, \* bound: calls of all hosts together
    Modes,    \* what the waits may ask for: see mode
    None      \* no request, no entry

ASSUME ExchangeAssumption ==
    /\ IsFiniteSet(Hosts) /\ Driver \notin Hosts
    /\ MaxWaits \in Nat /\ MaxCalls \in Nat
    /\ Modes \subseteq {"denied", "connected", "handover", "disconnected"}

VARIABLES
    wait,      \* the status of each interrupt
    claim,     \* the request that has claimed it
    known,     \* the requests in its ledger
    mode,      \* of all its waits: "denied" at once, for want of a provider or by the
               \* cold policy; a hot wait and then a denial ("connected") or the end of
               \* the run ("handover"); or the end of the run at once ("disconnected")
    awaits,    \* does the provider have an await_response?
    lifecycle, \* of the execution
    live,      \* _live_waits: the entry of each wait; both its keys name the same one
    woken,     \* is the event of the entry the driver waits for set?
    watching,  \* does a _watch_live_execution wait for the close?
    released,  \* standalone_scope_released
    pc, at, entry, request, call, \* of each task: its step, wait, entry, request, call
    todo,      \* the pending waits build_exchange_paused_records has read
    calls,     \* calls of hosts so far
    history    \* what happened that the promises of the exchange do not survive

interruptVars == <<wait, claim, known>>
setup == <<mode, awaits>>
entryVars == <<live, woken, watching, released>>
vars == <<interruptVars, setup, lifecycle, entryVars, pc, at, entry, request, call, todo, calls, history>>

Tasks == Hosts \cup {Driver}
Waits == 1 .. MaxWaits
Entries == [wait : Waits, nr : 0 .. Cardinality(Tasks), hooks : BOOLEAN]

ASSUME NoneAssumption == None \notin Requests \cup {Driver} \cup Entries

Init ==
    /\ wait = [n \in Waits |-> "absent"]
    /\ claim = [n \in Waits |-> None]
    /\ known = [n \in Waits |-> {}]
    /\ mode \in Modes /\ awaits \in BOOLEAN
    /\ awaits => mode \in {"connected", "handover"}
    /\ lifecycle = "open"
    /\ live = [n \in Waits |-> None]
    /\ woken = FALSE /\ watching = FALSE /\ released = FALSE
    /\ pc = [t \in Tasks |-> IF t = Driver THEN "start" ELSE "idle"]
    /\ at = [t \in Tasks |-> 0]
    /\ entry = [t \in Tasks |-> None]
    /\ request = [t \in Tasks |-> None]
    /\ call = [t \in Tasks |-> None]
    /\ todo = {} /\ calls = 0 /\ history = {}

\* get_pending_interrupts: a claimed interrupt is still waiting.
Pending == {n \in Waits : wait[n] = "waiting"}

Goes(t, step) == pc' = [pc EXCEPT ![t] = step]

\* async_respond is under way.
Responding(h) == pc[h] # "idle" /\ call[h] = "respond"

-----------------------------------------------------------------------------
(* The live waits *)

\* A number that no task has kept of an earlier entry of n.
Fresh(n) == Min({k \in 0 .. Cardinality(Tasks) :
                    \A t \in Tasks : entry[t] = None \/ entry[t].wait # n \/ entry[t].nr # k})

NewEntry(n, hooks) == [wait |-> n, nr |-> Fresh(n), hooks |-> hooks]

\* register_live_wait, with the hooks of finalize_live_exchange_execution.
RegisterHooked(S) ==
    /\ live' = [n \in Waits |-> IF n \in S THEN NewEntry(n, TRUE) ELSE live[n]]
    /\ watching' = (watching \/ S # {})

\* Mutant of RegisterNext: the next wait is registered without its hooks.
RegisterNextBare(S) ==
    /\ live' = [n \in Waits |-> IF n \in S THEN NewEntry(n, FALSE) ELSE live[n]]
    /\ UNCHANGED watching

\* finalize_live_exchange_execution: the waits that its answer opened.
RegisterNext(S) == RegisterHooked(S)

\* Mutant of Unregistered: every wait of the execution goes.
AllUnregistered(n) == [k \in Waits |-> None]

\* unregister_live_wait: by key, whichever entry is there.
Unregistered(n) == [live EXCEPT ![n] = None]

\* Leaving async_hot_wait.
LeaveHot ==
    /\ live' = Unregistered(at[Driver])
    /\ entry' = [entry EXCEPT ![Driver] = None]
    /\ woken' = FALSE
    /\ UNCHANGED watching

-----------------------------------------------------------------------------
(* How a call of a task ends *)

\* The run ends with an error, or with its execution closed: its finally releases the scope.
DriverEnds(how) == Goes(Driver, how) /\ released' = TRUE

HostIdle(h) ==
    /\ Goes(h, "idle")
    /\ entry' = [entry EXCEPT ![h] = None]

\* continue_with raised: so does async_respond, and so does the run.
ContinueRaises(t) ==
    IF t # Driver THEN HostIdle(t) /\ UNCHANGED entryVars
    ELSE DriverEnds("failed") /\ IF entry[t] # None THEN LeaveHot
                                 ELSE UNCHANGED <<live, woken, watching, entry>>

\* continue_with returned: async_respond goes on to its hook, the run to the next wait.
ContinueReturns(t) ==
    /\ Goes(t, IF t = Driver THEN "resolving" ELSE "answered")
    /\ IF t = Driver /\ entry[t] # None THEN LeaveHot /\ UNCHANGED released
       ELSE UNCHANGED <<entryVars, entry>>

\* async_close raised.
CloseRaises(t) ==
    IF t = Driver THEN DriverEnds("failed") /\ UNCHANGED <<live, woken, watching, entry>>
    ELSE HostIdle(t) /\ UNCHANGED entryVars

\* async_close returned: finalize releases the scope and async_respond goes on,
\* async_abandon calls on_closed and forgets the execution's waits.
CloseReturns(t) ==
    \/ /\ t = Driver
       /\ DriverEnds("finished")
       /\ UNCHANGED <<live, woken, watching, entry>>
    \/ /\ t # Driver /\ call[t] = "respond"
       /\ Goes(t, "ending") /\ released' = TRUE
       /\ UNCHANGED <<live, woken, watching, entry>>
    \/ /\ t # Driver /\ call[t] = "abandon"
       /\ HostIdle(t)
       /\ released' = (released \/ entry[t].hooks)
       /\ live' = [n \in Waits |-> None]
       /\ UNCHANGED <<woken, watching>>
    \/ /\ t # Driver /\ call[t] = "close"
       /\ HostIdle(t) /\ UNCHANGED entryVars

-----------------------------------------------------------------------------
(* continue_with *)

Repeated(n, r) == claim[n] = r \/ (r \in known[n] /\ wait[n] # "waiting")

\* Is an answer to n on its way?  Its dispatch may still fail and open the wait again.
Undecided(n) ==
    wait[n] = "waiting" \/ \E t \in Tasks : at[t] = n /\ pc[t] \in {"resumed", "running", "publishing"}

\* Its part before the first await: refused, taken for a duplicate, or claimed.  An
\* answer that is ignored before its wait is decided is remembered; leaving: the hot
\* wait of the run is over.
Continue(t, n, r, leaving, noted) ==
    /\ request' = [request EXCEPT ![t] = r]
    /\ \/ /\ lifecycle # "open" \/ Repeated(n, r)
          /\ history' = history \cup noted \cup (IF Undecided(n) THEN {"ignored"} ELSE {})
          /\ ContinueReturns(t)
          /\ UNCHANGED interruptVars
       \/ /\ lifecycle = "open" /\ ~Repeated(n, r)
          /\ wait[n] # "waiting" \/ claim[n] # None
          /\ history' = history \cup noted
          /\ ContinueRaises(t)
          /\ UNCHANGED interruptVars
       \/ /\ lifecycle = "open" /\ wait[n] = "waiting" /\ claim[n] = None
          /\ claim' = [claim EXCEPT ![n] = r]
          /\ known' = [known EXCEPT ![n] = @ \cup {r}]
          /\ history' = history \cup noted
          /\ Goes(t, "claimed")
          /\ IF leaving THEN LeaveHot /\ UNCHANGED released ELSE UNCHANGED <<entryVars, entry>>
          /\ UNCHANGED wait

\* Mutant of Resume: the claim stays.
ResumeKeepsClaim(t) ==
    /\ pc[t] = "claimed"
    /\ Goes(t, "resumed")
    /\ wait' = [wait EXCEPT ![at[t]] = "resumed"]
    /\ UNCHANGED <<claim, known, setup, lifecycle, entryVars, at, entry, request, call, todo, calls, history>>

Resume(t) ==
    /\ pc[t] = "claimed"
    /\ Goes(t, "resumed")
    /\ wait' = [wait EXCEPT ![at[t]] = "resumed"]
    /\ claim' = [claim EXCEPT ![at[t]] = None]
    /\ UNCHANGED <<known, setup, lifecycle, entryVars, at, entry, request, call, todo, calls, history>>

\* The resume's signal runs the rest of the loop, unless the execution is closed.
Dispatch(t) ==
    /\ pc[t] = "resumed"
    /\ IF lifecycle = "closed" THEN ContinueReturns(t)
       ELSE Goes(t, "running") /\ UNCHANGED <<entryVars, entry>>
    /\ UNCHANGED <<interruptVars, setup, lifecycle, at, request, call, todo, calls, history>>

\* The loop asks for its next approval: the interrupt, of a new id, is stored, and its
\* request is about to be published.
RunOpens(t) ==
    /\ pc[t] = "running"
    /\ LET absent == {n \in Waits : wait[n] = "absent"}
       IN  absent # {} /\ wait' = [wait EXCEPT ![Min(absent)] = "waiting"]
    /\ Goes(t, "publishing")
    /\ UNCHANGED <<claim, known, setup, lifecycle, entryVars, at, entry, request, call, todo, calls, history>>

\* The request is published, or the loop ended without another approval: the dispatch is
\* over.
RunReturns(t) ==
    /\ pc[t] \in {"running", "publishing"}
    /\ ContinueReturns(t)
    /\ UNCHANGED <<interruptVars, setup, lifecycle, at, request, call, todo, calls, history>>

\* The dispatch raises: the wait is open again.  When it was the publication that raised,
\* the wait that the run had opened stays open beside it.
RunFails(t) ==
    /\ pc[t] \in {"running", "publishing"}
    /\ wait' = [wait EXCEPT ![at[t]] = "waiting"]
    /\ ContinueRaises(t)
    /\ UNCHANGED <<claim, known, setup, lifecycle, at, request, call, todo, calls, history>>

-----------------------------------------------------------------------------
(* async_close, without a deadline *)

Cancelled == [n \in Waits |-> IF wait[n] = "waiting" /\ claim[n] = None THEN "cancelled" ELSE wait[n]]

\* Hosts may cancel the pending waits; the run and the hook of an answer do not.
Cancels(t) == call[t] \in {"abandon", "close"}

\* The steps of a close that has its lock.
Closing == {"draining", "drained", "settled"}

\* _close_lock, the first look at the pending waits, the seal.
CloseBegins(t) ==
    /\ pc[t] = "lock"
    /\ lifecycle = "closed" \/ \A u \in Tasks : pc[u] \notin Closing
    /\ \/ lifecycle = "closed" /\ CloseReturns(t) /\ UNCHANGED <<lifecycle, wait>>
       \/ /\ lifecycle # "closed" /\ Pending # {} /\ ~Cancels(t)
          /\ CloseRaises(t) /\ UNCHANGED <<lifecycle, wait>>
       \/ /\ lifecycle # "closed" /\ (Pending = {} \/ Cancels(t))
          /\ wait' = Cancelled
          /\ lifecycle' = "sealed"
          /\ Goes(t, "draining")
          /\ UNCHANGED <<entryVars, entry>>
    /\ UNCHANGED <<claim, known, setup, at, request, call, todo, calls, history>>

\* The handlers have ended, the publication of their waits included.
DrainEnds(t) ==
    /\ pc[t] = "draining" /\ \A u \in Tasks : pc[u] \notin {"running", "publishing"}
    /\ Goes(t, "drained")
    /\ UNCHANGED <<interruptVars, setup, lifecycle, entryVars, at, entry, request, call, todo, calls, history>>

\* The second look at the pending waits.  A run that an answer of before starts only now
\* may still open one.
CloseLooks(t) ==
    /\ pc[t] = "drained"
    /\ IF Pending # {} /\ ~Cancels(t)
         THEN lifecycle' = "open" /\ CloseRaises(t) /\ UNCHANGED wait
         ELSE wait' = Cancelled /\ Goes(t, "settled") /\ UNCHANGED <<lifecycle, entryVars, entry>>
    /\ UNCHANGED <<claim, known, setup, at, request, call, todo, calls, history>>

\* The rest: the interventions expire, the snapshot is frozen, the events are emitted.
CloseEnds(t) ==
    /\ pc[t] = "settled"
    /\ lifecycle' = "closed"
    /\ CloseReturns(t)
    /\ UNCHANGED <<interruptVars, setup, at, request, call, todo, calls, history>>

\* _watch_live_execution: the close sets the event it waits for.
Watch ==
    /\ watching /\ lifecycle = "closed"
    /\ released' = TRUE /\ watching' = FALSE
    /\ live' = [n \in Waits |-> None]
    /\ UNCHANGED <<interruptVars, setup, lifecycle, woken, pc, at, entry, request, call, todo, calls, history>>

-----------------------------------------------------------------------------
(* The run of the action loop *)

DriverOnly == UNCHANGED <<request, call, calls>>

\* async_start: the loop asks for an approval, ends, or raises, the publication of the
\* approval included.
Start ==
    /\ pc[Driver] = "start"
    /\ \/ Goes(Driver, "resolving") /\ wait' = [wait EXCEPT ![1] = "waiting"] /\ UNCHANGED released
       \/ Goes(Driver, "resolving") /\ UNCHANGED <<wait, released>>
       \/ DriverEnds("failed") /\ wait' \in {wait, [wait EXCEPT ![1] = "waiting"]}
    /\ UNCHANGED <<claim, known, setup, lifecycle, live, woken, watching, at, entry, todo, history>>
    /\ DriverOnly

\* resolve_exchange_waits: the oldest pending wait, whose observers are told first.
Resolve ==
    /\ pc[Driver] = "resolving"
    /\ IF Pending = {} THEN Goes(Driver, "lock") /\ UNCHANGED at
       ELSE Goes(Driver, "notifying") /\ at' = [at EXCEPT ![Driver] = Min(Pending)]
    /\ UNCHANGED <<interruptVars, setup, lifecycle, entryVars, entry, todo, history>>
    /\ DriverOnly

\* A denial of the run itself.
Deny ==
    /\ pc[Driver] = "notifying" /\ mode = "denied"
    /\ Continue(Driver, at[Driver], Driver, FALSE, {})
    /\ UNCHANGED <<setup, lifecycle, at, call, todo, calls>>

\* async_hot_wait registers an entry without hooks and waits.
HotWait ==
    /\ pc[Driver] = "notifying" /\ mode \in {"connected", "handover"}
    /\ LET n == at[Driver]
       IN  /\ live' = [live EXCEPT ![n] = NewEntry(n, FALSE)]
           /\ entry' = [entry EXCEPT ![Driver] = NewEntry(n, FALSE)]
    /\ woken' = FALSE
    /\ Goes(Driver, "hot")
    /\ UNCHANGED <<interruptVars, setup, lifecycle, watching, released, at, todo, history>>
    /\ DriverOnly

HotResolved ==
    /\ pc[Driver] = "hot" /\ (awaits \/ woken)
    /\ wait[at[Driver]] # "waiting"
    /\ LeaveHot
    /\ Goes(Driver, "resolving")
    /\ UNCHANGED <<interruptVars, setup, lifecycle, released, at, todo, history>>
    /\ DriverOnly

\* await_response returns an answer in time.
ProviderAnswers ==
    /\ pc[Driver] = "hot" /\ awaits
    /\ wait[at[Driver]] = "waiting"
    /\ Continue(Driver, at[Driver], Driver, FALSE, {})
    /\ UNCHANGED <<setup, lifecycle, at, call, todo, calls>>

\* The run stops waiting for n although n is over, or although a host is still answering
\* a wait: the dispatch of that answer may fail later and open a wait that the run does
\* not register.
Overtaken(n) ==
    IF wait[n] # "waiting" \/ \E h \in Hosts : Responding(h) THEN {"overtaken"} ELSE {}

\* The hot wait ends without an answer: it timed out, the provider gave none, or it was
\* woken while its wait is still open.
HotOver ==
    /\ pc[Driver] = "hot"
    /\ woken /\ ~awaits => wait[at[Driver]] = "waiting"
    /\ \/ /\ mode = "handover"
          /\ LeaveHot
          /\ Goes(Driver, "pausing") /\ todo' = Pending
          /\ history' = history \cup Overtaken(at[Driver])
          /\ UNCHANGED <<interruptVars, released, request>>
       \/ /\ mode = "connected"
          /\ Continue(Driver, at[Driver], Driver, TRUE, Overtaken(at[Driver]))
          /\ UNCHANGED todo
    /\ UNCHANGED <<setup, lifecycle, at, call, calls>>

\* build_exchange_paused_records reads the pending waits, saves a snapshot, registers them.
Pause ==
    /\ pc[Driver] = "notifying" /\ mode = "disconnected"
    /\ todo' = Pending
    /\ Goes(Driver, "pausing")
    /\ history' = history \cup Overtaken(at[Driver])
    /\ UNCHANGED <<interruptVars, setup, lifecycle, entryVars, at, entry>>
    /\ DriverOnly

Paused ==
    /\ pc[Driver] = "pausing"
    /\ RegisterHooked(todo)
    /\ Goes(Driver, "paused")
    /\ UNCHANGED <<interruptVars, setup, lifecycle, woken, released, at, entry, todo, history>>
    /\ DriverOnly

-----------------------------------------------------------------------------
(* The hosts *)

\* async_respond and async_abandon find the entry on the caller's side of the loops.
LookUp(h, n, kind) ==
    /\ pc[h] = "idle" /\ calls < MaxCalls /\ live[n] # None
    /\ calls' = calls + 1
    /\ entry' = [entry EXCEPT ![h] = live[n]]
    /\ at' = [at EXCEPT ![h] = n]
    /\ call' = [call EXCEPT ![h] = kind]
    /\ Goes(h, IF kind = "respond" THEN "found" ELSE "lock")
    /\ UNCHANGED <<interruptVars, setup, lifecycle, entryVars, request, todo, history>>

\* The execution is closed by someone who has it.
DirectClose(h) ==
    /\ pc[h] = "idle" /\ calls < MaxCalls /\ wait[1] # "absent"
    /\ calls' = calls + 1
    /\ call' = [call EXCEPT ![h] = "close"]
    /\ Goes(h, "lock")
    /\ UNCHANGED <<interruptVars, setup, lifecycle, entryVars, at, entry, request, todo, history>>

Respond(h, r) ==
    /\ pc[h] = "found"
    /\ Continue(h, at[h], r, FALSE, {})
    /\ UNCHANGED <<setup, lifecycle, at, call, todo, calls>>

\* on_resolved: finalize_live_exchange_execution registers what is pending or closes.
Answered(h) ==
    /\ pc[h] = "answered"
    /\ \/ /\ entry[h].hooks /\ Pending # {}
          /\ RegisterNext(Pending)
          /\ Goes(h, "ending")
       \/ /\ entry[h].hooks /\ Pending = {}
          /\ Goes(h, "lock") /\ UNCHANGED <<live, watching>>
       \/ /\ ~entry[h].hooks
          /\ Goes(h, "ending") /\ UNCHANGED <<live, watching>>
    /\ UNCHANGED <<interruptVars, setup, lifecycle, woken, released, at, entry, request, call, todo, calls, history>>

\* The end of async_respond: the event of its entry, and the key of its wait.
RespondEnds(h) ==
    /\ pc[h] = "ending"
    /\ woken' = (woken \/ (pc[Driver] = "hot" /\ entry[h] = entry[Driver]))
    /\ live' = Unregistered(at[h])
    /\ HostIdle(h)
    /\ UNCHANGED <<interruptVars, setup, lifecycle, watching, released, at, request, call, todo, calls, history>>

-----------------------------------------------------------------------------
RunSteps(t) == RunOpens(t) \/ RunReturns(t) \/ RunFails(t)

TaskStep(t) ==
    \/ Resume(t) \/ Dispatch(t) \/ RunSteps(t)
    \/ CloseBegins(t) \/ DrainEnds(t) \/ CloseLooks(t) \/ CloseEnds(t)

HostStep(h) == (\E r \in Requests : Respond(h, r)) \/ Answered(h) \/ RespondEnds(h)

DriverStep == Start \/ Resolve \/ Deny \/ HotWait \/ HotResolved \/ Pause \/ Paused

Next ==
    \/ \E t \in Tasks : TaskStep(t)
    \/ \E h \in Hosts : HostStep(h) \/ DirectClose(h)
    \/ \E h \in Hosts, n \in Waits, kind \in {"respond", "abandon"} : LookUp(h, n, kind)
    \/ DriverStep \/ HotOver \/ ProviderAnswers \/ Watch

Spec == Init /\ [][Next]_vars

\* The event loop runs every ready task, handlers return, and the close lock has its
\* waiters in order; nothing makes a host call or a provider answer.
Fairness ==
    /\ \A t \in Tasks : WF_vars(TaskStep(t)) /\ SF_vars(CloseBegins(t))
    /\ \A h \in Hosts : WF_vars(HostStep(h))
    /\ WF_vars(DriverStep) /\ WF_vars(Watch)

FairSpec == Spec /\ Fairness

-----------------------------------------------------------------------------
(* Properties *)

\* Every variable keeps its type, and only a pending wait is claimed.
TypeOK ==
    /\ wait \in [Waits -> {"absent", "waiting", "resumed", "cancelled"}]
    /\ claim \in [Waits -> Requests \cup {Driver, None}]
    /\ \A n \in Waits : claim[n] # None => wait[n] = "waiting"
    /\ known \in [Waits -> SUBSET (Requests \cup {Driver})]
    /\ lifecycle \in {"open", "sealed", "closed"}
    /\ live \in [Waits -> Entries \cup {None}]
    /\ \A n \in Waits : live[n] # None => live[n].wait = n
    /\ entry \in [Tasks -> Entries \cup {None}]
    /\ {woken, watching, released} \subseteq BOOLEAN

\* build_exchange_paused_records, finalize_live_exchange_execution, async_respond: a run
\* that ended paused with waits left can still be answered: once the hosts' calls have
\* ended, one of the pending waits is in the registry, after failed answers and failed
\* publications too, and nothing claims it.  The answer to it registers the others.
Answerable ==
    /\ pc[Driver] = "paused" /\ lifecycle = "open" /\ history = {}
    /\ \A h \in Hosts : pc[h] = "idle"
    => (\A n \in Pending : claim[n] = None) /\ (Pending # {} => \E n \in Pending : live[n] # None)

\* docs/en/triggerflow/lifecycle.md: async_respond "resumes the live execution and closes
\* it after the final interrupt", and every way to the end releases the artifact scope:
\* a run that ended paused and has no pending wait left is closed and cleaned up.
LastAnswerCloses ==
    pc[Driver] = "paused" /\ Pending = {}
        ~> (lifecycle = "closed" /\ released) \/ Pending # {} \/ history # {}
=============================================================================
