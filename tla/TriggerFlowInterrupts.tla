------------------------ MODULE TriggerFlowInterrupts ------------------------
(***************************************************************************)
(* The interrupts of one TriggerFlow execution                             *)
(* (src/agently/core/orchestration/TriggerFlow/ExecutionInterrupts.py):    *)
(* chunk handlers that call pause_for, coroutines that call continue_with, *)
(* event signals that resume a wait, and the close protocol of             *)
(* Execution.py as far as it reads or writes the interrupts.               *)
(*                                                                         *)
(* The program is asyncio: code between two awaits is atomic, so an action *)
(* is the code from one await to the next, and every program counter below *)
(* is the await at which the coroutine is suspended.  An await may return  *)
(* or raise (a failing provider or record store, a cancelled task).        *)
(***************************************************************************)
EXTENDS Naturals, FiniteSets

CONSTANTS
  Interrupts,          \* interrupt ids
  Anonymous,           \* those pause_for generates itself: used once, no lock
  Handlers,            \* chunk runs that may call pause_for
  Callers,             \* coroutines that call continue_with, once each
  Requests,            \* resume_request_id values
  NoRequest,           \* continue_with without a resume_request_id
  Values,              \* resume values
  Nobody,              \* no handler, no caller, no interrupt
  ResumeTo,            \* [Interrupts -> {"event", "self", "next"}]
  MaxResumes,          \* budget of a "self" interrupt
  MaxGen,              \* bound: pause_for calls that reach their plan phase
  OverlappingPauses,   \* may an id be paused again while it is waiting?
  CallersMayAbort      \* may an await between claim and resume raise?

ASSUME InterruptsAssumption ==
  /\ Anonymous \subseteq Interrupts
  /\ ResumeTo \in [Interrupts -> {"event", "self", "next"}]
  /\ MaxResumes \in Nat
  /\ MaxGen \in Nat
  /\ OverlappingPauses \in BOOLEAN
  /\ CallersMayAbort \in BOOLEAN
  /\ NoRequest \notin Requests
  /\ Nobody \notin Interrupts \cup Handlers \cup Callers \cup Requests \cup {NoRequest}

VARIABLES
  store,        \* execution._system_runtime_data["interrupts"]
  status,       \* execution._status
  lifecycle,    \* execution._lifecycle_state
  closer,       \* where async_close is suspended, and its policy; history: lastGen
                \* when its drain ended, and the waits put back since its second look
  lock,         \* _pause_boundary_locks: the pause_for that holds the boundary
  lastGen,      \* the clock behind created_at: each pause_for reads a new one
  hpc, hl,      \* each handler's await and its locals
  cpc, cl,      \* each caller's await and its locals
  dispatched    \* history: each resume dispatched and not failed

execVars    == <<status, lifecycle, closer>>
handlerVars == <<lock, lastGen, hpc, hl>>
callerVars  == <<cpc, cl>>
vars == <<store, execVars, handlerVars, callerVars, dispatched>>

-----------------------------------------------------------------------------
(* Stored interrupts *)

RequestKeys == Requests \cup {NoRequest}

RequestStates == {"none", "accepted", "dispatched", "completed", "dispatch_failed"}
\* external_wait_request.dispatch_state
WaitStates == {"none", "persisted", "exposed", "exposure_failed", "accepted",
               "dispatched", "completed", "dispatch_failed", "cancelled"}

NoRecords == [r \in Requests |-> [state |-> "none", value |-> Nobody]]

Entry ==
  [status : {"absent", "waiting", "resumed", "cancelled"},
   gen    : Nat,                  \* created_at
   claim  : RequestKeys \cup {Nobody},    \* resume_claim
   reqs   : [Requests -> [state : RequestStates, value : Values \cup {Nobody}]],
   wait   : WaitStates,
   count  : Nat,                  \* resume_count
   loops  : Nat]                  \* history: resumes in a row of the same chunk

Absent == [status |-> "absent", gen |-> 0, claim |-> Nobody,
           reqs |-> NoRecords, wait |-> "none", count |-> 0, loops |-> 0]

\* The dict literal pause_for stores: a fresh entry without claim or ledger.
NewEntry(gen, count, loops) ==
  [status |-> "waiting", gen |-> gen, claim |-> Nobody,
   reqs |-> NoRecords, wait |-> "persisted", count |-> count, loops |-> loops]

Waiting(s)   == {i \in Interrupts : s[i].status = "waiting"}
\* mutant of Unclaimed: an event or a close does not look at the claim
UnclaimedOrNot(s) == Waiting(s)
Unclaimed(s) == {i \in Waiting(s) : s[i].claim = Nobody}

\* refresh_waiting_status, on the interrupts just written.
Refreshed(s, st) ==
  IF Waiting(s) # {} THEN "waiting" ELSE IF st = "waiting" THEN "running" ELSE st

\* mutant of OwnsBoundary: only created_at is compared
OwnsGeneration(h) == store[hl[h].id].gen = hl[h].gen

\* _owns_waiting_pause_boundary
OwnsBoundary(h) ==
  LET e == store[hl[h].id]
  IN  e.gen = hl[h].gen /\ e.status = "waiting" /\ e.wait = "persisted"

-----------------------------------------------------------------------------
(* Processes *)

HandlerPC == {"idle", "lock", "planned", "persisting", "announcing",
              "publishing", "raising", "exposed", "done", "failed"}
InPause   == {"planned", "persisting", "announcing", "publishing", "raising", "exposed"}
CallerPC  == {"idle", "barrier", "accepted", "dispatched", "resuming",
              "dispatching", "rejected", "completing", "done", "raised"}
\* drained: the drain found no task, and returns; refusing: the close announces why it
\* will raise; settled: past the second look, it expires the interventions.
CloserPC  == {"idle", "cancelling", "draining", "drained", "refusing", "settled",
              "frozen", "closed"}

FreshHandler == [id |-> Nobody, gen |-> 0, parent |-> Nobody, from |-> Nobody,
                 fromCount |-> 0, prev |-> Absent, prevStatus |-> "running"]
FreshCaller  == [id |-> Nobody, req |-> NoRequest, value |-> Nobody,
                 entry |-> Absent, child |-> Nobody]

Closer(pc, policy, started) ==
  [pc |-> pc, policy |-> policy, started |-> started, gen |-> 0, back |-> {}]

NoCloser == Closer("idle", "error", FALSE)

Init ==
  /\ store = [i \in Interrupts |-> Absent]
  /\ status = "running"
  /\ lifecycle = "open"
  /\ closer = NoCloser
  /\ lock = [i \in Interrupts |-> Nobody]
  /\ lastGen = 0
  /\ hpc = [h \in Handlers |-> "idle"]
  /\ hl = [h \in Handlers |-> FreshHandler]
  /\ cpc = [c \in Callers |-> "idle"]
  /\ cl = [c \in Callers |-> FreshCaller]
  /\ dispatched = {}

-----------------------------------------------------------------------------
(* pause_for: one chunk handler, from its call to its return *)

\* Nobody but the resume c that runs the chunk is using the id i: no wait, no
\* pause_for and no call that may still put an older wait back.
Undisturbed(i, c) ==
  /\ store[i].status # "waiting"
  /\ \A h \in Handlers : hl[h].id # i
  /\ \A d \in Callers \ {c} :
       cl[d].id = i => cpc[d] \notin {"accepted", "dispatched", "resuming", "dispatching"}

MayPause(i, c) ==
  /\ OverlappingPauses \/ Undisturbed(i, c)
  /\ i \in Anonymous => store[i].status = "absent" /\ \A h \in Handlers : hl[h].id # i

\* mutant of InheritedCount: each pause_for starts with a new budget
InheritedCountLost(h, i) == 0

\* The budget a "self" interrupt inherits from the signal that runs the chunk.
InheritedCount(h, i) ==
  IF ResumeTo[i] # "self" \/ (i \notin Anonymous /\ hl[h].from # i)
    THEN 0 ELSE hl[h].fromCount

\* A chunk triggered by an external signal calls pause_for.  Its signal may have been
\* accepted long before: a close waits for the chunk only if its drain has seen it.
PauseCall(h, i) ==
  /\ hpc[h] = "idle"
  /\ lastGen < MaxGen
  /\ MayPause(i, Nobody)
  /\ hpc' = [hpc EXCEPT ![h] = "lock"]
  /\ hl' = [hl EXCEPT ![h] = [FreshHandler EXCEPT !.id = i]]
  /\ UNCHANGED <<store, execVars, lock, lastGen, callerVars, dispatched>>

\* The chunk run by a resumed signal pauses again, on the same id or another.
PauseAgainCall(h, c, i) ==
  /\ hpc[h] = "idle"
  /\ cpc[c] = "dispatching" /\ cl[c].child = Nobody
  /\ lastGen < MaxGen
  /\ MayPause(i, c)
  /\ hpc' = [hpc EXCEPT ![h] = "lock"]
  /\ hl' = [hl EXCEPT ![h] = [FreshHandler EXCEPT
               !.id = i, !.parent = c, !.from = cl[c].id,
               !.fromCount = IF ResumeTo[cl[c].id] = "self" THEN cl[c].entry.count ELSE 0]]
  /\ cl' = [cl EXCEPT ![c].child = h]
  /\ UNCHANGED <<store, execVars, lock, lastGen, cpc, dispatched>>

\* mutant of Release: pause_for leaves the boundary held
ReleaseForgotten(h) == UNCHANGED lock

Release(h) == lock' = [i \in Interrupts |-> IF lock[i] = h THEN Nobody ELSE lock[i]]

\* pause_for returns or raises: the boundary is released with it.
Return(h, outcome) ==
  /\ hpc' = [hpc EXCEPT ![h] = outcome]
  /\ hl' = [hl EXCEPT ![h] = [FreshHandler EXCEPT !.parent = hl[h].parent]]
  /\ Release(h)

\* The boundary of an explicit id is serialised; the checks and the entry
\* (created_at included) are made as soon as it is held.
PausePlan(h) ==
  /\ hpc[h] = "lock"
  /\ LET i == hl[h].id
         overBudget == ResumeTo[i] = "self" /\ InheritedCount(h, i) >= MaxResumes
     IN  /\ i \notin Anonymous => lock[i] = Nobody
         /\ \/ /\ overBudget
               /\ Return(h, "failed")
               /\ UNCHANGED lastGen
            \/ /\ ~overBudget
               /\ lastGen < MaxGen
               /\ lastGen' = lastGen + 1
               /\ hl' = [hl EXCEPT ![h].gen = lastGen + 1]
               /\ hpc' = [hpc EXCEPT ![h] = "planned"]
               /\ lock' = IF i \in Anonymous THEN lock ELSE [lock EXCEPT ![i] = h]
  /\ UNCHANGED <<store, execVars, callerVars, dispatched>>

\* history: how often in a row the chunk was resumed to itself
Loops(h, i) ==
  IF hl[h].parent # Nobody /\ hl[h].from = i THEN cl[hl[h].parent].entry.loops ELSE 0

PauseStore(h) ==
  LET i == hl[h].id IN
  /\ hpc[h] = "planned"
  /\ hl' = [hl EXCEPT ![h].prev = store[i], ![h].prevStatus = status]
  /\ store' = [store EXCEPT ![i] = NewEntry(hl[h].gen, InheritedCount(h, i), Loops(h, i))]
  /\ status' = "waiting"
  /\ hpc' = [hpc EXCEPT ![h] = "persisting"]
  /\ UNCHANGED <<lifecycle, closer, lock, lastGen, callerVars, dispatched>>

\* The recovery snapshot could not be persisted: roll the wait back, unless
\* somebody resolved or replaced it meanwhile.
PausePersistFails(h) ==
  /\ hpc[h] = "persisting"
  /\ IF OwnsBoundary(h)
       THEN /\ store' = [store EXCEPT ![hl[h].id] = hl[h].prev]
            /\ status' = IF Waiting(store') # {} THEN "waiting" ELSE hl[h].prevStatus
       ELSE UNCHANGED <<store, status>>
  /\ Return(h, "failed")
  /\ UNCHANGED <<lifecycle, closer, lastGen, callerVars, dispatched>>

\* After the snapshot, and again after the "persisted" event, pause_for goes on
\* only if the wait is still its own.
PauseProceed(h) ==
  /\ \/ hpc[h] = "persisting" /\ OwnsBoundary(h)
        /\ hpc' = [hpc EXCEPT ![h] = "announcing"]
     \/ hpc[h] = "announcing" /\ OwnsBoundary(h)
        /\ hpc' = [hpc EXCEPT ![h] = "publishing"]
  /\ UNCHANGED <<store, execVars, lock, lastGen, hl, callerVars, dispatched>>

PauseSuperseded(h) ==
  /\ hpc[h] \in {"persisting", "announcing"}
  /\ ~OwnsBoundary(h)
  /\ Return(h, "done")
  /\ UNCHANGED <<store, execVars, lastGen, callerVars, dispatched>>

\* _atomic_mutate_interrupt(..., require_waiting=True) with _apply_local_envelope.
ApplyEnvelope(h, wait) ==
  LET i == hl[h].id IN
  IF store[i].status = "waiting"
    THEN store' = [store EXCEPT ![i].wait = wait] /\ status' = "waiting"
    ELSE UNCHANGED <<store, status>>

PausePublished(h) ==
  /\ hpc[h] = "publishing"
  /\ ApplyEnvelope(h, "persisted")
  /\ hpc' = [hpc EXCEPT ![h] = "raising"]
  /\ UNCHANGED <<lifecycle, closer, lock, lastGen, hl, callerVars, dispatched>>

PausePublishFails(h) ==
  /\ hpc[h] = "publishing"
  /\ ApplyEnvelope(h, "exposure_failed")
  /\ Return(h, "failed")
  /\ UNCHANGED <<lifecycle, closer, lastGen, callerVars, dispatched>>

PauseExposed(h) ==
  /\ hpc[h] = "raising"
  /\ ApplyEnvelope(h, "exposed")
  /\ hpc' = [hpc EXCEPT ![h] = "exposed"]
  /\ UNCHANGED <<lifecycle, closer, lock, lastGen, hl, callerVars, dispatched>>

\* The chunk may still raise after pause_for returned.
PauseReturns(h) ==
  /\ hpc[h] = "exposed"
  /\ \E outcome \in {"done", "failed"} : Return(h, outcome)
  /\ UNCHANGED <<store, execVars, lastGen, callerVars, dispatched>>

\* An await of pause_for other than the snapshot and the publication raises.
PauseAborts(h) ==
  /\ hpc[h] \in {"lock", "planned", "announcing", "raising", "exposed"}
  /\ Return(h, "failed")
  /\ UNCHANGED <<store, execVars, lastGen, callerVars, dispatched>>

\* The dispatch that ran the handler collects it; an error fails the execution
\* (_async_dispatch_signal_inner).  A resume collects its own handler.
HandlerCollected(h) ==
  /\ hpc[h] \in {"done", "failed"} /\ hl[h].parent = Nobody
  /\ status' = IF hpc[h] = "failed" THEN "failed" ELSE status
  /\ hpc' = [hpc EXCEPT ![h] = "idle"]
  /\ hl' = [hl EXCEPT ![h] = FreshHandler]
  /\ UNCHANGED <<store, lifecycle, closer, lock, lastGen, callerVars, dispatched>>

-----------------------------------------------------------------------------
(* continue_with: one caller, one call *)

ContinueCall(c, i, r, v) ==
  /\ cpc[c] = "idle"
  /\ cl' = [cl EXCEPT ![c] = [FreshCaller EXCEPT !.id = i, !.req = r, !.value = v]]
  /\ cpc' = [cpc EXCEPT ![c] = "barrier"]
  /\ UNCHANGED <<store, execVars, handlerVars, dispatched>>

\* The call goes through the boundary lock; what follows reads the store and
\* writes the claim in one synchronous step.
ThroughBarrier(c) == cpc[c] = "barrier" /\ lock[cl[c].id] = Nobody

Record(c) == store[cl[c].id].reqs[cl[c].req]
Known(c)  == cl[c].req \in Requests /\ Record(c).state # "none"

\* mutant of Refused: the values of a known request are not compared
RefusedWhateverValue(c) ==
  LET e == store[cl[c].id] IN
  \/ e.status = "absent"
  \/ /\ ~(Known(c) /\ (e.status # "waiting" \/ Record(c).state = "completed"))
     /\ \/ e.claim # Nobody /\ ~(cl[c].req \in Requests /\ e.claim = cl[c].req)
        \/ e.claim = Nobody /\ e.status # "waiting"
        \/ e.claim = Nobody /\ ResumeTo[cl[c].id] = "self" /\ e.count + 1 > MaxResumes

\* Why a call is not entitled to resume: the rejections that raise.
Refused(c) ==
  LET e == store[cl[c].id] IN
  \/ e.status = "absent"
  \/ Known(c) /\ Record(c).value # cl[c].value
  \/ /\ ~(Known(c) /\ (e.status # "waiting" \/ Record(c).state = "completed"))
     /\ \/ e.claim # Nobody /\ ~(cl[c].req \in Requests /\ e.claim = cl[c].req)
        \/ e.claim = Nobody /\ e.status # "waiting"
        \/ e.claim = Nobody /\ ResumeTo[cl[c].id] = "self" /\ e.count + 1 > MaxResumes

\* A retry of a request that is settled or under way: the entry is returned.
Replayed(c) ==
  LET e == store[cl[c].id] IN
  /\ ~Refused(c)
  /\ \/ Known(c) /\ (e.status # "waiting" \/ Record(c).state = "completed")
     \/ cl[c].req \in Requests /\ e.claim = cl[c].req

Entitled(c) == lifecycle = "open" /\ ~Refused(c) /\ ~Replayed(c)

\* continue_with is ignored unless the execution is open; an expired lease raises.
ContinueAnswered(c) ==
  /\ ThroughBarrier(c)
  /\ \E outcome \in {"done", "raised"} :
       /\ \/ outcome = "done" /\ (lifecycle # "open" \/ Replayed(c))
          \/ outcome = "raised" /\ lifecycle = "open"  \* refused, or lease expired
       /\ cpc' = [cpc EXCEPT ![c] = outcome]
  /\ cl' = [cl EXCEPT ![c] = FreshCaller]
  /\ UNCHANGED <<store, execVars, handlerVars, dispatched>>

\* The caller's copy of the entry as the claim phase leaves it.
Counted(c) ==
  LET e == store[cl[c].id]
  IN  [e EXCEPT !.count = IF ResumeTo[cl[c].id] = "self" THEN @ + 1 ELSE @,
                !.claim = cl[c].req]

\* mutant of WithRecord: each accepted request starts a new ledger
WithRecordOnly(e, c, state) ==
  [e EXCEPT !.reqs = [NoRecords EXCEPT ![cl[c].req] =
                        [state |-> state, value |-> cl[c].value]],
            !.wait = state]

\* The record of a known request keeps the value it was accepted with.
WithRecord(e, c, state) ==
  [e EXCEPT !.reqs[cl[c].req] =
              [state |-> state,
               value |-> IF @.state = "none" THEN cl[c].value ELSE @.value],
            !.wait = state]

\* mutant of Resumed: the claim stays, as a merge of the copy would leave it
ResumedKeepingClaim(e) == [e EXCEPT !.status = "resumed", !.loops = @ + 1]

Resumed(e) == [e EXCEPT !.status = "resumed", !.claim = Nobody, !.loops = @ + 1]

\* _atomic_store_interrupt: the caller's own copy replaces the stored entry.
StoreCopy(c, e) ==
  /\ cl' = [cl EXCEPT ![c].entry = e]
  /\ store' = [store EXCEPT ![cl[c].id] = e]

\* The claim.  Without a request id nothing is awaited before the entry is
\* resumed; a known request is dispatched at once; a new one is announced.
ContinueClaim(c) ==
  /\ ThroughBarrier(c) /\ Entitled(c)
  /\ \/ /\ cl[c].req = NoRequest
        /\ StoreCopy(c, Resumed(Counted(c)))
        /\ status' = "running"
        /\ cpc' = [cpc EXCEPT ![c] = "resuming"]
     \/ /\ Known(c)
        /\ StoreCopy(c, WithRecord(Counted(c), c, "dispatched"))
        /\ status' = "waiting"
        /\ cpc' = [cpc EXCEPT ![c] = "dispatched"]
     \/ /\ cl[c].req \in Requests /\ ~Known(c)
        /\ StoreCopy(c, WithRecord(Counted(c), c, "accepted"))
        /\ status' = "waiting"
        /\ cpc' = [cpc EXCEPT ![c] = "accepted"]
  /\ UNCHANGED <<lifecycle, closer, handlerVars, dispatched>>

\* history: the wait i is written back as pending while a close expires interventions
PutBack(i) ==
  closer' = IF closer.pc = "settled" THEN [closer EXCEPT !.back = @ \cup {i}] ELSE closer

ContinueDispatched(c) ==
  /\ cpc[c] = "accepted"
  /\ StoreCopy(c, WithRecord(cl[c].entry, c, "dispatched"))
  /\ PutBack(cl[c].id)
  /\ status' = "waiting"
  /\ cpc' = [cpc EXCEPT ![c] = "dispatched"]
  /\ UNCHANGED <<lifecycle, handlerVars, dispatched>>

ContinueResumed(c) ==
  /\ cpc[c] = "dispatched"
  /\ StoreCopy(c, Resumed(cl[c].entry))
  /\ status' = "running"
  /\ cpc' = [cpc EXCEPT ![c] = "resuming"]
  /\ UNCHANGED <<lifecycle, closer, handlerVars, dispatched>>

\* An await before the dispatch raises: the code has no handler around these.
ContinueAborts(c) ==
  /\ CallersMayAbort
  /\ cpc[c] \in {"accepted", "dispatched", "resuming"}
  /\ cpc' = [cpc EXCEPT ![c] = "raised"]
  /\ cl' = [cl EXCEPT ![c] = FreshCaller]
  /\ UNCHANGED <<store, execVars, handlerVars, dispatched>>

\* What a caller's dispatch is remembered by.
Dispatch(c) == [id |-> cl[c].id, gen |-> cl[c].entry.gen, req |-> cl[c].req, by |-> c]

\* The resume signal is dispatched if the lifecycle still accepts it
\* (_accepts_signal_in_current_lifecycle, source "interrupt"), else dropped.
ContinueDispatch(c) ==
  /\ cpc[c] = "resuming"
  /\ IF lifecycle = "open" \/ closer.started
       THEN /\ cpc' = [cpc EXCEPT ![c] = "dispatching"]
            /\ dispatched' = dispatched \cup {Dispatch(c)}
       ELSE /\ cpc' = [cpc EXCEPT ![c] = "rejected"]
            /\ UNCHANGED dispatched
  /\ UNCHANGED <<store, execVars, handlerVars, cl>>

\* The handler a resume ran is collected with the dispatch.
Collect(c) ==
  IF cl[c].child = Nobody THEN UNCHANGED <<hpc, hl>>
  ELSE /\ hpc' = [hpc EXCEPT ![cl[c].child] = "idle"]
       /\ hl' = [hl EXCEPT ![cl[c].child] = FreshHandler]

SameGeneration(c) == store[cl[c].id].gen = cl[c].entry.gen

\* The dispatch returned (or the signal was dropped, which looks the same).
\* A request is recorded as completed on whatever entry is stored by now.
ContinueReturns(c) ==
  LET i == cl[c].id
      e == store[i]
      recorded == [e EXCEPT !.reqs[cl[c].req] =
                              [cl[c].entry.reqs[cl[c].req] EXCEPT !.state = "completed"],
                            !.wait = IF SameGeneration(c) THEN "completed" ELSE @]
  IN
  /\ \/ cpc[c] = "rejected"
     \/ cpc[c] = "dispatching" /\ (cl[c].child # Nobody => hpc[cl[c].child] = "done")
  /\ Collect(c)
  /\ IF cl[c].req = NoRequest
       THEN /\ status' = Refreshed(store, status)
            /\ cpc' = [cpc EXCEPT ![c] = "done"]
            /\ cl' = [cl EXCEPT ![c] = FreshCaller]
            /\ UNCHANGED store
       ELSE /\ store' = IF e.status = "absent" THEN store
                        ELSE [store EXCEPT ![i] = recorded]
            /\ cpc' = [cpc EXCEPT ![c] = "completing"]
            /\ cl' = [cl EXCEPT ![c].child = Nobody]
            /\ UNCHANGED status
  /\ UNCHANGED <<lifecycle, closer, lock, lastGen, dispatched>>

ContinueCompletes(c) ==
  /\ cpc[c] = "completing"
  /\ status' = Refreshed(store, status)
  /\ cpc' = [cpc EXCEPT ![c] = "done"]
  /\ cl' = [cl EXCEPT ![c] = FreshCaller]
  /\ UNCHANGED <<store, lifecycle, closer, handlerVars, dispatched>>

\* A handler of the resumed signal raised: the execution fails, and a call with
\* a request id puts its wait back, if its generation is still the stored one.
ContinueFails(c) ==
  LET i == cl[c].id
      e == store[i]
      failed == [e EXCEPT !.reqs[cl[c].req] =
                            [cl[c].entry.reqs[cl[c].req] EXCEPT !.state = "dispatch_failed"]]
      reopened == [failed EXCEPT !.status = "waiting", !.claim = Nobody,
                                 !.wait = "dispatch_failed"]
  IN
  /\ cpc[c] = "dispatching"
  /\ cl[c].child # Nobody => hpc[cl[c].child] \in {"done", "failed"}
  /\ Collect(c)
  /\ IF cl[c].req = NoRequest \/ e.status = "absent"
       THEN store' = store /\ status' = "failed" /\ UNCHANGED closer
       ELSE /\ store' = [store EXCEPT ![i] = IF SameGeneration(c) THEN reopened ELSE failed]
            /\ IF SameGeneration(c) THEN PutBack(i) ELSE UNCHANGED closer
            /\ status' = IF SameGeneration(c) \/ e.status = "waiting"
                           THEN "waiting" ELSE "failed"
  /\ dispatched' = dispatched \ {Dispatch(c)}
  /\ cpc' = [cpc EXCEPT ![c] = "raised"]
  /\ cl' = [cl EXCEPT ![c] = FreshCaller]
  /\ UNCHANGED <<lifecycle, lock, lastGen>>

-----------------------------------------------------------------------------
(* Event signals: async_resume_for_signal *)

\* An event that is the target of the interrupts in S is dispatched by anybody
\* but continue_with; which waits share an event is the flow's choice.
EventResumes(S) ==
  LET hit == S \cap Unclaimed(store) IN
  /\ lifecycle = "open" \/ (closer.started /\ closer.pc # "closed")
  /\ hit # {}
  /\ store' = [i \in Interrupts |->
                 IF i \in hit THEN [store[i] EXCEPT !.status = "resumed", !.wait = "completed"]
                 ELSE store[i]]
  /\ status' = Refreshed(store', status)
  /\ dispatched' = dispatched \cup {[id |-> i, gen |-> store[i].gen, req |-> NoRequest, by |-> Nobody] : i \in hit}
  /\ UNCHANGED <<lifecycle, closer, handlerVars, callerVars>>

-----------------------------------------------------------------------------
(* Lifecycle: async_seal, async_unseal, async_close *)

Seal ==
  /\ lifecycle = "open" /\ closer.pc = "idle"
  /\ lifecycle' = "sealed"
  /\ UNCHANGED <<store, status, closer, handlerVars, callerVars, dispatched>>

Unseal ==
  /\ lifecycle = "sealed" /\ closer.pc # "frozen"
  /\ lifecycle' = "open"
  /\ UNCHANGED <<store, status, closer, handlerVars, callerVars, dispatched>>

\* cancel_pending_interrupts: a claimed wait is left to its caller.
CancelPending ==
  /\ store' = [i \in Interrupts |->
                 IF i \in Unclaimed(store)
                   THEN [store[i] EXCEPT !.status = "cancelled", !.wait = "cancelled"]
                   ELSE store[i]]
  /\ status' = "cancelled"

\* handle_pending_interrupts_before_close has to cancel (and then awaits an
\* event), or has nothing to do; under "error" a pending interrupt stops the close.
MustCancel(policy) == policy = "cancel" /\ Unclaimed(store) # {}
MayGoOn(policy)    == IF policy = "cancel" THEN Unclaimed(store) = {} ELSE Waiting(store) = {}

\* A close that is refused at once changes nothing and is not modelled.
CloseCall(policy) ==
  /\ closer.pc = "idle"
  /\ \/ /\ MustCancel(policy)
        /\ CancelPending
        /\ closer' = Closer("cancelling", policy, TRUE)
        /\ UNCHANGED lifecycle
     \/ /\ MayGoOn(policy)
        /\ lifecycle' = "sealed"
        /\ closer' = Closer("draining", policy, TRUE)
        /\ UNCHANGED <<store, status>>
  /\ UNCHANGED <<handlerVars, callerVars, dispatched>>

CloseSeal ==
  /\ closer.pc = "cancelling"
  /\ lifecycle' = "sealed"
  /\ closer' = [closer EXCEPT !.pc = "draining"]
  /\ UNCHANGED <<store, status, handlerVars, callerVars, dispatched>>

\* Only adopted tasks, the handlers, are drained: not the callers.
Drained == \A h \in Handlers : hpc[h] = "idle"

\* The drain found no task, and gives the loop one turn before it returns.
DrainEnds ==
  /\ closer.pc = "draining" /\ Drained
  /\ closer' = [closer EXCEPT !.pc = "drained", !.gen = lastGen]
  /\ UNCHANGED <<store, status, lifecycle, handlerVars, callerVars, dispatched>>

\* mutant of CloseLook: the pending interrupts are not looked at again
CloseUnchecked ==
  /\ closer.pc = "drained"
  /\ closer' = [closer EXCEPT !.pc = "settled"]
  /\ UNCHANGED <<store, status, lifecycle, handlerVars, callerVars, dispatched>>

\* The second look at the pending interrupts: they are cancelled, or there are none, or
\* the close is refused.
CloseLook ==
  /\ closer.pc = "drained"
  /\ \/ /\ MustCancel(closer.policy)
        /\ CancelPending
        /\ closer' = [closer EXCEPT !.pc = "settled"]
     \/ /\ MayGoOn(closer.policy)
        /\ closer' = [closer EXCEPT !.pc = "settled"]
        /\ UNCHANGED <<store, status>>
     \/ /\ closer.policy = "error" /\ Waiting(store) # {}
        /\ closer' = [closer EXCEPT !.pc = "refusing"]
        /\ UNCHANGED <<store, status>>
  /\ UNCHANGED <<lifecycle, handlerVars, callerVars, dispatched>>

\* mutant of CloseFreeze: the lifecycle constant is written as the status
FreezeAsClosed ==
  /\ closer.pc = "settled"
  /\ closer' = [closer EXCEPT !.pc = "frozen"]
  /\ status' = "closed"
  /\ UNCHANGED <<store, lifecycle, handlerVars, callerVars, dispatched>>

\* The interventions have expired: the close freezes its snapshot, and does not look at
\* the interrupts any more.
CloseFreeze ==
  /\ closer.pc = "settled"
  /\ closer' = [closer EXCEPT !.pc = "frozen"]
  /\ status' = IF status \in {"failed", "cancelled"} THEN status ELSE "completed"
  /\ UNCHANGED <<store, lifecycle, handlerVars, callerVars, dispatched>>

\* The close raises: it was refused, its drain failed or timed out, or an await after it
\* raised.  It unseals what it sealed.
CloseFails ==
  /\ closer.pc \in {"cancelling", "draining", "drained", "refusing", "settled"}
  /\ closer' = NoCloser
  /\ lifecycle' = IF closer.pc = "cancelling" THEN lifecycle ELSE "open"
  /\ UNCHANGED <<store, status, handlerVars, callerVars, dispatched>>

CloseFinish ==
  /\ closer.pc = "frozen"
  /\ closer' = [closer EXCEPT !.pc = "closed"]
  /\ lifecycle' = "closed"
  /\ UNCHANGED <<store, status, handlerVars, callerVars, dispatched>>

-----------------------------------------------------------------------------
PauseStep(h) ==
  \/ PausePlan(h) \/ PauseStore(h) \/ PausePersistFails(h) \/ PauseProceed(h)
  \/ PauseSuperseded(h) \/ PausePublished(h) \/ PausePublishFails(h)
  \/ PauseExposed(h) \/ PauseReturns(h) \/ PauseAborts(h) \/ HandlerCollected(h)

ContinueStep(c) ==
  \/ ContinueAnswered(c) \/ ContinueClaim(c) \/ ContinueDispatched(c)
  \/ ContinueResumed(c) \/ ContinueDispatch(c) \/ ContinueReturns(c)
  \/ ContinueCompletes(c) \/ ContinueFails(c)

CloseStep ==
  \/ CloseSeal \/ DrainEnds \/ CloseLook \/ CloseFreeze \/ CloseFails \/ CloseFinish

Next ==
  \/ \E h \in Handlers : PauseStep(h)
  \/ \E h \in Handlers, i \in Interrupts : PauseCall(h, i)
  \/ \E h \in Handlers, c \in Callers, i \in Interrupts : PauseAgainCall(h, c, i)
  \/ \E c \in Callers : ContinueStep(c) \/ ContinueAborts(c)
  \/ \E c \in Callers, i \in Interrupts, r \in RequestKeys, v \in Values :
       ContinueCall(c, i, r, v)
  \/ \E S \in SUBSET {i \in Interrupts : ResumeTo[i] = "event"} : EventResumes(S)
  \/ Seal \/ Unseal
  \/ \E policy \in {"error", "cancel"} : CloseCall(policy)
  \/ CloseStep

Spec == Init /\ [][Next]_vars

\* The event loop runs every ready coroutine, and every await ends.
Fairness ==
  /\ \A h \in Handlers : WF_vars(PauseStep(h))
  /\ \A c \in Callers : WF_vars(ContinueStep(c))

FairSpec == Spec /\ Fairness

-----------------------------------------------------------------------------
(* Properties *)

Statuses == {"running", "waiting", "completed", "failed", "cancelled"}

HandlerLocals ==
  [id : Interrupts \cup {Nobody}, gen : Nat, parent : Callers \cup {Nobody},
   from : Interrupts \cup {Nobody}, fromCount : Nat,
   prev : Entry, prevStatus : Statuses]

CallerLocals ==
  [id : Interrupts \cup {Nobody}, req : RequestKeys, value : Values \cup {Nobody},
   entry : Entry, child : Handlers \cup {Nobody}]

CloserStates ==
  [pc : CloserPC, policy : {"error", "cancel"}, started : BOOLEAN,
   gen : Nat, back : SUBSET Interrupts]

Dispatches ==
  [id : Interrupts, gen : Nat, req : RequestKeys, by : Callers \cup {Nobody}]

\* Every variable has the shape the code gives it.
TypeOK ==
  /\ store \in [Interrupts -> Entry]
  /\ status \in Statuses
  /\ lifecycle \in {"open", "sealed", "closed"}
  /\ closer \in CloserStates
  /\ lock \in [Interrupts -> Handlers \cup {Nobody}]
  /\ lastGen \in Nat
  /\ hpc \in [Handlers -> HandlerPC]
  /\ hl \in [Handlers -> HandlerLocals]
  /\ cpc \in [Callers -> CallerPC]
  /\ cl \in [Callers -> CallerLocals]
  /\ dispatched \subseteq Dispatches

\* A wait is resumed once, whatever calls and events race for it: two
\* dispatches of one pause_for generation never both stand (the claim of
\* continue_with, "so concurrent continue_with calls fail fast instead of
\* double-dispatching").
ResumedAtMostOnce ==
  \A d1, d2 \in dispatched : d1.id = d2.id /\ d1.gen = d2.gen => d1 = d2

\* Between its claim and its resume, a caller's interrupt is still the waiting
\* generation it claimed, and claimed for its request: no event, no close and
\* no other call resolves a claimed wait.
ClaimHeld ==
  \A c \in Callers : cpc[c] \in {"accepted", "dispatched"} =>
    LET e == store[cl[c].id]
    IN  e.status = "waiting" /\ e.claim = cl[c].req /\ e.gen = cl[c].entry.gen

\* A chunk that pauses itself again on each resume is resumed at most MaxResumes
\* times in a row (the budget travels through the resume signal's meta).
WithinBudget ==
  \A i \in Interrupts : ResumeTo[i] = "self" => store[i].loops <= MaxResumes

\* What is dispatched for a request of a generated interrupt is the value the
\* request was accepted with: a later delivery of its id with another value is
\* refused, also when it retries a failed dispatch.  (A chosen id that is paused
\* again is a new wait with a new ledger, as with ReplaySafe.)
RequestKeepsValue ==
  \A c \in Callers :
    (/\ cpc[c] \in {"dispatched", "resuming", "dispatching"} /\ cl[c].req \in Requests
     /\ cl[c].id \in Anonymous /\ store[cl[c].id].gen = cl[c].entry.gen)
    => store[cl[c].id].reqs[cl[c].req].value = cl[c].value

\* A request recorded for a generated interrupt stays recorded while it is
\* stored: the copy that a caller writes back lacks no record made meanwhile.
LedgerKept ==
  [][\A i \in Anonymous, r \in Requests :
       (store'[i].gen = store[i].gen /\ store[i].reqs[r].state # "none")
       => store'[i].reqs[r].state # "none"]_store

\* A stable request id dispatches a resume once however often it is delivered.
ReplaySafe ==
  \A d1, d2 \in dispatched :
    d1.id = d2.id /\ d1.req = d2.req /\ d1.req # NoRequest => d1 = d2

\* A close with the default policy leaves no wait behind that its drain let through:
\* when it freezes its snapshot, each pending wait is of a pause_for that began after the
\* drain ended, or was put back by a resume that failed after the second look.  (Those
\* two the close does not look for, while it awaits the expiry of the interventions.)
DefaultCloseSettled ==
  [][(closer.pc # "frozen" /\ closer'.pc = "frozen" /\ closer.policy = "error")
     => \A i \in Waiting(store) : store[i].gen > closer.gen \/ i \in closer.back]_vars

\* Every call of continue_with ends, also while the chunk it resumed pauses
\* again on the same id: the call does not hold the boundary lock.
CallsEnd ==
  \A c \in Callers : cpc[c] = "barrier" ~> cpc[c] \in {"done", "raised"}

\* A claim is never left behind: it leads to a resume, unless an await of its
\* caller raises (CallersMayAbort).
ClaimsSettle ==
  \A i \in Interrupts : store[i].claim # Nobody ~> store[i].claim = Nobody

\* The stored interrupts keep the contract of a wait: each step of pause_for,
\* continue_with, an event or a close is one of its steps.
waitState ==
  [i \in Interrupts |->
     [state |-> IF store[i].status = "waiting" /\ store[i].claim # Nobody
                  THEN "claimed" ELSE store[i].status,
      gen   |-> store[i].gen]]

Contract == INSTANCE PauseContract
              WITH Generations <- 0 .. MaxGen,
                   wait <- waitState,
                   delivered <- {[id |-> d.id, gen |-> d.gen] : d \in dispatched}

KeepsContract == Contract!Spec
=============================================================================
