--------------------------- MODULE ModelRequests ---------------------------
(***************************************************************************)
(* Model requests: the composition of the shared response streams          *)
(* (GeneratorConsumer) with the slots their requests take                  *)
(* (RequestScheduler).  The generator of a stream is                       *)
(* ModelRequestRunner._get_response_generator, seen through                *)
(* AgentlyResponseParser._extract: it takes its slot when the consuming    *)
(* task first asks it for a message and gives it back in its finally, when *)
(* the response has ended, failed or been cancelled, whoever still reads.  *)
(* A caller that needs another attempt (retry_get_data) waits for a new    *)
(* stream once it has the result of the old one.                           *)
(***************************************************************************)
EXTENDS RequestScheduler, GeneratorConsumer

ASSUME OneSlotPerStream == Requests = Streams

vars == <<schedulerVars, consumerVars>>

TypeOK == SchedulerTypeOK /\ ConsumerTypeOK

Init == SchedulerInit /\ ConsumerInit

-----------------------------------------------------------------------------
\* request.started has been announced: the slot is asked for.
AskSlot(s) ==
    /\ task[s] = "running"
    /\ Issue(s)
    /\ UNCHANGED consumerVars

AdvanceSlot(s) ==
    /\ task[s] = "running"
    /\ SchedulerStep(s)
    /\ UNCHANGED consumerVars

\* The cancellation reaches a request that was on its way to its slot.
UnwindSlot(s) ==
    /\ task[s] = "cancelling" /\ slot[s] \in {"bucket", "sleeping", "semaphore"}
    /\ Leave(s)
    /\ UNCHANGED consumerVars

\* A message of the response, or the status a cancelled request yields before it ends.
Answer(s) ==
    /\ \/ slot[s] = "inFlight"
       \/ task[s] = "cancelling" /\ slot[s] \in {"idle", "done"}
    /\ Produce(s)
    /\ UNCHANGED schedulerVars

\* Mutant of SlotGivenBack: the slot outlives a request that was cancelled.
SlotGivenBackUnlessCancelled(s) ==
    IF slot[s] = "inFlight" /\ task[s] # "cancelling" THEN Leave(s) ELSE UNCHANGED schedulerVars

\* The finally of the request.
SlotGivenBack(s) == IF slot[s] = "inFlight" THEN Leave(s) ELSE UNCHANGED schedulerVars

Finish(s) ==
    /\ \/ slot[s] = "inFlight" /\ (SourceEnds(s) \/ SourceFails(s))
       \/ slot[s] \in {"inFlight", "idle", "done"} /\ task[s] = "cancelling" /\ SourceFails(s)
       \/ slot[s] \in {"inFlight", "idle", "done"} /\ SourceCancelled(s)
       \/ ConsumeNothing(s)
    /\ SlotGivenBack(s)

Begin(s) == ConsumeBegins(s) /\ UNCHANGED schedulerVars

ReaderStep(x) == (Read(x) \/ CloseReturns(x)) /\ UNCHANGED schedulerVars

ReaderChooses(x) ==
    /\ Quit(x) \/ ReadCancelled(x) \/ \E s \in Streams : Subscribe(x, s) \/ SubscribeRefused(x, s)
    /\ UNCHANGED schedulerVars

WaiterStep(w) == (WaitReturns(w) \/ CloseReturns(w)) /\ UNCHANGED schedulerVars

WaiterChooses(w) ==
    /\ WaitCancelled(w) \/ \E s \in Streams : Wait(w, s) \/ Close(w, s)
    /\ UNCHANGED schedulerVars

Reconfigure == (\E n \in Limits : Configure(n)) /\ UNCHANGED consumerVars

Time == Tick /\ UNCHANGED consumerVars

StreamStep(s) == Begin(s) \/ AskSlot(s) \/ AdvanceSlot(s) \/ UnwindSlot(s) \/ Finish(s)

Next ==
    \/ \E s \in Streams : StreamStep(s) \/ Answer(s)
    \/ \E x \in Readers : ReaderStep(x) \/ ReaderChooses(x)
    \/ \E w \in Waiters : WaiterStep(w) \/ WaiterChooses(w)
    \/ Reconfigure
    \/ Time

Spec == Init /\ [][Next]_vars

\* The event loop runs every coroutine that can go on, the clock goes on, and a provider
\* answers or fails (the requester has a timeout).
FairSpec ==
    /\ Spec
    /\ \A s \in Streams : WF_vars(StreamStep(s))
    /\ \A x \in Readers : WF_vars(ReaderStep(x))
    /\ \A w \in Waiters : WF_vars(WaiterStep(w))
    /\ WF_vars(Time)

-----------------------------------------------------------------------------
\* Whoever waits for a result or for a close, retries included, is answered, with every
\* slot of the provider taken and other callers cancelled or gone, and a reader that does
\* not break off comes to the end of its loop
\* (get_result, close, slot, retry_get_data, get_async_generator).
EveryoneAnswered ==
    /\ \A u \in Readers \cup Waiters :
           at[u] \in {"waiting", "closing"} ~> at[u] \notin {"waiting", "closing"}
    /\ \A x \in Readers : at[x] = "reading" ~> at[x] # "reading"
=============================================================================
