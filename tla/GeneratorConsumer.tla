------------------------- MODULE GeneratorConsumer -------------------------
(***************************************************************************)
(* utils/GeneratorConsumer.py: one generator replayed to any number of     *)
(* readers and waiters, here the streams of model responses as             *)
(* AgentlyResponseParser uses them (_ensure_consumer, async_close,         *)
(* _wait_for_consumer_result, get_async_generator; the last two close the  *)
(* stream when their caller is cancelled), all in one event loop.  The     *)
(* queues are unbounded, so a broadcast never suspends; the generator has  *)
(* finished whenever the consuming task leaves it, so that closing it then *)
(* does not either.                                                        *)
(***************************************************************************)
EXTENDS Integers, Sequences

CONSTANTS
    Streams,      \* the wrapped generators
    Readers,      \* get_async_generator calls
    Waiters,      \* coroutines that await get_result, or close a stream
    MaxMessages,  \* bound: messages of one generator
    NoStream      \* a reader or waiter that has no stream yet

ASSUME ConsumerAssumption ==
    /\ MaxMessages \in Nat
    /\ NoStream \notin Streams
    /\ Readers \cap Waiters = {}

VARIABLES
    history,  \* length of _history: the messages are numbered
    source,   \* the wrapped generator
    task,     \* _consume_task
    done,     \* _done
    closed,   \* _closed
    at,       \* where each reader and waiter is
    of,       \* the stream it is on
    queue,    \* the queue of each reader
    got       \* history: what each reader received

streamVars == <<history, source, task, done, closed>>
userVars == <<at, of, queue, got>>
consumerVars == <<streamVars, userVars>>

\* In a queue: _sentinel, an exception, or the number of a message.
End == 0
Error == -1
Items == -1 .. MaxMessages

ConsumerTypeOK ==
    /\ history \in [Streams -> 0 .. MaxMessages]
    /\ source \in [Streams -> {"live", "ended", "failed", "closed"}]
    /\ task \in [Streams -> {"none", "created", "running", "cancelling", "over"}]
    /\ done \in [Streams -> BOOLEAN]
    /\ closed \in [Streams -> BOOLEAN]
    /\ at \in [Readers \cup Waiters ->
                   {"idle", "reading", "waiting", "closing", "ended", "raised", "left"}]
    /\ of \in [Readers \cup Waiters -> Streams \cup {NoStream}]
    /\ queue \in [Readers -> Seq(Items)]
    /\ got \in [Readers -> Seq(Items)]

ConsumerInit ==
    /\ history = [s \in Streams |-> 0]
    /\ source = [s \in Streams |-> "live"]
    /\ task = [s \in Streams |-> "none"]
    /\ done = [s \in Streams |-> FALSE]
    /\ closed = [s \in Streams |-> FALSE]
    /\ at = [u \in Readers \cup Waiters |-> "idle"]
    /\ of = [u \in Readers \cup Waiters |-> NoStream]
    /\ queue = [x \in Readers |-> <<>>]
    /\ got = [x \in Readers |-> <<>>]

-----------------------------------------------------------------------------
Numbers(n) == [i \in 1 .. n |-> i]

Goes(u, where) == at' = [at EXCEPT ![u] = where]

Listeners(s) == {x \in Readers : at[x] = "reading" /\ of[x] = s}

Broadcast(s, items) ==
    queue' = [x \in Readers |-> IF x \in Listeners(s) THEN queue[x] \o items ELSE queue[x]]

EnsureStarted(s) == task' = [task EXCEPT ![s] = IF @ = "none" THEN "created" ELSE @]

-----------------------------------------------------------------------------
(* The consuming task *)

\* Its first step.  A generator that was closed before yields nothing.
ConsumeBegins(s) ==
    /\ task[s] = "created" /\ source[s] = "live"
    /\ task' = [task EXCEPT ![s] = "running"]
    /\ UNCHANGED <<history, source, done, closed, userVars>>

\* A message; a cancelled generator may still yield its status.
Produce(s) ==
    /\ task[s] \in {"running", "cancelling"} /\ history[s] < MaxMessages
    /\ history' = [history EXCEPT ![s] = @ + 1]
    /\ Broadcast(s, <<history[s] + 1>>)
    /\ UNCHANGED <<source, task, done, closed, at, of, got>>

\* Mutant of Over: who is listening when the generator fails hears no error.
OverSilently(s, how) ==
    /\ source' = [source EXCEPT ![s] = how]
    /\ task' = [task EXCEPT ![s] = "over"]
    /\ done' = [done EXCEPT ![s] = TRUE]
    /\ Broadcast(s, <<End>>)
    /\ UNCHANGED <<history, closed, at, of, got>>

\* The finally of _consume, after the error if there was one.
Over(s, how) ==
    /\ source' = [source EXCEPT ![s] = how]
    /\ task' = [task EXCEPT ![s] = "over"]
    /\ done' = [done EXCEPT ![s] = TRUE]
    /\ Broadcast(s, IF how = "failed" THEN <<Error, End>> ELSE <<End>>)
    /\ UNCHANGED <<history, closed, at, of, got>>

SourceEnds(s) == task[s] = "running" /\ Over(s, "ended")

SourceFails(s) == task[s] \in {"running", "cancelling"} /\ Over(s, "failed")

SourceCancelled(s) == task[s] = "cancelling" /\ Over(s, "closed")

\* get_result of a stream closed before it began.
ConsumeNothing(s) ==
    /\ task[s] = "created" /\ source[s] # "live"
    /\ Over(s, source[s])

-----------------------------------------------------------------------------
(* close() *)

\* close(): what it does before it waits for the task.  A task that has not begun never
\* runs, and without a task the generator is closed at once.
CloseStream(s) ==
    /\ closed' = [closed EXCEPT ![s] = TRUE]
    /\ IF task[s] = "running"
         THEN /\ task' = [task EXCEPT ![s] = "cancelling"]
              /\ UNCHANGED <<source, done, queue>>
         ELSE IF task[s] \in {"none", "created"}
         THEN /\ task' = [task EXCEPT ![s] = IF @ = "created" THEN "over" ELSE @]
              /\ source' = [source EXCEPT ![s] = IF @ = "live" THEN "closed" ELSE @]
              /\ done' = [done EXCEPT ![s] = TRUE]
              /\ IF done[s] THEN UNCHANGED queue ELSE Broadcast(s, <<End>>)
         ELSE UNCHANGED <<source, task, done, queue>>
    /\ UNCHANGED history

\* The task is over.
CloseReturns(u) ==
    /\ at[u] = "closing" /\ task[of[u]] \in {"none", "over"}
    /\ Goes(u, "left")
    /\ UNCHANGED <<streamVars, of, queue, got>>

-----------------------------------------------------------------------------
(* Readers *)

\* Mutant of Subscribe: a late reader is not replayed the history.
SubscribeLive(x, s) ==
    /\ at[x] = "idle" /\ ~closed[s]
    /\ EnsureStarted(s)
    /\ Goes(x, "reading") /\ of' = [of EXCEPT ![x] = s]
    /\ queue' = [queue EXCEPT ![x] = IF source[s] = "failed" THEN <<Error>>
                                     ELSE IF done[s] THEN <<End>> ELSE <<>>]
    /\ UNCHANGED <<history, source, done, closed, got>>

Subscribe(x, s) ==
    /\ at[x] = "idle" /\ ~closed[s]
    /\ EnsureStarted(s)
    /\ Goes(x, "reading") /\ of' = [of EXCEPT ![x] = s]
    /\ queue' = [queue EXCEPT ![x] = Numbers(history[s]) \o
                     (IF source[s] = "failed" THEN <<Error>>
                      ELSE IF done[s] THEN <<End>> ELSE <<>>)]
    /\ UNCHANGED <<history, source, done, closed, got>>

SubscribeRefused(x, s) ==
    /\ at[x] = "idle" /\ closed[s]
    /\ Goes(x, "raised") /\ of' = [of EXCEPT ![x] = s]
    /\ UNCHANGED <<streamVars, queue, got>>

Read(x) ==
    /\ at[x] = "reading" /\ queue[x] # <<>>
    /\ LET msg == Head(queue[x]) IN
           IF msg = End THEN Goes(x, "ended") /\ UNCHANGED got
           ELSE IF msg = Error THEN Goes(x, "raised") /\ UNCHANGED got
           ELSE got' = [got EXCEPT ![x] = Append(@, msg)] /\ UNCHANGED at
    /\ queue' = [queue EXCEPT ![x] = Tail(@)]
    /\ UNCHANGED <<streamVars, of>>

\* The reader breaks off its loop.
Quit(x) ==
    /\ at[x] = "reading"
    /\ Goes(x, "left")
    /\ UNCHANGED <<streamVars, of, queue, got>>

\* The reader is cancelled: it closes the stream, for everyone.
ReadCancelled(x) ==
    /\ at[x] = "reading"
    /\ Goes(x, "closing")
    /\ CloseStream(of[x])
    /\ UNCHANGED <<of, got>>

-----------------------------------------------------------------------------
(* Waiters *)

\* get_result; a caller whose result does not satisfy it asks again, with a new request.
Wait(w, s) ==
    /\ \/ at[w] = "idle"
       \/ at[w] = "ended" /\ task[s] = "none" /\ ~closed[s]
    /\ EnsureStarted(s)
    /\ Goes(w, "waiting") /\ of' = [of EXCEPT ![w] = s]
    /\ UNCHANGED <<history, source, done, closed, queue, got>>

WaitReturns(w) ==
    /\ at[w] = "waiting" /\ done[of[w]]
    /\ Goes(w, IF source[of[w]] = "failed" THEN "raised" ELSE "ended")
    /\ UNCHANGED <<streamVars, of, queue, got>>

\* The waiter is cancelled: it closes the stream, for everyone.
WaitCancelled(w) ==
    /\ at[w] = "waiting"
    /\ Goes(w, "closing")
    /\ CloseStream(of[w])
    /\ UNCHANGED <<of, got>>

\* async_close of the response.
Close(w, s) ==
    /\ at[w] = "idle"
    /\ Goes(w, "closing") /\ of' = [of EXCEPT ![w] = s]
    /\ CloseStream(s)
    /\ UNCHANGED got

-----------------------------------------------------------------------------
(* Properties *)

\* A reader has the messages in order, none twice and none missing, whenever it
\* subscribed; when its loop ends it has all that were broadcast (get_async_generator).
ReadersReplay ==
    \A x \in Readers : of[x] # NoStream =>
        /\ got[x] = Numbers(Len(got[x]))
        /\ Len(got[x]) <= history[of[x]]
        /\ at[x] = "ended" => Len(got[x]) = history[of[x]]

\* What ends without an error is the whole output, unless the stream was closed, and never
\* the output of a generator that failed (_consume, get_async_generator, get_result, close).
EndsHonestly ==
    \A u \in Readers \cup Waiters : at[u] = "ended" =>
        source[of[u]] = "ended" \/ (closed[of[u]] /\ source[of[u]] # "failed")
=============================================================================
