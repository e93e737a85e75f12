------------------------------ MODULE Collector ------------------------------
(***************************************************************************)
(* The SSE collector of the producer, src/src/producer/collector.py: a     *)
(* single thread that connects to the Wikimedia recentchange stream,       *)
(* buffers the events it receives, hands the buffer to a callback when it  *)
(* is full or old, and reconnects with back-off when anything fails.       *)
(*                                                                         *)
(* An event is its position on the stream.  The stream itself (httpx and   *)
(* the Wikimedia server) is external: it is modelled by what run() sees of *)
(* it, a connection that delivers the published events in order from the   *)
(* position asked for by Last-Event-ID, or from the live tip without one.  *)
(*                                                                         *)
(* Left out: the text of the events, logging, the received-events counter  *)
(* and the durations of the calls (time passes in Tick, at any point).     *)
(***************************************************************************)
EXTENDS Naturals, Sequences

CONSTANTS
  StreamLen,     \* number of events the stream ever publishes (bounds the model)
  Kind,          \* what the payload of each event is, see Kinds
  BatchSize,     \* settings.batch_size
  BatchTimeout,  \* settings.batch_timeout_seconds, in ticks
  RetryBase,     \* _RETRY_BASE_DELAY
  RetryMax       \* _RETRY_MAX_DELAY

Events == 1..StreamLen

\* "identified": JSON with an SSE id; "anonymous": JSON without one;
\* "malformed": data that json.loads rejects.
Kinds == {"identified", "anonymous", "malformed"}

ASSUME CollectorAssumption ==
  /\ StreamLen \in Nat
  /\ Kind \in [Events -> Kinds]
  /\ BatchSize \in Nat \ {0}
  /\ BatchTimeout \in Nat \ {0}
  /\ RetryBase \in Nat \ {0}
  /\ RetryMax \in Nat
  /\ RetryBase <= RetryMax

VARIABLES
  published,      \* how many events the stream has published so far
  pc,             \* where run() is, see Places
  cursor,         \* position of the last event the open connection delivered
  current,        \* the event in hand while the time-out flush runs, 0 if it is blank
  eventBuffer,    \* self.event_buffer
  lastEventId,    \* self._last_event_id, 0 for None
  elapsed,        \* time.time() - self.last_processed_time, saturated at BatchTimeout
  retryDelay,     \* retry_delay
  start,          \* history: position the last connection without Last-Event-ID began at
  handed,         \* history: events of the batches whose callback returned
  failed,         \* history: events of the batches whose callback raised
  crashed         \* history: events that were buffered when the process died

streamVars == <<published, cursor, start>>
bufferVars == <<eventBuffer, lastEventId, elapsed>>
fateVars   == <<handed, failed, crashed>>
vars == <<published, pc, cursor, current, eventBuffer, lastEventId, elapsed,
          retryDelay, start, handed, failed, crashed>>

\* "timeoutFlush" and "sizeFlush": inside the callback called from the two places
\* of run() that call _process_buffer.
Places == {"connecting", "streaming", "timeoutFlush", "sizeFlush", "sleeping", "down"}

Held == {eventBuffer[i] : i \in DOMAIN eventBuffer}

Identified(e) == Kind[e] = "identified"

Smaller(a, b) == IF a < b THEN a ELSE b

Init ==
  /\ published = 0
  /\ pc = "connecting"
  /\ cursor = 0
  /\ current = 0
  /\ eventBuffer = <<>>
  /\ lastEventId = 0
  /\ elapsed = 0
  /\ retryDelay = RetryBase
  /\ start = 0
  /\ handed = {}
  /\ failed = {}
  /\ crashed = {}

-----------------------------------------------------------------------------
(* The environment. *)

\* Wikimedia publishes one more event.
Publish ==
  /\ published < StreamLen
  /\ published' = published + 1
  /\ UNCHANGED <<pc, cursor, current, bufferVars, retryDelay, start, fateVars>>

\* Time passes since last_processed_time.
Tick ==
  /\ pc # "down"
  /\ elapsed < BatchTimeout
  /\ elapsed' = elapsed + 1
  /\ UNCHANGED <<streamVars, pc, current, eventBuffer, lastEventId, retryDelay, fateVars>>

-----------------------------------------------------------------------------
(* Connecting and reconnecting. *)

\* Faulty: the header is never sent.
ResumeAtTip == published

\* Faulty: the last event is asked for again.
ResumeAtLast == IF lastEventId # 0 THEN lastEventId - 1 ELSE published

\* The position the server starts from.  The header is sent only when an id is
\* known; without it the server starts at the live tip.
ResumePosition == IF lastEventId # 0 THEN lastEventId ELSE published

\* connect_sse succeeds.
Connect ==
  /\ pc = "connecting"
  /\ pc' = "streaming"
  /\ retryDelay' = RetryBase
  /\ cursor' = ResumePosition
  /\ start' = IF lastEventId # 0 THEN start ELSE published
  /\ UNCHANGED <<published, current, bufferVars, fateVars>>

\* The attempt fails, or the open connection breaks: both except clauses sleep.
ConnectionFails ==
  /\ pc \in {"connecting", "streaming"}
  /\ pc' = "sleeping"
  /\ UNCHANGED <<streamVars, current, bufferVars, retryDelay, fateVars>>

\* time.sleep(retry_delay) returns and the delay doubles.
Wake ==
  /\ pc = "sleeping"
  /\ pc' = "connecting"
  /\ retryDelay' = Smaller(2 * retryDelay, RetryMax)
  /\ UNCHANGED <<streamVars, current, bufferVars, fateVars>>

\* The server ends the response: iter_sse stops without an exception and the
\* while loop goes round.
StreamEnds ==
  /\ pc = "streaming"
  /\ pc' = "connecting"
  /\ UNCHANGED <<streamVars, current, bufferVars, retryDelay, fateVars>>

-----------------------------------------------------------------------------
(* The body of the for loop. *)

\* Faulty: the time-out is never checked.
FlushNever == FALSE

FlushDue == eventBuffer # <<>> /\ elapsed >= BatchTimeout

\* Faulty: one event too late.
BufferFullLate(n) == n > BatchSize

BufferFull(n) == n >= BatchSize

\* The rest of the loop body, after the time-out check, for event e (0: blank)
\* with buf as the buffer.
Take(e, buf) ==
  \/ /\ e = 0
     /\ eventBuffer' = buf
     /\ pc' = "streaming"
     /\ UNCHANGED lastEventId
  \/ /\ e # 0
     /\ Kind[e] = "malformed"
     /\ eventBuffer' = buf
     /\ pc' = "streaming"
     /\ UNCHANGED lastEventId
  \/ /\ e # 0
     /\ Kind[e] # "malformed"
     /\ eventBuffer' = Append(buf, e)
     /\ lastEventId' = IF Identified(e) THEN e ELSE lastEventId
     /\ pc' = IF BufferFull(Len(buf) + 1) THEN "sizeFlush" ELSE "streaming"

\* The connection delivers the next event.
Receive ==
  /\ pc = "streaming"
  /\ cursor < published
  /\ cursor' = cursor + 1
  /\ \/ /\ FlushDue
        /\ pc' = "timeoutFlush"
        /\ current' = cursor + 1
        /\ UNCHANGED <<eventBuffer, lastEventId>>
     \/ /\ ~FlushDue
        /\ Take(cursor + 1, eventBuffer)
        /\ UNCHANGED current
  /\ UNCHANGED <<published, start, elapsed, retryDelay, fateVars>>

\* The connection delivers an event without data: it only drives the time-out check.
ReceiveBlank ==
  /\ pc = "streaming"
  /\ FlushDue
  /\ pc' = "timeoutFlush"
  /\ current' = 0
  /\ UNCHANGED <<streamVars, bufferVars, retryDelay, fateVars>>

-----------------------------------------------------------------------------
(* _process_buffer: the callback runs on a copy, the buffer is cleared     *)
(* whatever happens, the timer restarts only if the callback returned.     *)

InCallback == pc \in {"timeoutFlush", "sizeFlush"}

CallbackReturns ==
  /\ InCallback
  /\ handed' = handed \cup Held
  /\ elapsed' = 0
  /\ current' = 0
  /\ \/ pc = "timeoutFlush" /\ Take(current, <<>>)
     \/ /\ pc = "sizeFlush"
        /\ eventBuffer' = <<>>
        /\ pc' = "streaming"
        /\ UNCHANGED lastEventId
  /\ UNCHANGED <<streamVars, retryDelay, failed, crashed>>

\* Faulty: no finally clause, so the batch stays in the buffer.
CallbackRaisesKeeping ==
  /\ InCallback
  /\ failed' = failed \cup Held
  /\ current' = 0
  /\ pc' = "sleeping"
  /\ UNCHANGED <<streamVars, bufferVars, retryDelay, handed, crashed>>

\* The exception leaves the loop: run() sleeps and reconnects.
CallbackRaises ==
  /\ InCallback
  /\ failed' = failed \cup Held
  /\ eventBuffer' = <<>>
  /\ current' = 0
  /\ pc' = "sleeping"
  /\ UNCHANGED <<streamVars, lastEventId, elapsed, retryDelay, handed, crashed>>

-----------------------------------------------------------------------------
(* The process dies and Docker starts it again; nothing was on disk. *)

Crash ==
  /\ pc # "down"
  /\ pc' = "down"
  /\ crashed' = crashed \cup Held
  /\ cursor' = 0
  /\ current' = 0
  /\ eventBuffer' = <<>>
  /\ lastEventId' = 0
  /\ elapsed' = 0
  /\ retryDelay' = RetryBase
  /\ UNCHANGED <<published, start, handed, failed>>

\* The process is started again, and its set-up is over: that may take any time, since it
\* waits for Kafka, and ends well, since everything else that fails in it is only logged.
Restart ==
  /\ pc = "down"
  /\ pc' = "connecting"
  /\ UNCHANGED <<streamVars, current, bufferVars, retryDelay, fateVars>>

-----------------------------------------------------------------------------
Callback == CallbackReturns \/ CallbackRaises

Next ==
  \/ Publish
  \/ Tick
  \/ Connect
  \/ ConnectionFails
  \/ Wake
  \/ StreamEnds
  \/ Receive
  \/ ReceiveBlank
  \/ CallbackReturns
  \/ CallbackRaises
  \/ Crash
  \/ Restart

Spec == Init /\ [][Next]_vars

\* The thread keeps running; attempts to connect do not fail for ever; connections
\* may break again and again, but not each time just before the same event; and
\* the stream keeps delivering something, which is what drives the time-out check.
Fairness ==
  /\ WF_vars(Tick)
  /\ WF_vars(Wake)
  /\ WF_vars(Restart)
  /\ SF_vars(Connect)
  /\ \A e \in Events : SF_vars(Receive /\ cursor' = e)
  /\ SF_vars(ReceiveBlank)
  /\ WF_vars(Callback)

FairSpec == Spec /\ Fairness

-----------------------------------------------------------------------------
(* Properties. *)

Anonymous == {e \in Events : Kind[e] = "anonymous"}

Resolved == handed \cup failed \cup crashed

TypeOK ==
  /\ published \in 0..StreamLen
  /\ pc \in Places
  /\ cursor \in 0..published
  /\ current \in 0..cursor
  /\ eventBuffer \in Seq(Events)
  /\ Len(eventBuffer) <= BatchSize
  /\ lastEventId \in 0..published
  /\ elapsed \in 0..BatchTimeout
  /\ retryDelay \in RetryBase..RetryMax
  /\ start \in 0..published
  /\ handed \in SUBSET Events
  /\ failed \in SUBSET Events
  /\ crashed \in SUBSET Events

\* The position run() resumes from never passes an event it did not take: between
\* where this life of the process joined the stream and _last_event_id, every
\* JSON event is in the buffer or went to a callback, across any number of
\* reconnections.
GapFree ==
  \A e \in Events :
    (start < e /\ e <= lastEventId /\ Kind[e] # "malformed")
      => e \in Held \cup handed \cup failed

\* No identified event is taken twice or out of order, over reconnections and
\* restarts: what follows it in the buffer is later on the stream, and an event
\* is buffered only after everything identified that left the buffer before it.
InStreamOrder ==
  /\ \A i, j \in DOMAIN eventBuffer :
       (i < j /\ Identified(eventBuffer[i])) => eventBuffer[i] < eventBuffer[j]
  /\ \A e \in Resolved, b \in Held : Identified(e) => e < b

\* An identified event has one fate: the callback took it, the callback failed
\* with it, or it died with the process.
OneFate ==
  \A e \in Events :
    Identified(e) => /\ ~(e \in handed /\ e \in failed)
                     /\ ~(e \in handed /\ e \in crashed)
                     /\ ~(e \in failed /\ e \in crashed)

\* The inductive invariant of the proofs in CollectorProofs.
Connected == pc \in {"streaming", "timeoutFlush", "sizeFlush"}

\* The event in hand is the last one delivered, and only a flush keeps one in hand.
InHand == current # 0 => pc = "timeoutFlush" /\ current = cursor

\* Only the flush that a full buffer triggers sees a full buffer.
RoomLeft == pc # "sizeFlush" => Len(eventBuffer) < BatchSize

\* Everything JSON that this life's connections delivered was taken, except the
\* event in hand.
DeliveredTaken ==
  Connected =>
    \A e \in Events :
      (start < e /\ e <= cursor /\ e # current /\ Kind[e] # "malformed")
        => e \in Held \cup handed \cup failed

\* Nothing identified that was taken is still to come on the open connection or
\* on the one that _last_event_id would open.
TakenBehind ==
  \A e \in Held \cup Resolved :
    /\ e <= published
    /\ Identified(e) => /\ lastEventId # 0 => e <= lastEventId
                        /\ Connected => e <= cursor /\ e # current

IdBehindCursor == Connected => lastEventId <= cursor

IInv ==
  /\ TypeOK
  /\ InHand
  /\ RoomLeft
  /\ DeliveredTaken
  /\ TakenBehind
  /\ IdBehindCursor
  /\ GapFree
  /\ InStreamOrder
  /\ OneFate

\* While the stream keeps delivering something, an event published after the process
\* joined it is eventually given to the callback, or lost with a process that restarted
\* beyond it.  (With an anonymous event in the stream a callback that never stops raising
\* can make run() receive the same events for ever.)
EventuallyOffered ==
  (Anonymous # {} => <>[][~CallbackRaises]_vars) =>
    \A e \in Events :
      (pc = "streaming" /\ start < e /\ e <= published /\ Kind[e] # "malformed")
        ~> (e \in Resolved \/ e <= start)
=============================================================================
