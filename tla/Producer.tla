------------------------------- MODULE Producer -------------------------------
(***************************************************************************)
(* The producer process, src/src/producer/main.py: the collector's thread  *)
(* calls process_batch with its buffer, and what process_batch does is     *)
(* what the callback of Collector returns or raises.  KafkaProducer's      *)
(* background thread runs beside both and dies with them.                  *)
(***************************************************************************)
EXTENDS Naturals, Sequences

CONSTANTS StreamLen, Kind, BatchSize, BatchTimeout, RetryBase, RetryMax, Class

VARIABLES
  published, pc, cursor, current, eventBuffer, lastEventId, elapsed, retryDelay,
  start, handed, failed, crashed,
  phase, resume, batch, index, valid, skipped, inFlight, future, topic, dlq,
  reported, refused, silent, doubtful, sloRow, returned, aborted, died

C == INSTANCE Collector
B == INSTANCE ProcessBatch

ASSUME ProducerAssumption == C!CollectorAssumption /\ B!ProcessBatchAssumption

collectorVars == <<published, pc, cursor, current, eventBuffer, lastEventId, elapsed,
                   retryDelay, start, handed, failed, crashed>>
batchVars == <<phase, resume, batch, index, valid, skipped, inFlight, future, topic,
               dlq, reported, refused, silent, doubtful, sloRow, returned, aborted, died>>
vars == <<collectorVars, batchVars>>

Init == C!Init /\ B!Init

-----------------------------------------------------------------------------
\* run() outside the callback; the batch in progress, if any, is untouched.
Collecting ==
  /\ \/ C!Publish
     \/ C!Tick
     \/ C!Connect
     \/ C!ConnectionFails
     \/ C!Wake
     \/ C!StreamEnds
     \/ C!Receive
     \/ C!ReceiveBlank
     \/ C!Restart
  /\ UNCHANGED batchVars

\* _process_buffer calls process_batch with a copy of the buffer.
Call ==
  /\ C!InCallback
  /\ B!Begin(eventBuffer)
  /\ UNCHANGED collectorVars

Working == B!Body /\ UNCHANGED collectorVars

\* Faulty: the buffer is not cleared after a batch that returned.
ReturnKeeping == B!Return /\ UNCHANGED collectorVars

Return == B!Return /\ C!CallbackReturns

Raise == B!Raise /\ C!CallbackRaises

KafkaWorks == B!KafkaResolves /\ UNCHANGED collectorVars

Crash == C!Crash /\ B!Crash

CallbackStep == Call \/ Working \/ Return \/ Raise

Next == Collecting \/ CallbackStep \/ KafkaWorks \/ Crash

Spec == Init /\ [][Next]_vars

\* The collector's thread keeps running, and KafkaProducer's resolves every record: it
\* retries a bounded number of times and expires what it cannot send.
FairSpec == Spec /\ WF_vars(CallbackStep) /\ WF_vars(KafkaWorks)

-----------------------------------------------------------------------------
(* Properties. *)

Routed(e) ==
  \/ Class[e] = "skip"
  \/ e \in topic \cup B!DlqAttempted

\* Between where the process joined the stream and _last_event_id, an event is in
\* the buffer, was stored, dropped on purpose or offered to the DLQ, or was in a
\* batch that raised: nothing else loses it while the process lives.
NothingElseIsLost ==
  \A e \in C!Events :
    (start < e /\ e <= lastEventId /\ Kind[e] # "malformed")
      => e \in C!Held \/ Routed(e) \/ e \in aborted

\* An identified event is sent to the main topic at most once, although connections
\* are resumed, batches are aborted with records in flight, and processes restart.
SentOnce ==
  \A r \in inFlight :
    (r.to = "topic" /\ Kind[r.event] = "identified")
      => r.event \notin topic \cup B!DlqAttempted

\* The process implements Collector: process_batch is a callback that takes the
\* whole buffer, and ends, by returning or raising, as long as the process lives.
ImplementsCollector == C!Spec /\ WF_collectorVars(C!Callback)
=============================================================================
