----------------------------- MODULE ProcessBatch -----------------------------
(***************************************************************************)
(* One micro-batch through the producer: process_batch of                  *)
(* src/src/producer/main.py, KafkaSender of src/src/producer/sender.py and *)
(* the row SloWriter leaves of it, on top of kafka-python's KafkaProducer. *)
(*                                                                         *)
(* KafkaProducer is external: send() puts a record in the accumulator or   *)
(* raises (no metadata, full buffer), a background thread resolves what is *)
(* in flight in any order while the main thread runs, and flush() returns  *)
(* once nothing is in flight.  With acks=1 and retries a record may be     *)
(* stored although its future fails.                                       *)
(*                                                                         *)
(* Left out: the content of events and of the DLQ metadata, logging, the   *)
(* duration of the batch, and the enricher, which is a step that returns   *)
(* or raises here and does not drop events.                                *)
(***************************************************************************)
EXTENDS Naturals, Sequences, FiniteSets

CONSTANTS
  StreamLen,   \* number of events (bounds the model)
  Class        \* what process_batch makes of each event, see Classes

Events == 1..StreamLen

\* "skip": log and canary events; "invalid": WikimediaEvent rejects it; "odd": JSON
\* that is not an object (or whose meta is not), on which _should_skip raises.
Classes == {"valid", "skip", "invalid", "odd"}

ASSUME ProcessBatchAssumption ==
  /\ StreamLen \in Nat
  /\ Class \in [Events -> Classes]

VARIABLES
  phase,       \* where process_batch is, see Phases
  resume,      \* where send_to_dlq returns to
  batch,       \* the events handed over
  index,       \* loop position, in batch, in valid or in the futures
  valid,       \* valid_events
  skipped,     \* skipped
  inFlight,    \* records accepted by KafkaProducer.send and not resolved
  future,      \* what the future of each event's main record says
  topic,       \* events stored on the main topic
  dlq,         \* events stored on the DLQ topic
  reported,    \* events whose DLQ send raised, which logs at CRITICAL
  silent,      \* history: events whose DLQ record failed after send returned
  doubtful,    \* history: events stored on the main topic whose future failed
  refused,     \* history: valid events whose send to the main topic raised
  sloRow,      \* the producer_slo_metrics row of the last batch, NoRow if its INSERT failed
  returned,    \* history: events of the batches that returned
  aborted,     \* history: events of the batches that raised
  died         \* history: events of the batches the process died with

workVars  == <<phase, resume, batch, index, valid, skipped>>
kafkaVars == <<inFlight, future, topic, dlq, silent, doubtful>>
logVars   == <<reported, refused>>
batchFate == <<returned, aborted, died>>
vars == <<phase, resume, batch, index, valid, skipped, inFlight, future, topic, dlq,
          reported, refused, silent, doubtful, sloRow, returned, aborted, died>>

Phases == {"idle", "validate", "enrich", "send", "settle", "dlqFlush", "record", "raised"}

Elems(s) == {s[i] : i \in DOMAIN s}

Record(e, t) == [event |-> e, to |-> t]
Records == [event : Events, to : {"topic", "dlq"}]

NoRow == [size |-> 0, valid |-> 0, skipped |-> 0]

Init ==
  /\ phase = "idle"
  /\ resume = "validate"
  /\ batch = <<>>
  /\ index = 1
  /\ valid = <<>>
  /\ skipped = 0
  /\ inFlight = {}
  /\ future = [e \in Events |-> "none"]
  /\ topic = {}
  /\ dlq = {}
  /\ reported = {}
  /\ refused = {}
  /\ silent = {}
  /\ doubtful = {}
  /\ sloRow = NoRow
  /\ returned = {}
  /\ aborted = {}
  /\ died = {}

-----------------------------------------------------------------------------
(* The call and the validation loop. *)

\* Faulty: valid_events outlives the call.
BeginKeeping(b) ==
  /\ phase = "idle"
  /\ phase' = "validate"
  /\ batch' = b
  /\ index' = 1
  /\ skipped' = 0
  /\ UNCHANGED <<resume, valid, kafkaVars, logVars, sloRow, batchFate>>

\* The collector calls process_batch with the events of b.
Begin(b) ==
  /\ phase = "idle"
  /\ phase' = "validate"
  /\ batch' = b
  /\ index' = 1
  /\ valid' = <<>>
  /\ skipped' = 0
  /\ UNCHANGED <<resume, kafkaVars, logVars, sloRow, batchFate>>

\* send_to_dlq(e, ...) called from phase back: send() may raise, which is caught and
\* logged; otherwise flush() runs, and the future of the record is not looked at.
SendToDlq(e, back) ==
  \/ /\ reported' = reported \cup {e}
     /\ phase' = back
     /\ UNCHANGED <<resume, inFlight>>
  \/ /\ inFlight' = inFlight \cup {Record(e, "dlq")}
     /\ phase' = "dlqFlush"
     /\ resume' = back
     /\ UNCHANGED reported

DlqFlushed ==
  /\ phase = "dlqFlush"
  /\ inFlight = {}
  /\ phase' = resume
  /\ UNCHANGED <<resume, batch, index, valid, skipped, kafkaVars, logVars, sloRow, batchFate>>

InHand == batch[index]

Validating(class) ==
  /\ phase = "validate"
  /\ index <= Len(batch)
  /\ Class[InHand] = class

\* Faulty: the skipped events are not counted.
SkipUncounted ==
  /\ Validating("skip")
  /\ index' = index + 1
  /\ UNCHANGED <<phase, resume, batch, valid, skipped, kafkaVars, logVars, sloRow, batchFate>>

Skip ==
  /\ Validating("skip")
  /\ skipped' = skipped + 1
  /\ index' = index + 1
  /\ UNCHANGED <<phase, resume, batch, valid, kafkaVars, logVars, sloRow, batchFate>>

Accept ==
  /\ Validating("valid")
  /\ valid' = Append(valid, InHand)
  /\ index' = index + 1
  /\ UNCHANGED <<phase, resume, batch, skipped, kafkaVars, logVars, sloRow, batchFate>>

Reject ==
  /\ Validating("invalid")
  /\ SendToDlq(InHand, "validate")
  /\ index' = index + 1
  /\ UNCHANGED <<batch, valid, skipped, future, topic, dlq, silent, doubtful, refused, sloRow, batchFate>>

ValidationRaises ==
  /\ Validating("odd")
  /\ phase' = "raised"
  /\ UNCHANGED <<resume, batch, index, valid, skipped, kafkaVars, logVars, sloRow, batchFate>>

EndValidation ==
  /\ phase = "validate"
  /\ index > Len(batch)
  /\ phase' = "enrich"
  /\ UNCHANGED <<resume, batch, index, valid, skipped, kafkaVars, logVars, sloRow, batchFate>>

-----------------------------------------------------------------------------
(* enrich_events and send_events. *)

\* With no valid event enrich_events does nothing and send_events returns at once;
\* otherwise the enricher's cache and API calls may raise.
Enrich ==
  /\ phase = "enrich"
  /\ \/ valid = <<>> /\ phase' = "record"
     \/ valid # <<>> /\ phase' \in {"send", "raised"}
  /\ index' = 1
  /\ UNCHANGED <<resume, batch, valid, skipped, kafkaVars, logVars, sloRow, batchFate>>

\* The list of futures is built before anything is waited for; an exception of
\* send() leaves send_events.
SendNext ==
  /\ phase = "send"
  /\ index <= Len(valid)
  /\ \/ /\ inFlight' = inFlight \cup {Record(valid[index], "topic")}
        /\ index' = index + 1
        /\ UNCHANGED <<phase, refused>>
     \/ /\ phase' = "raised"
        /\ refused' = refused \cup {valid[index]}
        /\ UNCHANGED <<inFlight, index>>
  /\ UNCHANGED <<resume, batch, valid, skipped, future, topic, dlq, silent, doubtful,
                 reported, sloRow, batchFate>>

\* Faulty: the futures are read without a flush.
NotFlushed ==
  /\ phase = "send"
  /\ index > Len(valid)
  /\ phase' = "settle"
  /\ index' = 1
  /\ UNCHANGED <<resume, batch, valid, skipped, kafkaVars, logVars, sloRow, batchFate>>

\* flush() returns.
Flushed ==
  /\ phase = "send"
  /\ index > Len(valid)
  /\ inFlight = {}
  /\ phase' = "settle"
  /\ index' = 1
  /\ UNCHANGED <<resume, batch, valid, skipped, kafkaVars, logVars, sloRow, batchFate>>

\* Faulty: a failed future is taken for a success.
ResolvedIsAcked(e) == future[e] # "none"

\* Faulty: every event is sent to the DLQ as well.
NeverAcked(e) == FALSE

Acked(e) == future[e] = "ok"

\* future.get for the next event: a success is counted, anything else goes to the DLQ.
Settle ==
  /\ phase = "settle"
  /\ index <= Len(valid)
  /\ index' = index + 1
  /\ \/ /\ Acked(valid[index])
        /\ UNCHANGED <<phase, resume, inFlight, reported>>
     \/ /\ ~Acked(valid[index])
        /\ SendToDlq(valid[index], "settle")
  /\ UNCHANGED <<batch, valid, skipped, future, topic, dlq, silent, doubtful, refused, sloRow, batchFate>>

EndSettle ==
  /\ phase = "settle"
  /\ index > Len(valid)
  /\ phase' = "record"
  /\ UNCHANGED <<resume, batch, index, valid, skipped, kafkaVars, logVars, sloRow, batchFate>>

-----------------------------------------------------------------------------
(* The end of the call. *)

\* slo_writer.write: a failed INSERT is only logged.  process_batch returns.
Return ==
  /\ phase = "record"
  /\ phase' = "idle"
  /\ sloRow' \in {NoRow, [size |-> Len(batch), valid |-> Len(valid), skipped |-> skipped]}
  /\ returned' = returned \cup Elems(batch)
  /\ UNCHANGED <<resume, batch, index, valid, skipped, kafkaVars, logVars, aborted, died>>

\* The exception reaches the collector.
Raise ==
  /\ phase = "raised"
  /\ phase' = "idle"
  /\ aborted' = aborted \cup Elems(batch)
  /\ UNCHANGED <<resume, batch, index, valid, skipped, kafkaVars, logVars, sloRow, returned, died>>

\* The process dies; the accumulator was in its memory.
Crash ==
  /\ phase' = "idle"
  /\ resume' = "validate"
  /\ batch' = <<>>
  /\ index' = 1
  /\ valid' = <<>>
  /\ skipped' = 0
  /\ inFlight' = {}
  /\ died' = IF phase = "idle" THEN died ELSE died \cup Elems(batch)
  /\ UNCHANGED <<future, topic, dlq, silent, doubtful, logVars, sloRow, returned, aborted>>

-----------------------------------------------------------------------------
(* KafkaProducer's background thread. *)

Resolve(r, stored, acked) ==
  /\ r \in inFlight
  /\ inFlight' = inFlight \ {r}
  /\ acked => stored
  /\ IF r.to = "topic"
     THEN /\ future' = [future EXCEPT ![r.event] = IF acked THEN "ok" ELSE "failed"]
          /\ topic' = IF stored THEN topic \cup {r.event} ELSE topic
          /\ doubtful' = IF stored /\ ~acked THEN doubtful \cup {r.event} ELSE doubtful
          /\ UNCHANGED <<dlq, silent>>
     ELSE /\ dlq' = IF stored THEN dlq \cup {r.event} ELSE dlq
          /\ silent' = IF stored THEN silent ELSE silent \cup {r.event}
          /\ UNCHANGED <<future, topic, doubtful>>
  /\ UNCHANGED <<workVars, logVars, sloRow, batchFate>>

KafkaResolves == \E r \in inFlight, stored, acked \in BOOLEAN : Resolve(r, stored, acked)

-----------------------------------------------------------------------------
\* On its own, the module is driven by a collector that hands over the next one or
\* two events.
Handled == returned \cup aborted \cup died

BeginNext ==
  \E first, last \in Events :
    /\ Handled = 1..(first - 1)
    /\ last \in {first, first + 1}
    /\ Begin([i \in 1..(last - first + 1) |-> first + i - 1])

\* The steps of process_batch between its call and its end.
Body ==
  \/ DlqFlushed
  \/ Skip
  \/ Accept
  \/ Reject
  \/ ValidationRaises
  \/ EndValidation
  \/ Enrich
  \/ SendNext
  \/ Flushed
  \/ Settle
  \/ EndSettle

Main == Body \/ Return \/ Raise

Next == BeginNext \/ Main \/ KafkaResolves \/ Crash

Spec == Init /\ [][Next]_vars

-----------------------------------------------------------------------------
(* Properties. *)

\* Where an event that left process_batch may be.
DlqAttempted == dlq \cup silent \cup reported

TypeOK ==
  /\ phase \in Phases
  /\ resume \in {"validate", "settle"}
  /\ batch \in Seq(Events)
  /\ index \in 1..(Len(batch) + 1)
  /\ valid \in Seq(Events)
  /\ Len(valid) + skipped <= Len(batch)
  /\ skipped \in Nat
  /\ inFlight \in SUBSET Records
  /\ future \in [Events -> {"none", "ok", "failed"}]
  /\ topic \in SUBSET Events
  /\ dlq \in SUBSET Events
  /\ reported \in SUBSET Events
  /\ refused \in SUBSET Events
  /\ silent \in SUBSET Events
  /\ doubtful \in SUBSET Events
  /\ sloRow \in [size : Nat, valid : Nat, skipped : Nat]
  /\ returned \in SUBSET Events
  /\ aborted \in SUBSET Events
  /\ died \in SUBSET Events

\* A batch that returned normally left no event behind: what is valid is on the main
\* topic or was offered to the DLQ, what is invalid was offered to the DLQ and is not
\* on the main topic, what is skipped is nowhere.  And what the batch's row leaves over,
\* batch_size - valid - skipped, is what the validation rejected, however many events
\* send_events routed to the DLQ.
ReturnedIsRouted ==
  /\ \A e \in returned :
       /\ Class[e] = "valid" => e \in topic \cup DlqAttempted
       /\ Class[e] = "invalid" => e \in DlqAttempted \ topic
       /\ Class[e] = "skip" => e \notin topic \cup DlqAttempted
  /\ (phase = "idle" /\ sloRow # NoRow /\ Elems(batch) \cap returned # {})
       => sloRow.size - (sloRow.valid + sloRow.skipped)
            = Cardinality({e \in Elems(batch) : Class[e] = "invalid"})

\* The DLQ and the main topic share an event only when the broker stored it and its
\* acknowledgement was lost.
OneRoute == topic \cap DlqAttempted \subseteq doubtful

\* flush() is a barrier: when the futures are read each of them is resolved, so that
\* future.get(timeout=10) never waits, and nothing of a batch that returned is in
\* flight while a later batch runs.
FlushIsBarrier ==
  /\ phase = "settle" => \A i \in DOMAIN valid : future[valid[i]] # "none"
  /\ \A r \in inFlight : r.event \notin returned

\* docs/evaluation_result/EVALUATION_RESULT_260312.md:83: a failure to send to
\* Redpanda is routed to the DLQ.
SendFailureIsRouted == phase = "idle" => refused \subseteq DlqAttempted \cup died
=============================================================================
