---------------------------- MODULE ProducerProofs ----------------------------
(***************************************************************************)
(* The composed producer implements the collector: whatever process_batch  *)
(* and KafkaProducer do in between is stuttering to run(), and the return  *)
(* of the one is the callback step of the other.  What is proved of the    *)
(* collector alone therefore holds in the composition.  The invariant of   *)
(* process_batch holds in it too, for the events with an SSE id: the       *)
(* collector, which alone hands batches over, gives none of them twice.    *)
(***************************************************************************)
EXTENDS Producer, TLAPS

CP == INSTANCE CollectorProofs
BP == INSTANCE ProcessBatchProofs

\* The collector starts within the producer as it does alone.
LEMMA InitRefines == Init => C!Init
  BY DEF Init

\* Each step of the producer is a step of the collector or leaves it unchanged.
LEMMA StepRefines == [Next]_vars => [C!Next]_(C!vars)
<1> SUFFICES ASSUME [Next]_vars PROVE [C!Next]_(C!vars)
  OBVIOUS
<1>1. CASE Collecting
  BY <1>1 DEF Collecting, C!Next
<1>2. CASE CallbackStep
  <2>1. CASE Call \/ Working
    BY <2>1 DEF Call, Working, collectorVars, C!vars
  <2>2. CASE Return \/ Raise
    BY <2>2 DEF Return, Raise, C!Next
  <2> QED BY <1>2, <2>1, <2>2 DEF CallbackStep
<1>3. CASE KafkaWorks
  BY <1>3 DEF KafkaWorks, collectorVars, C!vars
<1>4. CASE Crash
  BY <1>4 DEF Crash, C!Next
<1>5. CASE UNCHANGED vars
  BY <1>5 DEF vars, collectorVars, C!vars
<1> QED BY <1>1, <1>2, <1>3, <1>4, <1>5 DEF Next

\* Every behaviour of the producer is a behaviour of the collector.
THEOREM RefinesCollector == Spec => C!Spec
  BY InitRefines, StepRefines, PTL DEF Spec, C!Spec

\* The invariant of CollectorProofs, in the composition.
LEMMA CollectorInv == Spec => []C!IInv
<1>1. C!CollectorAssumption
  BY ProducerAssumption
<1>2. C!Spec => []C!IInv
  <2>1. C!Init => CP!Init
    BY DEF C!Init, CP!Init
  <2>2. [C!Next]_(C!vars) => [CP!Next]_(CP!vars)
    BY DEF C!Next, CP!Next, C!vars, CP!vars,
         C!Publish, CP!Publish, C!Tick, CP!Tick, C!Connect, CP!Connect,
         C!ConnectionFails, CP!ConnectionFails, C!Wake, CP!Wake, C!StreamEnds,
         CP!StreamEnds, C!Receive, CP!Receive, C!ReceiveBlank, CP!ReceiveBlank,
         C!CallbackReturns, CP!CallbackReturns, C!CallbackRaises, CP!CallbackRaises,
         C!Crash, CP!Crash, C!Restart, CP!Restart, C!Events, CP!Events, C!Kinds,
         CP!Kinds, C!streamVars, CP!streamVars, C!bufferVars, CP!bufferVars,
         C!fateVars, CP!fateVars, C!Held, CP!Held, C!Identified, CP!Identified,
         C!Smaller, CP!Smaller, C!ResumePosition, CP!ResumePosition, C!FlushDue,
         CP!FlushDue, C!BufferFull, CP!BufferFull, C!Take, CP!Take, C!InCallback,
         CP!InCallback
  <2>3. CP!IInv => C!IInv
    BY DEF C!IInv, CP!IInv, C!TypeOK, CP!TypeOK, C!InHand, CP!InHand, C!RoomLeft,
         CP!RoomLeft, C!DeliveredTaken, CP!DeliveredTaken, C!TakenBehind,
         CP!TakenBehind, C!IdBehindCursor, CP!IdBehindCursor, C!GapFree, CP!GapFree,
         C!InStreamOrder, CP!InStreamOrder, C!OneFate, CP!OneFate, C!Connected,
         CP!Connected, C!Places, CP!Places, C!Held, CP!Held, C!Identified,
         CP!Identified, C!Events, CP!Events, C!Resolved, CP!Resolved
  <2>4. CP!Spec => []CP!IInv
    BY <1>1, CP!Inductive DEF C!CollectorAssumption, CP!CollectorAssumption,
         C!Events, CP!Events, C!Kinds, CP!Kinds
  <2> QED BY <2>1, <2>2, <2>3, <2>4, PTL DEF C!Spec, CP!Spec
<1> QED BY <1>2, RefinesCollector, PTL

\* The collector's type correctness, no gap, order and single fate, in the composition.
THEOREM CollectorInside ==
  Spec => [](C!TypeOK /\ C!GapFree /\ C!InStreamOrder /\ C!OneFate)
<1>1. C!IInv => C!TypeOK /\ C!GapFree /\ C!InStreamOrder /\ C!OneFate
  BY DEF C!IInv
<1> QED BY <1>1, CollectorInv, PTL

-----------------------------------------------------------------------------
(* The batch inside the producer. *)

\* What ProcessBatchProofs assumes is assumed of the producer.
LEMMA BatchAssumption == BP!ProcessBatchAssumption
  BY ProducerAssumption DEF B!ProcessBatchAssumption, BP!ProcessBatchAssumption, B!Events,
                            BP!Events, B!Classes, BP!Classes

\* The steps that ProcessBatchProofs is about are those the producer is composed of.
LEMMA SameInit == B!Init => BP!Init
  BY DEF B!Init, BP!Init, B!Events, BP!Events, B!NoRow, BP!NoRow

\* The steps of process_batch in the producer are those that ProcessBatchProofs is about.
LEMMA SameBegin == ASSUME NEW b, B!Begin(b) PROVE BP!Begin(b)
  BY DEF B!Begin, BP!Begin, B!kafkaVars, BP!kafkaVars, B!logVars, BP!logVars, B!batchFate,
         BP!batchFate

LEMMA SameBody == B!Body => BP!Body
  BY DEF B!Body, BP!Body, B!DlqFlushed, BP!DlqFlushed, B!Skip, BP!Skip, B!Accept, BP!Accept,
         B!Reject, BP!Reject, B!ValidationRaises, BP!ValidationRaises, B!EndValidation,
         BP!EndValidation, B!Enrich, BP!Enrich, B!SendNext, BP!SendNext, B!Flushed, BP!Flushed,
         B!Settle, BP!Settle, B!EndSettle, BP!EndSettle, B!Validating, BP!Validating, B!InHand,
         BP!InHand, B!SendToDlq, BP!SendToDlq, B!Acked, BP!Acked, B!Record, BP!Record,
         B!kafkaVars, BP!kafkaVars, B!logVars, BP!logVars, B!batchFate, BP!batchFate

LEMMA SameEnd == /\ B!Return => BP!Return
                 /\ B!Raise => BP!Raise
                 /\ B!Crash => BP!Crash
  BY DEF B!Return, BP!Return, B!Raise, BP!Raise, B!Crash, BP!Crash, B!Elems, BP!Elems, B!NoRow,
         BP!NoRow, B!kafkaVars, BP!kafkaVars, B!logVars, BP!logVars

LEMMA SameResolve == B!KafkaResolves => BP!KafkaResolves
  BY DEF B!KafkaResolves, BP!KafkaResolves, B!Resolve, BP!Resolve, B!workVars, BP!workVars,
         B!logVars, BP!logVars, B!batchFate, BP!batchFate

-----------------------------------------------------------------------------
(* The invariant of the composition. *)

Identified == {e \in BP!Events : Kind[e] = "identified"}

\* A batch in progress is the buffer of the collector, which waits for it, and what the
\* callback returned and raised with is what process_batch did.
Joined ==
  /\ phase # "idle" => C!InCallback /\ batch = eventBuffer
  /\ handed = returned
  /\ failed = aborted
  /\ died \subseteq crashed

BatchInv == BP!WorkInv /\ BP!Once(Identified) /\ Joined

\* The events with an SSE id are events of the batches.
LEMMA IdentifiedEvents == Identified \in SUBSET BP!Events
  BY DEF Identified

\* No batch is in progress at the start.
LEMMA InitBatchInv == Init => BatchInv
<1> SUFFICES ASSUME Init PROVE BatchInv
  OBVIOUS
<1>1. BP!Init
  BY SameInit DEF Init
<1>2. BP!WorkInv /\ BP!Once(Identified)
  BY <1>1, BatchAssumption, IdentifiedEvents, BP!InitWorkInv, BP!InitOnce
<1>3. Joined
  BY DEF Init, C!Init, B!Init, Joined
<1> QED BY <1>2, <1>3 DEF BatchInv

\* run() outside the callback: no batch is in progress.
LEMMA CollectingStep == ASSUME BatchInv, Collecting PROVE BatchInv'
<1>1. UNCHANGED batchVars
  BY DEF Collecting
<1>2. UNCHANGED BP!vars
  BY <1>1 DEF batchVars, BP!vars
<1>3. BP!WorkInv' /\ BP!Once(Identified)'
  BY <1>2, BatchAssumption, IdentifiedEvents, BP!StutterWork, BP!StutterOnce DEF BatchInv
<1>4. UNCHANGED <<handed, failed, crashed>>
  BY DEF Collecting, C!Publish, C!Tick, C!Connect, C!ConnectionFails, C!Wake, C!StreamEnds,
         C!Receive, C!ReceiveBlank, C!Restart, C!fateVars
<1>5. C!InCallback => UNCHANGED <<pc, eventBuffer>>
  BY DEF Collecting, C!InCallback, C!Publish, C!Tick, C!Connect, C!ConnectionFails, C!Wake,
         C!StreamEnds, C!Receive, C!ReceiveBlank, C!Restart, C!bufferVars
<1>6. Joined'
  BY <1>1, <1>4, <1>5 DEF BatchInv, Joined, C!InCallback, batchVars
<1> QED BY <1>3, <1>6 DEF BatchInv

\* The buffer holds each identified event once, and none that was in a batch before.
LEMMA CallStep == ASSUME C!IInv, BatchInv, Call PROVE BatchInv'
<1>0. PICK b : b = eventBuffer
  OBVIOUS
<1>1. C!InCallback /\ BP!Begin(b) /\ UNCHANGED collectorVars
  BY <1>0, SameBegin DEF Call
<1>2. b \in Seq(BP!Events) /\ DOMAIN b \subseteq Nat /\ \A i \in DOMAIN b : b[i] \in Nat /\ b[i] \in C!Held
  <2>1. eventBuffer \in Seq(C!Events) /\ C!Events \subseteq Nat
    BY ProducerAssumption DEF C!IInv, C!TypeOK, C!Events
  <2>2. C!Events = BP!Events
    BY DEF C!Events, BP!Events
  <2>3. \A i \in DOMAIN eventBuffer : i \in Nat /\ eventBuffer[i] \in C!Events
    BY <2>1
  <2> QED BY <1>0, <2>1, <2>2, <2>3 DEF C!Held
<1>3. \A i, j \in DOMAIN b : b[i] \in Identified /\ b[i] = b[j] => i = j
  <2> SUFFICES ASSUME NEW i \in DOMAIN b, NEW j \in DOMAIN b, b[i] \in Identified, b[i] = b[j], i # j
               PROVE  FALSE
    OBVIOUS
  <2>1. i < j \/ j < i
    BY <1>2
  <2>2. Kind[b[i]] = "identified" /\ Kind[b[j]] = "identified"
    BY DEF Identified
  <2>3. b[i] < b[j] \/ b[j] < b[i]
    BY <1>0, <2>1, <2>2 DEF C!IInv, C!InStreamOrder, C!Identified
  <2> QED BY <1>2, <2>3
<1>4. \A e \in BP!Elems(b) : e \in Identified => e \notin BP!Handled
  <2> SUFFICES ASSUME NEW i \in DOMAIN b, b[i] \in Identified, b[i] \in BP!Handled PROVE FALSE
    BY DEF BP!Elems
  <2>1. b[i] \in C!Resolved /\ C!Identified(b[i])
    BY DEF BatchInv, Joined, BP!Handled, C!Resolved, C!Identified, Identified
  <2>2. b[i] < b[i]
    BY <1>2, <2>1 DEF C!IInv, C!InStreamOrder
  <2> QED BY <1>2, <2>2
<1>5. BP!WorkInv'
  BY <1>1, <1>2, BatchAssumption, BP!BeginWork DEF BatchInv
<1>6. BP!Once(Identified)'
  BY <1>1, <1>2, <1>3, <1>4, BatchAssumption, IdentifiedEvents, BP!BeginOnce DEF BatchInv
<1>7. Joined'
  BY <1>0, <1>1 DEF BatchInv, Joined, C!InCallback, BP!Begin, collectorVars, BP!batchFate
<1> QED BY <1>5, <1>6, <1>7 DEF BatchInv

\* A step of process_batch, while the collector waits for it.
LEMMA WorkingStep == ASSUME BatchInv, Working PROVE BatchInv'
<1>1. BP!Body /\ UNCHANGED collectorVars
  BY SameBody DEF Working
<1>2. BP!WorkInv' /\ BP!Once(Identified)'
  BY <1>1, BatchAssumption, IdentifiedEvents, BP!BodyWork, BP!BodyOnce DEF BatchInv
<1>3. phase # "idle" /\ UNCHANGED <<batch, returned, aborted, died>>
  BY <1>1 DEF BP!Body, BP!DlqFlushed, BP!Skip, BP!Accept, BP!Reject, BP!ValidationRaises,
     BP!EndValidation, BP!Enrich, BP!SendNext, BP!Flushed, BP!Settle, BP!EndSettle,
     BP!Validating, BP!batchFate
<1>4. Joined'
  BY <1>1, <1>3 DEF BatchInv, Joined, C!InCallback, collectorVars
<1> QED BY <1>2, <1>4 DEF BatchInv

\* What process_batch returns or raises with is what leaves the buffer.
LEMMA EndStep == ASSUME BatchInv, Return \/ Raise PROVE BatchInv'
<1>1. BP!Return \/ BP!Raise
  BY SameEnd DEF Return, Raise
<1>2. BP!WorkInv' /\ BP!Once(Identified)'
  BY <1>1, BatchAssumption, IdentifiedEvents, BP!ReturnWork, BP!RaisesWork, BP!EndOnce DEF BatchInv
<1>3. phase # "idle" /\ phase' = "idle"
  BY <1>1 DEF BP!Return, BP!Raise
<1>4. BP!Elems(batch) = C!Held
  BY <1>3 DEF BatchInv, Joined, BP!Elems, C!Held
<1>5. CASE Return
  <2>1. handed' = handed \cup C!Held /\ returned' = returned \cup BP!Elems(batch)
        /\ UNCHANGED <<failed, crashed, aborted, died>>
    BY <1>5, SameEnd DEF Return, BP!Return, C!CallbackReturns
  <2> QED BY <1>2, <1>3, <1>4, <2>1 DEF BatchInv, Joined
<1>6. CASE Raise
  <2>1. failed' = failed \cup C!Held /\ aborted' = aborted \cup BP!Elems(batch)
        /\ UNCHANGED <<handed, crashed, returned, died>>
    BY <1>6, SameEnd DEF Raise, BP!Raise, C!CallbackRaises
  <2> QED BY <1>2, <1>3, <1>4, <2>1 DEF BatchInv, Joined
<1> QED BY <1>5, <1>6

\* A record is resolved in KafkaProducer's thread, whatever the collector does.
LEMMA KafkaStep == ASSUME BatchInv, KafkaWorks PROVE BatchInv'
<1>1. BP!KafkaResolves /\ UNCHANGED collectorVars
  BY SameResolve DEF KafkaWorks
<1>2. BP!WorkInv' /\ BP!Once(Identified)'
  BY <1>1, BatchAssumption, IdentifiedEvents, BP!ResolveWork, BP!ResolveOnce DEF BatchInv
<1>3. UNCHANGED <<phase, batch, returned, aborted, died>>
  BY <1>1 DEF BP!KafkaResolves, BP!Resolve, BP!workVars, BP!batchFate
<1>4. Joined'
  BY <1>1, <1>3 DEF BatchInv, Joined, C!InCallback, collectorVars
<1> QED BY <1>2, <1>4 DEF BatchInv

\* A crash ends both, and what the buffer held is lost with the batch.
LEMMA CrashStep == ASSUME BatchInv, Crash PROVE BatchInv'
<1>1. BP!Crash /\ C!Crash
  BY SameEnd DEF Crash
<1>2. BP!WorkInv' /\ BP!Once(Identified)'
  BY <1>1, BatchAssumption, IdentifiedEvents, BP!CrashWork, BP!CrashOnce DEF BatchInv
<1>3. phase # "idle" => BP!Elems(batch) = C!Held
  BY DEF BatchInv, Joined, BP!Elems, C!Held
<1>4. /\ phase' = "idle" /\ crashed' = crashed \cup C!Held
      /\ died' = IF phase = "idle" THEN died ELSE died \cup BP!Elems(batch)
      /\ UNCHANGED <<handed, failed, returned, aborted>>
  BY <1>1 DEF BP!Crash, C!Crash
<1>5. Joined'
  BY <1>3, <1>4 DEF BatchInv, Joined
<1> QED BY <1>2, <1>5 DEF BatchInv

\* Every step keeps the invariant of the batch; Call needs that of the collector.
LEMMA NextBatchInv == C!IInv /\ BatchInv /\ [Next]_vars => BatchInv'
<1> SUFFICES ASSUME C!IInv, BatchInv, [Next]_vars PROVE BatchInv'
  OBVIOUS
<1>1. CASE UNCHANGED vars
  <2>1. UNCHANGED BP!vars /\ UNCHANGED collectorVars /\ UNCHANGED batchVars
    BY <1>1 DEF vars, batchVars, BP!vars
  <2>2. BP!WorkInv' /\ BP!Once(Identified)'
    BY <2>1, BatchAssumption, IdentifiedEvents, BP!StutterWork, BP!StutterOnce DEF BatchInv
  <2>3. Joined'
    BY <2>1 DEF BatchInv, Joined, C!InCallback, collectorVars, batchVars
  <2> QED BY <2>2, <2>3 DEF BatchInv
<1> QED BY <1>1, CollectingStep, CallStep, WorkingStep, EndStep, KafkaStep, CrashStep
        DEF Next, CallbackStep

\* What process_batch, KafkaProducer and the collector's buffer hold fit together.
THEOREM BatchInside == Spec => [](C!IInv /\ BatchInv)
  BY CollectorInv, InitBatchInv, NextBatchInv, PTL DEF Spec

\* While the process lives, an event it received is in the buffer, went on to the topic,
\* the DLQ or the skipped ones, or was in a batch that raised.
THEOREM NoOtherLoss == Spec => []NothingElseIsLost
<1>1. C!IInv /\ BatchInv => NothingElseIsLost
  <2> SUFFICES ASSUME C!IInv, BatchInv, NEW e \in C!Events,
                      start < e, e <= lastEventId, Kind[e] # "malformed"
               PROVE  e \in C!Held \/ Routed(e) \/ e \in aborted
    BY DEF NothingElseIsLost
  <2>1. e \in C!Held \cup handed \cup failed
    BY DEF C!IInv, C!GapFree
  <2>2. e \in returned => Class[e] = "skip" \/ e \in topic \cup BP!DlqAttempted
    BY DEF BatchInv, BP!WorkInv, BP!ReturnedWentOn
  <2>3. BP!DlqAttempted = B!DlqAttempted
    BY DEF BP!DlqAttempted, B!DlqAttempted
  <2> QED BY <2>1, <2>2, <2>3 DEF BatchInv, Joined, Routed
<1> QED BY <1>1, BatchInside, PTL

\* An identified event that is in flight to the main topic is not there yet, and was not
\* offered to the DLQ.
THEOREM IdentifiedSentOnce == Spec => []SentOnce
<1>1. BatchInv => SentOnce
  <2> SUFFICES ASSUME BatchInv, NEW r \in inFlight, r.to = "topic", Kind[r.event] = "identified"
               PROVE  r.event \notin topic \cup B!DlqAttempted
    BY DEF SentOnce
  <2>1. r = BP!Record(r.event, "topic") /\ r.event \in BP!Events
    BY BatchAssumption, BP!RecordsDiffer DEF BatchInv, BP!WorkInv, BP!TypeOK
  <2>2. BP!OnTheWay(r.event) /\ r.event \in Identified
    BY <2>1 DEF BP!OnTheWay, Identified
  <2>3. r.event \notin topic /\ ~BP!Offered(r.event)
    BY <2>2 DEF BatchInv, BP!Once, BP!RoutesApart
  <2> QED BY <2>3 DEF BP!Offered, BP!DlqAttempted, B!DlqAttempted
<1> QED BY <1>1, BatchInside, PTL

=============================================================================
