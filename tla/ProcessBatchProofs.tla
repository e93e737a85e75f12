-------------------------- MODULE ProcessBatchProofs --------------------------
(***************************************************************************)
(* Proofs about ProcessBatch, for every stream and every class of event.   *)
(*                                                                         *)
(* The invariant has two parts, because the composition uses it with       *)
(* another caller: WorkInv holds whoever calls process_batch; Once(S) is   *)
(* about events S that no caller hands over twice, which is all of them    *)
(* here and the identified ones in Producer.                               *)
(***************************************************************************)
EXTENDS ProcessBatch, FiniteSetTheorems, SequenceTheorems, TLAPS

-----------------------------------------------------------------------------
(* The invariant. *)

At(loop) == phase = loop \/ (phase = "dlqFlush" /\ resume = loop)

Offered(e) == e \in DlqAttempted \/ Record(e, "dlq") \in inFlight

OnTheWay(e) == Record(e, "topic") \in inFlight

Touched(e) == OnTheWay(e) \/ future[e] # "none" \/ e \in topic \/ Offered(e)

\* How much of the batch the validation has dealt with.
Passed == IF At("validate") THEN index - 1 ELSE Len(batch)

\* The index fits the loop that uses it.
WithinLoop ==
  /\ phase = "send" \/ At("settle") => index <= Len(valid) + 1
  /\ At("validate") => Len(valid) + skipped < index

\* What the validation dealt with is in valid_events, offered to the DLQ, or skipped.
SortedOut ==
  phase \notin {"idle", "raised"} =>
    /\ \A k \in DOMAIN valid :
         Class[valid[k]] = "valid" /\ \E i \in 1..Passed : batch[i] = valid[k]
    /\ \A i \in 1..Passed :
         /\ Class[batch[i]] # "odd"
         /\ Class[batch[i]] = "valid" => \E k \in DOMAIN valid : valid[k] = batch[i]
         /\ Class[batch[i]] = "invalid" => Offered(batch[i])

\* What was sent is on its way or resolved, and all of it is resolved after the flush.
FuturesReady ==
  /\ phase = "send" =>
       \A k \in 1..(index - 1) : OnTheWay(valid[k]) \/ future[valid[k]] # "none"
  /\ At("settle") \/ phase = "record" => \A k \in DOMAIN valid : future[valid[k]] # "none"

\* A future that was read led to the topic or to the DLQ.
RoutedSoFar ==
  /\ At("settle") => \A k \in 1..(index - 1) : valid[k] \in topic \/ Offered(valid[k])
  /\ phase = "record" => \A k \in DOMAIN valid : valid[k] \in topic \/ Offered(valid[k])

AckedIsStored == \A e \in Events : future[e] = "ok" => e \in topic

\* Every DLQ record is flushed before process_batch goes on.
DlqFlushedAtOnce ==
  \A e \in Events : Record(e, "dlq") \in inFlight =>
    phase = "dlqFlush" /\ \E i \in DOMAIN batch : batch[i] = e

\* The class of an event decides where it can go.
ClassDecides ==
  \A e \in Events :
    /\ OnTheWay(e) \/ future[e] # "none" \/ e \in topic => Class[e] = "valid"
    /\ Offered(e) => Class[e] \in {"valid", "invalid"}

ReturnedWentOn ==
  \A e \in returned : Class[e] = "skip" \/ e \in topic \cup DlqAttempted

WorkInv ==
  /\ TypeOK
  /\ WithinLoop
  /\ SortedOut
  /\ FuturesReady
  /\ RoutedSoFar
  /\ AckedIsStored
  /\ DlqFlushedAtOnce
  /\ ClassDecides
  /\ ReturnedWentOn

\* An event of S is once in a batch and in one batch.
Distinct(S) ==
  /\ \A i, j \in DOMAIN batch : batch[i] \in S /\ batch[i] = batch[j] => i = j
  /\ \A k, l \in DOMAIN valid : valid[k] \in S /\ valid[k] = valid[l] => k = l
  /\ phase = "idle" => Elems(batch) \subseteq Handled
  /\ phase # "idle" => \A e \in Elems(batch) : e \in S => e \notin Handled

\* Only events of batches leave a trace, and those of this one that are still to be
\* validated or sent have not left any.
Untouched(S) ==
  /\ \A e \in S : Touched(e) => e \in Handled \cup Elems(batch)
  /\ At("validate") => \A i \in index..Len(batch) : batch[i] \in S => ~Touched(batch[i])
  /\ At("validate") \/ phase = "enrich" =>
       \A k \in DOMAIN valid : valid[k] \in S => ~Touched(valid[k])
  /\ phase = "send" => \A k \in index..Len(valid) : valid[k] \in S => ~Touched(valid[k])

\* A valid event is offered to the DLQ when its future is read, and not before.
NotYetOffered(S) ==
  /\ phase = "send" => \A k \in DOMAIN valid : valid[k] \in S => ~Offered(valid[k])
  /\ At("settle") => \A k \in index..Len(valid) : valid[k] \in S => ~Offered(valid[k])

\* The two routes of an event exclude each other, except for a lost acknowledgement.
RoutesApart(S) ==
  \A e \in S :
    /\ Offered(e) => ~OnTheWay(e) /\ future[e] # "ok"
    /\ OnTheWay(e) => future[e] = "none" /\ e \notin topic /\ e \notin returned
    /\ e \in topic => future[e] = "ok" \/ e \in doubtful

Once(S) == Distinct(S) /\ Untouched(S) /\ NotYetOffered(S) /\ RoutesApart(S)

RejectedIn(n) == {batch[i] : i \in {j \in 1..n : Class[batch[j]] = "invalid"}}

\* The counters of the SLO row and the rejected events make up the batch.
Counted ==
  /\ phase \notin {"idle", "raised"} =>
       Len(valid) + skipped + Cardinality(RejectedIn(Passed)) = Passed
  /\ (phase = "idle" /\ sloRow # NoRow /\ Elems(batch) \cap returned # {}) =>
       sloRow.size = sloRow.valid + sloRow.skipped + Cardinality(RejectedIn(Len(batch)))

IInv == WorkInv /\ Once(Events) /\ Counted

-----------------------------------------------------------------------------
(* Records, sequences and steps that route nothing. *)

\* A record is its event and its topic.
LEMMA RecordsDiffer ==
  /\ \A e, f, t, u : Record(e, t) = Record(f, u) <=> e = f /\ t = u
  /\ \A r \in Records : r = Record(r.event, r.to) /\ r.event \in Events /\ r.to \in {"topic", "dlq"}
  /\ \A e \in Events : Record(e, "topic") \in Records /\ Record(e, "dlq") \in Records
  BY DEF Record, Records

\* What the types say of the batch and of the valid events.
LEMMA SeqFacts ==
  ASSUME TypeOK
  PROVE  /\ Len(batch) \in Nat /\ DOMAIN batch = 1..Len(batch)
         /\ \A i \in 1..Len(batch) : batch[i] \in Events
         /\ Len(valid) \in Nat /\ DOMAIN valid = 1..Len(valid)
         /\ \A k \in 1..Len(valid) : valid[k] \in Events
         /\ index \in Nat /\ skipped \in Nat
  BY LenProperties, ElementOfSeq DEF TypeOK

\* What is in valid_events is in the batch.
LEMMA ValidInBatch ==
  ASSUME WorkInv, phase \notin {"idle", "raised"}, NEW k \in DOMAIN valid
  PROVE  \E i \in DOMAIN batch : batch[i] = valid[k]
<1>1. PICK i \in 1..Passed : batch[i] = valid[k]
  BY DEF WorkInv, SortedOut
<1>2. i \in DOMAIN batch
  BY SeqFacts DEF WorkInv, TypeOK, Passed
<1> QED BY <1>1, <1>2

QuietVars == <<inFlight, future, topic, dlq, reported, silent>>

\* A step that routes nothing.
LEMMA QuietRoutes ==
  ASSUME UNCHANGED QuietVars
  PROVE  /\ \A e : /\ Offered(e)' <=> Offered(e)
                   /\ OnTheWay(e)' <=> OnTheWay(e)
                   /\ Touched(e)' <=> Touched(e)
         /\ AckedIsStored => AckedIsStored'
         /\ ClassDecides => ClassDecides'
  BY DEF QuietVars, Offered, OnTheWay, Touched, DlqAttempted, AckedIsStored, ClassDecides

-----------------------------------------------------------------------------
(* WorkInv, action by action. *)

\* No batch, nothing in flight and nothing stored at the start.
LEMMA InitWorkInv == Init => WorkInv
<1>1. <<>> \in Seq(Events) /\ Len(<<>>) = 0 /\ DOMAIN <<>> = {}
  BY EmptySeq
<1> QED BY <1>1, ProcessBatchAssumption
        DEF Init, WorkInv, TypeOK, Phases, NoRow, WithinLoop, At, SortedOut, FuturesReady,
            RoutedSoFar, AckedIsStored, DlqFlushedAtOnce, ClassDecides, ReturnedWentOn,
            OnTheWay, Offered, DlqAttempted

\* A batch begins with nothing behind it.
LEMMA BeginWork ==
  ASSUME WorkInv, NEW b \in Seq(Events), Begin(b) PROVE WorkInv'
<1>1. /\ phase' = "validate" /\ batch' = b /\ index' = 1 /\ valid' = <<>> /\ skipped' = 0
      /\ phase = "idle"
      /\ UNCHANGED <<resume, kafkaVars, logVars, sloRow, batchFate>>
  BY DEF Begin
<1>2. Len(b) \in Nat /\ <<>> \in Seq(Events) /\ Len(<<>>) = 0 /\ DOMAIN <<>> = {}
  BY EmptySeq, LenProperties
<1>3. TypeOK' /\ WithinLoop' /\ SortedOut' /\ FuturesReady' /\ RoutedSoFar'
  BY <1>1, <1>2
     DEF WorkInv, TypeOK, Phases, WithinLoop, At, SortedOut, Passed, FuturesReady, RoutedSoFar,
         kafkaVars, logVars, batchFate
<1>4. AckedIsStored' /\ ClassDecides'
  BY <1>1, QuietRoutes DEF WorkInv, QuietVars, kafkaVars, logVars
<1>5. DlqFlushedAtOnce' /\ ReturnedWentOn'
  BY <1>1 DEF WorkInv, DlqFlushedAtOnce, ReturnedWentOn, DlqAttempted, kafkaVars, logVars, batchFate
<1> QED BY <1>3, <1>4, <1>5 DEF WorkInv

\* send_to_dlq returns into the loop that called it with nothing in flight.
LEMMA DlqFlushedWork == ASSUME WorkInv, DlqFlushed PROVE WorkInv'
<1>1. /\ phase = "dlqFlush" /\ phase' = resume /\ inFlight = {} /\ resume \in {"validate", "settle"}
      /\ UNCHANGED <<resume, batch, index, valid, skipped, kafkaVars, logVars, sloRow, batchFate>>
  BY DEF DlqFlushed, WorkInv, TypeOK
<1>2. \A e : Offered(e)' <=> Offered(e)
  BY <1>1, QuietRoutes DEF QuietVars, kafkaVars, logVars
<1>3. TypeOK' /\ WithinLoop'
  BY <1>1 DEF WorkInv, TypeOK, Phases, WithinLoop, At, kafkaVars, logVars, batchFate
<1>4. SortedOut' /\ FuturesReady' /\ RoutedSoFar'
  BY <1>1, <1>2 DEF WorkInv, SortedOut, Passed, At, FuturesReady, RoutedSoFar, kafkaVars
<1>5. AckedIsStored' /\ ClassDecides'
  BY <1>1, QuietRoutes DEF WorkInv, QuietVars, kafkaVars, logVars
<1>6. DlqFlushedAtOnce' /\ ReturnedWentOn'
  BY <1>1 DEF WorkInv, DlqFlushedAtOnce, ReturnedWentOn, DlqAttempted, kafkaVars, logVars, batchFate
<1> QED BY <1>3, <1>4, <1>5, <1>6 DEF WorkInv

\* A skipped event is counted and leaves no trace.
LEMMA SkipWork == ASSUME WorkInv, Skip PROVE WorkInv'
<1>1. /\ phase = "validate" /\ index <= Len(batch) /\ Class[batch[index]] = "skip"
      /\ skipped' = skipped + 1 /\ index' = index + 1
      /\ UNCHANGED <<phase, resume, batch, valid, kafkaVars, logVars, sloRow, batchFate>>
  BY DEF Skip, Validating, InHand
<1>2. \A e : Offered(e)' <=> Offered(e)
  BY <1>1, QuietRoutes DEF QuietVars, kafkaVars, logVars
<1>3. TypeOK' /\ WithinLoop'
  BY <1>1, SeqFacts DEF WorkInv, TypeOK, Phases, WithinLoop, At, kafkaVars, logVars, batchFate
<1>4. SortedOut'
  <2>1. /\ Passed = index - 1 /\ Passed' = index /\ index \in Nat
        /\ \A i \in 1..Passed' : i \in 1..Passed \/ i = index
        /\ 1..Passed \subseteq 1..Passed'
    BY SMTT(30), <1>1, SeqFacts DEF WorkInv, Passed, At
  <2> QED BY <1>1, <1>2, <2>1 DEF WorkInv, SortedOut
<1>5. FuturesReady' /\ RoutedSoFar'
  BY <1>1 DEF FuturesReady, RoutedSoFar, At
<1>6. AckedIsStored' /\ ClassDecides'
  BY <1>1, QuietRoutes DEF WorkInv, QuietVars, kafkaVars, logVars
<1>7. DlqFlushedAtOnce' /\ ReturnedWentOn'
  BY <1>1 DEF WorkInv, DlqFlushedAtOnce, ReturnedWentOn, DlqAttempted, kafkaVars, logVars, batchFate
<1> QED BY <1>3, <1>4, <1>5, <1>6, <1>7 DEF WorkInv

\* A valid event goes to the end of valid_events.
LEMMA AcceptWork == ASSUME WorkInv, Accept PROVE WorkInv'
<1>1. /\ phase = "validate" /\ index <= Len(batch) /\ Class[batch[index]] = "valid"
      /\ valid' = Append(valid, batch[index]) /\ index' = index + 1
      /\ UNCHANGED <<phase, resume, batch, skipped, kafkaVars, logVars, sloRow, batchFate>>
  BY DEF Accept, Validating, InHand
<1>2. \A e : Offered(e)' <=> Offered(e)
  BY <1>1, QuietRoutes DEF QuietVars, kafkaVars, logVars
<1>3. /\ index \in 1..Len(batch) /\ batch[index] \in Events
      /\ valid' \in Seq(Events) /\ Len(valid') = Len(valid) + 1
      /\ DOMAIN valid' = 1..(Len(valid) + 1)
      /\ \A k \in 1..Len(valid) : valid'[k] = valid[k]
      /\ valid'[Len(valid) + 1] = batch[index]
  <2>1. index \in 1..Len(batch) /\ batch[index] \in Events
    BY <1>1, SeqFacts DEF WorkInv, TypeOK
  <2> QED BY <1>1, <2>1, AppendProperties, LenProperties DEF WorkInv, TypeOK
<1>4. TypeOK' /\ WithinLoop'
  BY <1>1, <1>3, SeqFacts DEF WorkInv, TypeOK, Phases, WithinLoop, At, kafkaVars, logVars, batchFate
<1>5. SortedOut'
  <2>1. /\ Passed = index - 1 /\ Passed' = index /\ index \in 1..Passed'
        /\ \A i \in 1..Passed' : i \in 1..Passed \/ i = index
        /\ 1..Passed \subseteq 1..Passed'
    BY <1>1, <1>3, SeqFacts DEF WorkInv, Passed, At
  <2>2. /\ \A k \in DOMAIN valid' : k \in DOMAIN valid \/ k = Len(valid) + 1
        /\ DOMAIN valid \subseteq DOMAIN valid' /\ Len(valid) + 1 \in DOMAIN valid'
        /\ \A k \in DOMAIN valid : valid'[k] = valid[k]
    BY <1>3, SeqFacts DEF WorkInv
  <2>3. \A k \in DOMAIN valid' :
          Class[valid'[k]] = "valid" /\ \E i \in 1..Passed' : batch'[i] = valid'[k]
    BY <1>1, <1>3, <2>1, <2>2 DEF WorkInv, SortedOut
  <2>4. \A i \in 1..Passed' :
          /\ Class[batch[i]] # "odd"
          /\ Class[batch[i]] = "valid" => \E k \in DOMAIN valid' : valid'[k] = batch[i]
          /\ Class[batch[i]] = "invalid" => Offered(batch[i])
    BY <1>1, <1>3, <2>1, <2>2 DEF WorkInv, SortedOut
  <2> QED BY <1>1, <1>2, <2>3, <2>4 DEF SortedOut
<1>6. FuturesReady' /\ RoutedSoFar'
  BY <1>1 DEF FuturesReady, RoutedSoFar, At
<1>7. AckedIsStored' /\ ClassDecides'
  BY <1>1, QuietRoutes DEF WorkInv, QuietVars, kafkaVars, logVars
<1>8. DlqFlushedAtOnce' /\ ReturnedWentOn'
  BY <1>1 DEF WorkInv, DlqFlushedAtOnce, ReturnedWentOn, DlqAttempted, kafkaVars, logVars, batchFate
<1> QED BY <1>4, <1>5, <1>6, <1>7, <1>8 DEF WorkInv

\* An event offered to the DLQ is on record at once, or flushed before the loop goes on.
LEMMA SendToDlqOffers ==
  ASSUME NEW e \in Events, NEW back \in {"validate", "settle"}, WorkInv, phase = back,
         SendToDlq(e, back), UNCHANGED <<batch, future, topic, dlq, silent, doubtful>>,
         \E i \in DOMAIN batch : batch[i] = e
  PROVE  /\ Offered(e)'
         /\ \A f \in Events \ {e} : Offered(f)' <=> Offered(f)
         /\ \A f : Offered(f) => Offered(f)'
         /\ \A f : OnTheWay(f)' <=> OnTheWay(f)
         /\ At(back)' /\ phase' \in {back, "dlqFlush"}
         /\ reported \subseteq reported'
         /\ inFlight' \in SUBSET Records /\ reported' \in SUBSET Events
         /\ resume' \in {"validate", "settle"}
         /\ DlqFlushedAtOnce'
<1>1. inFlight \in SUBSET Records /\ reported \in SUBSET Events /\ resume \in {"validate", "settle"}
      /\ \A f \in Events : Record(f, "dlq") \notin inFlight
  BY DEF WorkInv, TypeOK, DlqFlushedAtOnce
<1>2. CASE reported' = reported \cup {e} /\ phase' = back /\ UNCHANGED <<resume, inFlight>>
  BY <1>1, <1>2 DEF Offered, OnTheWay, DlqAttempted, At, DlqFlushedAtOnce
<1>3. CASE /\ inFlight' = inFlight \cup {Record(e, "dlq")} /\ phase' = "dlqFlush"
           /\ resume' = back /\ UNCHANGED reported
  BY <1>1, <1>3, RecordsDiffer DEF Offered, OnTheWay, DlqAttempted, At, DlqFlushedAtOnce
<1> QED BY <1>2, <1>3 DEF SendToDlq

\* A rejected event is offered to the DLQ, stored there or not.
LEMMA RejectWork == ASSUME WorkInv, Reject PROVE WorkInv'
<1>0. PICK e : e = batch[index]
  OBVIOUS
<1>1. /\ phase = "validate" /\ index <= Len(batch) /\ Class[e] = "invalid"
      /\ SendToDlq(e, "validate") /\ index' = index + 1
      /\ UNCHANGED <<batch, valid, skipped, future, topic, dlq, silent, doubtful, refused, sloRow, batchFate>>
  BY <1>0 DEF Reject, Validating, InHand
<1>2. index \in 1..Len(batch) /\ e \in Events
  BY <1>0, <1>1, SeqFacts DEF WorkInv, TypeOK
<1>3. /\ Offered(e)' /\ \A f \in Events \ {e} : Offered(f)' <=> Offered(f)
      /\ \A f : Offered(f) => Offered(f)'
      /\ \A f : OnTheWay(f)' <=> OnTheWay(f)
      /\ At("validate")' /\ phase' \in {"validate", "dlqFlush"}
      /\ reported \subseteq reported'
      /\ inFlight' \in SUBSET Records /\ reported' \in SUBSET Events
      /\ resume' \in {"validate", "settle"}
      /\ DlqFlushedAtOnce'
  <2>1. \E i \in DOMAIN batch : batch[i] = e
    BY <1>0, <1>2, SeqFacts DEF WorkInv
  <2> QED BY <1>1, <1>2, <2>1, SendToDlqOffers
<1>4. TypeOK' /\ WithinLoop'
  BY <1>1, <1>2, <1>3, SeqFacts DEF WorkInv, TypeOK, Phases, WithinLoop, At, batchFate
<1>5. SortedOut'
  <2>1. /\ index \in Nat /\ index' = index + 1
        /\ Passed = index - 1 /\ Passed' = index' - 1
    <3>1. At("validate") /\ index \in Nat
      BY <1>1, SeqFacts DEF WorkInv, At
    <3> QED BY <1>1, <1>3, <3>1 DEF Passed
  <2>2. /\ \A i \in 1..Passed' : i \in 1..Passed \/ i = index
        /\ 1..Passed \subseteq 1..Passed'
    BY <2>1
  <2> QED BY <1>0, <1>1, <1>3, <2>2 DEF WorkInv, SortedOut
<1>6. FuturesReady' /\ RoutedSoFar'
  BY <1>1, <1>3 DEF FuturesReady, RoutedSoFar, At
<1>7. AckedIsStored' /\ ReturnedWentOn'
  BY <1>1, <1>3 DEF WorkInv, AckedIsStored, ReturnedWentOn, DlqAttempted, batchFate
<1>8. ClassDecides'
  BY <1>1, <1>3 DEF WorkInv, ClassDecides
<1> QED BY <1>3, <1>4, <1>5, <1>6, <1>7, <1>8 DEF WorkInv

\* A batch that raises is given up where it is.
LEMMA RaisesWork == ASSUME WorkInv, ValidationRaises \/ Raise PROVE WorkInv'
<1>1. /\ phase' = "raised" \/ (phase = "raised" /\ phase' = "idle")
      /\ phase # "dlqFlush"
      /\ UNCHANGED <<resume, batch, index, valid, skipped, kafkaVars, logVars, sloRow, returned, died>>
      /\ aborted' \in {aborted, aborted \cup Elems(batch)}
  BY DEF ValidationRaises, Validating, Raise, batchFate
<1>2. Elems(batch) \subseteq Events
  BY SeqFacts DEF WorkInv, Elems
<1>3. TypeOK' /\ WithinLoop' /\ SortedOut' /\ FuturesReady' /\ RoutedSoFar'
  BY <1>1, <1>2 DEF WorkInv, TypeOK, Phases, WithinLoop, At, SortedOut, FuturesReady,
                    RoutedSoFar, kafkaVars, logVars
<1>4. AckedIsStored' /\ ClassDecides'
  BY <1>1, QuietRoutes DEF WorkInv, QuietVars, kafkaVars, logVars
<1>5. DlqFlushedAtOnce' /\ ReturnedWentOn'
  BY <1>1 DEF WorkInv, DlqFlushedAtOnce, ReturnedWentOn, DlqAttempted, kafkaVars, logVars
<1> QED BY <1>3, <1>4, <1>5 DEF WorkInv

\* The loops end where their index says.
LEMMA EndValidationWork == ASSUME WorkInv, EndValidation PROVE WorkInv'
<1>1. /\ phase = "validate" /\ index > Len(batch) /\ phase' = "enrich"
      /\ UNCHANGED <<resume, batch, index, valid, skipped, kafkaVars, logVars, sloRow, batchFate>>
  BY DEF EndValidation
<1>2. \A e : Offered(e)' <=> Offered(e)
  BY <1>1, QuietRoutes DEF QuietVars, kafkaVars, logVars
<1>3. TypeOK' /\ WithinLoop'
  BY <1>1 DEF WorkInv, TypeOK, Phases, WithinLoop, At, kafkaVars, logVars, batchFate
<1>4. SortedOut'
  <2>1. Passed = Len(batch) /\ Passed' = Passed
    BY <1>1, SeqFacts DEF WorkInv, TypeOK, Passed, At
  <2> QED BY <1>1, <1>2, <2>1 DEF WorkInv, SortedOut
<1>5. FuturesReady' /\ RoutedSoFar'
  BY <1>1 DEF FuturesReady, RoutedSoFar, At
<1>6. AckedIsStored' /\ ClassDecides'
  BY <1>1, QuietRoutes DEF WorkInv, QuietVars, kafkaVars, logVars
<1>7. DlqFlushedAtOnce' /\ ReturnedWentOn'
  BY <1>1 DEF WorkInv, DlqFlushedAtOnce, ReturnedWentOn, DlqAttempted, kafkaVars, logVars, batchFate
<1> QED BY <1>3, <1>4, <1>5, <1>6, <1>7 DEF WorkInv

\* Without a valid event there is nothing to route.
LEMMA EnrichWork == ASSUME WorkInv, Enrich PROVE WorkInv'
<1>1. /\ phase = "enrich" /\ phase' \in {"record", "send", "raised"} /\ index' = 1
      /\ phase' = "record" => valid = <<>>
      /\ UNCHANGED <<resume, batch, valid, skipped, kafkaVars, logVars, sloRow, batchFate>>
  BY DEF Enrich
<1>2. \A e : Offered(e)' <=> Offered(e)
  BY <1>1, QuietRoutes DEF QuietVars, kafkaVars, logVars
<1>3. TypeOK' /\ WithinLoop'
  BY <1>1, SeqFacts DEF WorkInv, TypeOK, Phases, WithinLoop, At, kafkaVars, logVars, batchFate
<1>4. SortedOut'
  <2>1. Passed = Len(batch) /\ Passed' = Passed
    BY <1>1 DEF Passed, At
  <2> QED BY <1>1, <1>2, <2>1 DEF WorkInv, SortedOut
<1>5. FuturesReady' /\ RoutedSoFar'
  <2>1. valid = <<>> => DOMAIN valid = {}
    OBVIOUS
  <2> QED BY <1>1, <2>1 DEF FuturesReady, RoutedSoFar, At
<1>6. AckedIsStored' /\ ClassDecides'
  BY <1>1, QuietRoutes DEF WorkInv, QuietVars, kafkaVars, logVars
<1>7. DlqFlushedAtOnce' /\ ReturnedWentOn'
  BY <1>1 DEF WorkInv, DlqFlushedAtOnce, ReturnedWentOn, DlqAttempted, kafkaVars, logVars, batchFate
<1> QED BY <1>3, <1>4, <1>5, <1>6, <1>7 DEF WorkInv

\* One more event is on its way, or the loop is left.
LEMMA SendNextWork == ASSUME WorkInv, SendNext PROVE WorkInv'
<1>0. PICK e : e = valid[index]
  OBVIOUS
<1>1. /\ phase = "send" /\ index <= Len(valid)
      /\ UNCHANGED <<resume, batch, valid, skipped, future, topic, dlq, silent, doubtful,
                     reported, sloRow, batchFate>>
      /\ \/ inFlight' = inFlight \cup {Record(e, "topic")} /\ index' = index + 1
            /\ phase' = phase /\ refused' = refused
         \/ phase' = "raised" /\ refused' = refused \cup {e} /\ inFlight' = inFlight /\ index' = index
  BY <1>0 DEF SendNext
<1>2. index \in 1..Len(valid) /\ e \in Events /\ Class[e] = "valid" /\ Record(e, "topic") \in Records
  BY <1>0, <1>1, SeqFacts, RecordsDiffer DEF WorkInv, TypeOK, SortedOut
<1>3. /\ \A f : Offered(f)' <=> Offered(f)
      /\ \A f : OnTheWay(f) => OnTheWay(f)'
      /\ \A f : f # e => (OnTheWay(f)' <=> OnTheWay(f))
      /\ phase' = "send" => OnTheWay(e)'
  BY <1>1, RecordsDiffer DEF Offered, OnTheWay, DlqAttempted
<1>4. TypeOK' /\ WithinLoop'
  BY <1>1, <1>2, SeqFacts DEF WorkInv, TypeOK, Phases, WithinLoop, At, batchFate
<1>5. SortedOut' /\ FuturesReady' /\ RoutedSoFar'
  <2>1. SortedOut'
    BY <1>1, <1>3 DEF WorkInv, SortedOut, Passed, At
  <2>2. \A k \in 1..(index' - 1) : phase' = "send" => k \in 1..(index - 1) \/ k = index
    BY <1>1, <1>2
  <2>3. FuturesReady'
    BY <1>0, <1>1, <1>3, <2>2 DEF WorkInv, FuturesReady, At
  <2> QED BY <1>1, <2>1, <2>3 DEF RoutedSoFar, At
<1>6. ClassDecides'
  BY <1>1, <1>2, <1>3 DEF WorkInv, ClassDecides
<1>7. AckedIsStored' /\ DlqFlushedAtOnce' /\ ReturnedWentOn'
  BY <1>1, RecordsDiffer DEF WorkInv, AckedIsStored, DlqFlushedAtOnce, ReturnedWentOn,
                             DlqAttempted, batchFate
<1> QED BY <1>4, <1>5, <1>6, <1>7 DEF WorkInv

\* When nothing is in flight, what was sent is resolved.
LEMMA FlushedWork == ASSUME WorkInv, Flushed PROVE WorkInv'
<1>1. /\ phase = "send" /\ index > Len(valid) /\ inFlight = {} /\ phase' = "settle" /\ index' = 1
      /\ UNCHANGED <<resume, batch, valid, skipped, kafkaVars, logVars, sloRow, batchFate>>
  BY DEF Flushed
<1>2. \A e : Offered(e)' <=> Offered(e)
  BY <1>1, QuietRoutes DEF QuietVars, kafkaVars, logVars
<1>3. TypeOK' /\ WithinLoop'
  BY <1>1, SeqFacts DEF WorkInv, TypeOK, Phases, WithinLoop, At, kafkaVars, logVars, batchFate
<1>4. SortedOut'
  BY <1>1, <1>2 DEF WorkInv, SortedOut, Passed, At
<1>5. FuturesReady' /\ RoutedSoFar'
  <2>1. \A k \in DOMAIN valid : k \in 1..(index - 1) /\ ~OnTheWay(valid[k])
    BY <1>1, SeqFacts DEF WorkInv, OnTheWay
  <2> QED BY <1>1, <2>1 DEF WorkInv, FuturesReady, RoutedSoFar, At, kafkaVars
<1>6. AckedIsStored' /\ ClassDecides'
  BY <1>1, QuietRoutes DEF WorkInv, QuietVars, kafkaVars, logVars
<1>7. DlqFlushedAtOnce' /\ ReturnedWentOn'
  BY <1>1 DEF WorkInv, DlqFlushedAtOnce, ReturnedWentOn, DlqAttempted, kafkaVars, logVars, batchFate
<1> QED BY <1>3, <1>4, <1>5, <1>6, <1>7 DEF WorkInv

\* The next future is a success, whose event is stored, or its event goes to the DLQ.
LEMMA SettleWork == ASSUME WorkInv, Settle PROVE WorkInv'
<1>0. PICK e : e = valid[index]
  OBVIOUS
<1>1. /\ phase = "settle" /\ index <= Len(valid) /\ index' = index + 1
      /\ UNCHANGED <<batch, valid, skipped, future, topic, dlq, silent, doubtful, refused, sloRow, batchFate>>
      /\ \/ future[e] = "ok" /\ UNCHANGED <<phase, resume, inFlight, reported>>
         \/ SendToDlq(e, "settle")
  BY <1>0 DEF Settle, Acked
<1>2. index \in 1..Len(valid) /\ e \in Events /\ Class[e] = "valid"
  BY <1>0, <1>1, SeqFacts DEF WorkInv, TypeOK, SortedOut
<1>2b. \E i \in DOMAIN batch : batch[i] = e
  BY <1>0, <1>1, <1>2, SeqFacts, ValidInBatch DEF WorkInv
<1>3. /\ \A f \in Events \ {e} : Offered(f)' <=> Offered(f)
      /\ \A f : Offered(f) => Offered(f)'
      /\ \A f : OnTheWay(f)' <=> OnTheWay(f)
      /\ e \in topic' \/ Offered(e)'
      /\ At("settle")' /\ phase' \in {"settle", "dlqFlush"}
      /\ reported \subseteq reported'
      /\ inFlight' \in SUBSET Records /\ reported' \in SUBSET Events
      /\ resume' \in {"validate", "settle"}
      /\ DlqFlushedAtOnce'
  <2>1. CASE future[e] = "ok" /\ UNCHANGED <<phase, resume, inFlight, reported>>
    BY <1>1, <1>2, <2>1 DEF WorkInv, TypeOK, AckedIsStored, DlqFlushedAtOnce, Offered, OnTheWay,
                            DlqAttempted, At
  <2>2. CASE SendToDlq(e, "settle")
    BY <1>1, <1>2, <1>2b, <2>2, SendToDlqOffers
  <2> QED BY <1>1, <2>1, <2>2
<1>4. TypeOK' /\ WithinLoop'
  BY <1>1, <1>2, <1>3, SeqFacts DEF WorkInv, TypeOK, Phases, WithinLoop, At, batchFate
<1>5. SortedOut' /\ FuturesReady'
  <2>1. Passed' = Passed
    BY <1>1, <1>3 DEF Passed, At
  <2> QED BY <1>1, <1>3, <2>1 DEF WorkInv, SortedOut, FuturesReady, At
<1>6. RoutedSoFar'
  <2>1. \A k \in 1..(index' - 1) : k \in 1..(index - 1) \/ k = index
    BY <1>1, <1>2
  <2> QED BY <1>0, <1>1, <1>3, <2>1 DEF WorkInv, RoutedSoFar, At
<1>7. AckedIsStored' /\ ReturnedWentOn'
  BY <1>1, <1>3 DEF WorkInv, AckedIsStored, ReturnedWentOn, DlqAttempted, batchFate
<1>8. ClassDecides'
  BY <1>1, <1>2, <1>3 DEF WorkInv, ClassDecides
<1> QED BY <1>3, <1>4, <1>5, <1>6, <1>7, <1>8 DEF WorkInv

\* With the last future read all of valid_events went on.
LEMMA EndSettleWork == ASSUME WorkInv, EndSettle PROVE WorkInv'
<1>1. /\ phase = "settle" /\ index > Len(valid) /\ phase' = "record"
      /\ UNCHANGED <<resume, batch, index, valid, skipped, kafkaVars, logVars, sloRow, batchFate>>
  BY DEF EndSettle
<1>2. \A e : Offered(e)' <=> Offered(e)
  BY <1>1, QuietRoutes DEF QuietVars, kafkaVars, logVars
<1>3. TypeOK' /\ WithinLoop'
  BY <1>1 DEF WorkInv, TypeOK, Phases, WithinLoop, At, kafkaVars, logVars, batchFate
<1>4. SortedOut' /\ FuturesReady'
  BY <1>1, <1>2 DEF WorkInv, SortedOut, FuturesReady, Passed, At, kafkaVars
<1>5. RoutedSoFar'
  <2>1. \A k \in DOMAIN valid : k \in 1..(index - 1)
    BY <1>1, SeqFacts DEF WorkInv
  <2> QED BY <1>1, <1>2, <2>1 DEF WorkInv, RoutedSoFar, At, kafkaVars
<1>6. AckedIsStored' /\ ClassDecides'
  BY <1>1, QuietRoutes DEF WorkInv, QuietVars, kafkaVars, logVars
<1>7. DlqFlushedAtOnce' /\ ReturnedWentOn'
  BY <1>1 DEF WorkInv, DlqFlushedAtOnce, ReturnedWentOn, DlqAttempted, kafkaVars, logVars, batchFate
<1> QED BY <1>3, <1>4, <1>5, <1>6, <1>7 DEF WorkInv

\* No DLQ record is in flight when process_batch returns, so that what was offered to the
\* DLQ is settled: the whole batch went somewhere.
LEMMA ReturnedBatch ==
  ASSUME WorkInv, phase = "record"
  PROVE  \A e \in Elems(batch) :
           /\ Class[e] \in {"valid", "invalid"} => e \in topic \cup DlqAttempted
           /\ Class[e] # "odd" /\ e \in Events
<1> SUFFICES ASSUME NEW i \in DOMAIN batch
             PROVE  /\ Class[batch[i]] \in {"valid", "invalid"} => batch[i] \in topic \cup DlqAttempted
                    /\ Class[batch[i]] # "odd" /\ batch[i] \in Events
  BY DEF Elems
<1>1. i \in 1..Passed /\ batch[i] \in Events
  BY SeqFacts DEF WorkInv, Passed, At
<1>2. \A e \in Events : Offered(e) => e \in DlqAttempted
  BY DEF WorkInv, DlqFlushedAtOnce, Offered
<1>3. CASE Class[batch[i]] = "valid"
  <2>1. PICK k \in DOMAIN valid : valid[k] = batch[i]
    BY <1>1, <1>3 DEF WorkInv, SortedOut
  <2> QED BY <1>1, <1>2, <1>3, <2>1 DEF WorkInv, RoutedSoFar
<1>4. CASE Class[batch[i]] # "valid"
  BY <1>1, <1>2, <1>4 DEF WorkInv, SortedOut
<1> QED BY <1>3, <1>4

\* A batch that returns has sent on, offered or skipped all of its events.
LEMMA ReturnWork == ASSUME WorkInv, Return PROVE WorkInv'
<1>1. /\ phase = "record" /\ phase' = "idle" /\ returned' = returned \cup Elems(batch)
      /\ sloRow' \in {NoRow, [size |-> Len(batch), valid |-> Len(valid), skipped |-> skipped]}
      /\ UNCHANGED <<resume, batch, index, valid, skipped, kafkaVars, logVars, aborted, died>>
  BY DEF Return
<1>2. sloRow' \in [size : Nat, valid : Nat, skipped : Nat] /\ Elems(batch) \subseteq Events
  BY <1>1, SeqFacts DEF WorkInv, NoRow, Elems
<1>3. TypeOK' /\ WithinLoop' /\ SortedOut' /\ FuturesReady' /\ RoutedSoFar'
  BY <1>1, <1>2 DEF WorkInv, TypeOK, Phases, WithinLoop, At, SortedOut, FuturesReady,
                    RoutedSoFar, kafkaVars, logVars
<1>4. AckedIsStored' /\ ClassDecides'
  BY <1>1, QuietRoutes DEF WorkInv, QuietVars, kafkaVars, logVars
<1>5. DlqFlushedAtOnce'
  BY <1>1 DEF WorkInv, DlqFlushedAtOnce, kafkaVars
<1>6. ReturnedWentOn'
  <2>1. \A e \in Events : Class[e] \in {"valid", "skip", "invalid", "odd"}
    BY ProcessBatchAssumption DEF Classes
  <2> QED BY <1>1, <2>1, ReturnedBatch DEF WorkInv, ReturnedWentOn, DlqAttempted, kafkaVars, logVars
<1> QED BY <1>3, <1>4, <1>5, <1>6 DEF WorkInv

\* The accumulator is lost and the process begins anew.
LEMMA CrashWork == ASSUME WorkInv, Crash PROVE WorkInv'
<1>1. /\ phase' = "idle" /\ resume' = "validate" /\ batch' = <<>> /\ index' = 1 /\ valid' = <<>>
      /\ skipped' = 0 /\ inFlight' = {}
      /\ died' \in {died, died \cup Elems(batch)}
      /\ UNCHANGED <<future, topic, dlq, silent, doubtful, logVars, sloRow, returned, aborted>>
  BY DEF Crash
<1>2. /\ Elems(batch) \subseteq Events /\ <<>> \in Seq(Events) /\ Len(<<>>) = 0
  BY SeqFacts, EmptySeq DEF WorkInv, Elems
<1>3. TypeOK'
  BY <1>1, <1>2 DEF WorkInv, TypeOK, Phases, logVars
<1>4. WithinLoop' /\ SortedOut' /\ FuturesReady' /\ RoutedSoFar' /\ DlqFlushedAtOnce'
  BY <1>1 DEF WithinLoop, At, SortedOut, FuturesReady, RoutedSoFar, DlqFlushedAtOnce
<1>5. AckedIsStored' /\ ClassDecides' /\ ReturnedWentOn'
  BY <1>1 DEF WorkInv, AckedIsStored, ClassDecides, OnTheWay, Offered, DlqAttempted,
              ReturnedWentOn, logVars
<1> QED BY <1>3, <1>4, <1>5 DEF WorkInv

\* What KafkaProducer's thread does with one record.
LEMMA ResolveCases ==
  ASSUME WorkInv, NEW r, NEW stored \in BOOLEAN, NEW acked \in BOOLEAN, Resolve(r, stored, acked)
  PROVE  \E e \in Events :
    \/ /\ OnTheWay(e) /\ inFlight' = inFlight \ {Record(e, "topic")}
       /\ \/ future' = [future EXCEPT ![e] = "ok"] /\ topic' = topic \cup {e} /\ doubtful' = doubtful
          \/ /\ future' = [future EXCEPT ![e] = "failed"]
             /\ \/ topic' = topic /\ doubtful' = doubtful
                \/ topic' = topic \cup {e} /\ doubtful' = doubtful \cup {e}
       /\ UNCHANGED <<dlq, silent>>
    \/ /\ Record(e, "dlq") \in inFlight /\ inFlight' = inFlight \ {Record(e, "dlq")}
       /\ \/ dlq' = dlq \cup {e} /\ silent' = silent
          \/ dlq' = dlq /\ silent' = silent \cup {e}
       /\ UNCHANGED <<future, topic, doubtful>>
<1>1. /\ r \in inFlight /\ r \in Records /\ inFlight' = inFlight \ {r}
      /\ r = Record(r.event, r.to) /\ r.event \in Events /\ r.to \in {"topic", "dlq"}
  BY RecordsDiffer DEF Resolve, WorkInv, TypeOK
<1>2. CASE r.to = "topic"
  <2>1. OnTheWay(r.event) /\ inFlight' = inFlight \ {Record(r.event, "topic")}
    BY <1>1, <1>2 DEF OnTheWay
  <2>2. /\ \/ future' = [future EXCEPT ![r.event] = "ok"] /\ topic' = topic \cup {r.event} /\ doubtful' = doubtful
           \/ /\ future' = [future EXCEPT ![r.event] = "failed"]
              /\ \/ topic' = topic /\ doubtful' = doubtful
                 \/ topic' = topic \cup {r.event} /\ doubtful' = doubtful \cup {r.event}
        /\ UNCHANGED <<dlq, silent>>
    BY <1>2 DEF Resolve
  <2> QED BY <1>1, <2>1, <2>2
<1>3. CASE r.to = "dlq"
  <2>1. Record(r.event, "dlq") \in inFlight /\ inFlight' = inFlight \ {Record(r.event, "dlq")}
    BY <1>1, <1>3
  <2>2. /\ \/ dlq' = dlq \cup {r.event} /\ silent' = silent
           \/ dlq' = dlq /\ silent' = silent \cup {r.event}
        /\ UNCHANGED <<future, topic, doubtful>>
    BY <1>3 DEF Resolve
  <2> QED BY <1>1, <2>1, <2>2
<1> QED BY <1>1, <1>2, <1>3

\* What was on its way or offered is so still, or has arrived where it was going.
LEMMA ResolvedRoutes ==
  ASSUME WorkInv, KafkaResolves
  PROVE  /\ \A e \in Events : /\ Offered(e)' <=> Offered(e)
                              /\ OnTheWay(e)' => OnTheWay(e)
                              /\ OnTheWay(e) => OnTheWay(e)' \/ future'[e] # "none"
                              /\ e \in topic' => e \in topic \/ OnTheWay(e)
                              /\ future'[e] = future[e] \/ (OnTheWay(e) /\ future'[e] # "none")
                              /\ future'[e] = "ok" => e \in topic'
         /\ topic \subseteq topic' /\ DlqAttempted \subseteq DlqAttempted'
         /\ inFlight' \subseteq inFlight
         /\ topic' \in SUBSET Events /\ dlq' \in SUBSET Events /\ silent' \in SUBSET Events
         /\ doubtful' \in SUBSET Events /\ future' \in [Events -> {"none", "ok", "failed"}]
         /\ UNCHANGED <<workVars, logVars, sloRow, batchFate>>
<1>1. PICK r \in inFlight, stored, acked \in BOOLEAN : Resolve(r, stored, acked)
  BY DEF KafkaResolves
<1>2. UNCHANGED <<workVars, logVars, sloRow, batchFate>>
  BY <1>1 DEF Resolve
<1>3. /\ future \in [Events -> {"none", "ok", "failed"}] /\ topic \in SUBSET Events
      /\ dlq \in SUBSET Events /\ silent \in SUBSET Events /\ doubtful \in SUBSET Events
      /\ \A e \in Events : future[e] = "ok" => e \in topic
      /\ reported' = reported
  BY <1>2 DEF WorkInv, TypeOK, AckedIsStored, logVars
<1>4. PICK e \in Events :
    \/ /\ OnTheWay(e) /\ inFlight' = inFlight \ {Record(e, "topic")}
       /\ \/ future' = [future EXCEPT ![e] = "ok"] /\ topic' = topic \cup {e} /\ doubtful' = doubtful
          \/ /\ future' = [future EXCEPT ![e] = "failed"]
             /\ \/ topic' = topic /\ doubtful' = doubtful
                \/ topic' = topic \cup {e} /\ doubtful' = doubtful \cup {e}
       /\ UNCHANGED <<dlq, silent>>
    \/ /\ Record(e, "dlq") \in inFlight /\ inFlight' = inFlight \ {Record(e, "dlq")}
       /\ \/ dlq' = dlq \cup {e} /\ silent' = silent
          \/ dlq' = dlq /\ silent' = silent \cup {e}
       /\ UNCHANGED <<future, topic, doubtful>>
  BY <1>1, ResolveCases
<1>5. CASE OnTheWay(e) /\ inFlight' = inFlight \ {Record(e, "topic")} /\ UNCHANGED <<dlq, silent>>
           /\ \/ future' = [future EXCEPT ![e] = "ok"] /\ topic' = topic \cup {e} /\ doubtful' = doubtful
              \/ /\ future' = [future EXCEPT ![e] = "failed"]
                 /\ \/ topic' = topic /\ doubtful' = doubtful
                    \/ topic' = topic \cup {e} /\ doubtful' = doubtful \cup {e}
  BY <1>2, <1>3, <1>5, RecordsDiffer DEF Offered, OnTheWay, DlqAttempted
<1>6. CASE /\ Record(e, "dlq") \in inFlight /\ inFlight' = inFlight \ {Record(e, "dlq")}
           /\ \/ dlq' = dlq \cup {e} /\ silent' = silent
              \/ dlq' = dlq /\ silent' = silent \cup {e}
           /\ UNCHANGED <<future, topic, doubtful>>
  BY <1>2, <1>3, <1>6, RecordsDiffer DEF Offered, OnTheWay, DlqAttempted
<1> QED BY <1>4, <1>5, <1>6

\* The future of a main record and what it stored change together.
LEMMA ResolvedTopic ==
  ASSUME WorkInv, KafkaResolves, NEW e \in Events,
         OnTheWay(e) => future[e] = "none" /\ e \notin topic,
         e \in topic => future[e] = "ok" \/ e \in doubtful
  PROVE  /\ OnTheWay(e)' => future'[e] = "none" /\ e \notin topic'
         /\ e \in topic' => future'[e] = "ok" \/ e \in doubtful'
<1>1. PICK r \in inFlight, stored, acked \in BOOLEAN : Resolve(r, stored, acked)
  BY DEF KafkaResolves
<1>2. future \in [Events -> {"none", "ok", "failed"}] /\ inFlight' \subseteq inFlight
  BY ResolvedRoutes DEF WorkInv, TypeOK
<1>3. PICK f \in Events :
    \/ /\ OnTheWay(f) /\ inFlight' = inFlight \ {Record(f, "topic")}
       /\ \/ future' = [future EXCEPT ![f] = "ok"] /\ topic' = topic \cup {f} /\ doubtful' = doubtful
          \/ /\ future' = [future EXCEPT ![f] = "failed"]
             /\ \/ topic' = topic /\ doubtful' = doubtful
                \/ topic' = topic \cup {f} /\ doubtful' = doubtful \cup {f}
       /\ UNCHANGED <<dlq, silent>>
    \/ /\ Record(f, "dlq") \in inFlight /\ inFlight' = inFlight \ {Record(f, "dlq")}
       /\ \/ dlq' = dlq \cup {f} /\ silent' = silent
          \/ dlq' = dlq /\ silent' = silent \cup {f}
       /\ UNCHANGED <<future, topic, doubtful>>
  BY <1>1, ResolveCases
<1>4. OnTheWay(e)' => OnTheWay(e)
  BY <1>2 DEF OnTheWay
<1>5. CASE UNCHANGED <<future, topic, doubtful>>
  BY <1>4, <1>5
<1>6. CASE f # e
  <2>1. future'[e] = future[e] /\ (e \in topic' <=> e \in topic) /\ (e \in doubtful => e \in doubtful')
    BY <1>2, <1>3, <1>6
  <2> QED BY <1>4, <2>1
<1>7. CASE f = e /\ OnTheWay(e) /\ inFlight' = inFlight \ {Record(e, "topic")}
           /\ \/ future' = [future EXCEPT ![e] = "ok"] /\ topic' = topic \cup {e} /\ doubtful' = doubtful
              \/ /\ future' = [future EXCEPT ![e] = "failed"]
                 /\ \/ topic' = topic /\ doubtful' = doubtful
                    \/ topic' = topic \cup {e} /\ doubtful' = doubtful \cup {e}
  BY <1>2, <1>7 DEF OnTheWay
<1> QED BY <1>3, <1>5, <1>6, <1>7

\* A record that is resolved moves from in flight to its future, and to its topic if stored.
LEMMA ResolveWork == ASSUME WorkInv, KafkaResolves PROVE WorkInv'
<1>1. UNCHANGED <<workVars, logVars, sloRow, batchFate>>
  BY ResolvedRoutes
<1>2. TypeOK' /\ WithinLoop'
  BY <1>1, ResolvedRoutes DEF WorkInv, TypeOK, WithinLoop, At, workVars, logVars, batchFate
<1>3. SortedOut'
  <2>1. Passed' = Passed /\ UNCHANGED <<phase, batch, valid>>
    BY <1>1 DEF Passed, At, workVars
  <2>2. \A i \in 1..Passed : batch[i] \in Events
    BY SeqFacts DEF WorkInv, TypeOK, Passed, At
  <2>3. \A e \in Events : Offered(e)' <=> Offered(e)
    BY ResolvedRoutes
  <2> QED BY <2>1, <2>2, <2>3 DEF WorkInv, SortedOut
<1>4. UNCHANGED <<phase, resume, index, valid>> /\ (At("settle")' <=> At("settle"))
  BY <1>1 DEF workVars, At
<1>5. \A k \in 1..(index - 1) : phase = "send" \/ At("settle") => k \in DOMAIN valid
  BY SeqFacts DEF WorkInv, WithinLoop
<1>6. \A k \in DOMAIN valid : valid[k] \in Events
  BY SeqFacts DEF WorkInv
<1>7. FuturesReady'
  <2>1. \A e \in Events : /\ OnTheWay(e) => OnTheWay(e)' \/ future'[e] # "none"
                          /\ future[e] # "none" => future'[e] # "none"
    BY ResolvedRoutes
  <2> QED BY <1>4, <1>5, <1>6, <2>1 DEF WorkInv, FuturesReady
<1>8. RoutedSoFar'
  <2>1. \A e \in Events : e \in topic \/ Offered(e) => e \in topic' \/ Offered(e)'
    BY ResolvedRoutes
  <2> QED BY <1>4, <1>5, <1>6, <2>1 DEF WorkInv, RoutedSoFar
<1>9. AckedIsStored' /\ DlqFlushedAtOnce' /\ ReturnedWentOn'
  BY <1>1, ResolvedRoutes DEF WorkInv, AckedIsStored, DlqFlushedAtOnce, ReturnedWentOn,
                              workVars, batchFate
<1>10. ClassDecides'
  BY ResolvedRoutes DEF WorkInv, ClassDecides
<1> QED BY <1>2, <1>3, <1>7, <1>8, <1>9, <1>10 DEF WorkInv

\* WorkInv holds whoever calls process_batch.
LEMMA BodyWork == ASSUME WorkInv, Body PROVE WorkInv'
  BY DlqFlushedWork, SkipWork, AcceptWork, RejectWork, RaisesWork, EndValidationWork, EnrichWork,
     SendNextWork, FlushedWork, SettleWork, EndSettleWork DEF Body

\* WorkInv is about the variables of ProcessBatch only.
LEMMA StutterWork == ASSUME WorkInv, UNCHANGED vars PROVE WorkInv'
<1>1. UNCHANGED <<phase, resume, batch, index, valid, skipped, inFlight, future, topic, dlq,
                  reported, refused, silent, doubtful, sloRow, returned, aborted, died>>
  BY DEF vars
<1>2. TypeOK' /\ WithinLoop'
  BY <1>1 DEF WorkInv, TypeOK, WithinLoop, At
<1>3. \A e : (Offered(e)' <=> Offered(e)) /\ (OnTheWay(e)' <=> OnTheWay(e))
  BY <1>1, QuietRoutes DEF QuietVars
<1>4. SortedOut' /\ FuturesReady' /\ RoutedSoFar'
  BY <1>1, <1>3 DEF WorkInv, At, SortedOut, Passed, FuturesReady, RoutedSoFar
<1>5. AckedIsStored' /\ ClassDecides' /\ DlqFlushedAtOnce' /\ ReturnedWentOn'
  BY <1>1 DEF WorkInv, AckedIsStored, ClassDecides, DlqFlushedAtOnce, ReturnedWentOn, OnTheWay,
              Offered, DlqAttempted
<1> QED BY <1>2, <1>4, <1>5 DEF WorkInv

-----------------------------------------------------------------------------
(* Once(S), action by action. *)

\* No event left a trace at the start.
LEMMA InitOnce == ASSUME NEW S \in SUBSET Events, Init PROVE Once(S)
  BY DEF Init, Once, Distinct, Untouched, NotYetOffered, RoutesApart, At, Touched, Offered,
         OnTheWay, DlqAttempted, Elems

\* The caller hands over events of S that are in no earlier batch, and each once.
LEMMA BeginOnce ==
  ASSUME NEW S \in SUBSET Events, NEW b \in Seq(Events), WorkInv, Once(S), Begin(b),
         \A i, j \in DOMAIN b : b[i] \in S /\ b[i] = b[j] => i = j,
         \A e \in Elems(b) : e \in S => e \notin Handled
  PROVE  Once(S)'
<1>1. /\ phase = "idle" /\ phase' = "validate" /\ batch' = b /\ index' = 1 /\ valid' = <<>>
      /\ UNCHANGED <<kafkaVars, logVars, batchFate>>
  BY DEF Begin
<1>2. /\ \A e : (Touched(e)' <=> Touched(e)) /\ (Offered(e)' <=> Offered(e))
                /\ (OnTheWay(e)' <=> OnTheWay(e))
      /\ Handled' = Handled
  BY <1>1, QuietRoutes DEF QuietVars, kafkaVars, logVars, batchFate, Handled
<1>3. Len(b) \in Nat /\ DOMAIN b = 1..Len(b) /\ DOMAIN <<>> = {} /\ Elems(batch') = Elems(b)
  BY <1>1, LenProperties DEF Elems
<1>4. \A e \in S : Touched(e) => e \in Handled
  BY <1>1 DEF Once, Distinct, Untouched
<1>5. Distinct(S)'
  BY <1>1, <1>2, <1>3 DEF Distinct
<1>6. Untouched(S)'
  <2>1. \A i \in 1..Len(b) : b[i] \in S => ~Touched(b[i])
    BY <1>3, <1>4 DEF Elems
  <2> QED BY <1>1, <1>2, <1>3, <1>4, <2>1 DEF Untouched, At
<1>7. NotYetOffered(S)' /\ RoutesApart(S)'
  BY <1>1, <1>2 DEF Once, NotYetOffered, RoutesApart, At, kafkaVars, batchFate
<1> QED BY <1>5, <1>6, <1>7 DEF Once

\* A step that routes nothing and takes up no event keeps the routes of S apart.
LEMMA QuietOnce ==
  ASSUME NEW S \in SUBSET Events, Once(S), UNCHANGED <<QuietVars, doubtful, returned>>
  PROVE  RoutesApart(S)'
  BY QuietRoutes DEF Once, RoutesApart, QuietVars

\* Steps that go on without giving a record to Kafka keep the routes of each event as they are.
LEMMA ControlOnce ==
  ASSUME NEW S \in SUBSET Events, WorkInv, Once(S),
         DlqFlushed \/ Skip \/ ValidationRaises \/ EndValidation \/ Enrich \/ Flushed \/ EndSettle
  PROVE  Once(S)'
<1>1. UNCHANGED <<batch, valid, kafkaVars, logVars, batchFate>>
  BY DEF DlqFlushed, Skip, ValidationRaises, EndValidation, Enrich, Flushed, EndSettle
<1>2. /\ \A e : (Touched(e)' <=> Touched(e)) /\ (Offered(e)' <=> Offered(e))
      /\ Handled' = Handled /\ Elems(batch)' = Elems(batch)
      /\ RoutesApart(S)'
  BY <1>1, QuietRoutes, QuietOnce DEF QuietVars, kafkaVars, logVars, batchFate, Handled
<1>3. phase # "idle" /\ phase' # "idle"
  BY DEF DlqFlushed, Skip, ValidationRaises, EndValidation, Enrich, Flushed, EndSettle, Validating,
         WorkInv, TypeOK
<1>4. Distinct(S)'
  BY <1>1, <1>2, <1>3 DEF Once, Distinct
<1>5. /\ Len(batch) \in Nat /\ DOMAIN valid = 1..Len(valid) /\ Len(valid) \in Nat /\ index \in Nat
      /\ index >= 1
  BY SeqFacts DEF WorkInv, TypeOK
<1>6. Untouched(S)' /\ NotYetOffered(S)'
  <2>1. CASE DlqFlushed
    <3>1. /\ phase = "dlqFlush" /\ phase' = resume /\ UNCHANGED <<resume, index>>
          /\ resume \in {"validate", "settle"}
      BY <2>1 DEF DlqFlushed, WorkInv, TypeOK
    <3> QED BY <1>1, <1>2, <3>1 DEF Once, Untouched, NotYetOffered, At
  <2>2. CASE Skip
    <3>1. /\ phase = "validate" /\ UNCHANGED <<phase, resume>> /\ index' = index + 1
      BY <2>2 DEF Skip, Validating
    <3>2. \A i \in index'..Len(batch) : i \in index..Len(batch)
      BY <1>5, <3>1
    <3> QED BY <1>1, <1>2, <3>1, <3>2 DEF Once, Untouched, NotYetOffered, At
  <2>3. CASE ValidationRaises \/ EndSettle
    <3>1. phase' \in {"raised", "record"}
      BY <2>3 DEF ValidationRaises, EndSettle
    <3> QED BY <1>1, <1>2, <3>1 DEF Once, Untouched, NotYetOffered, At
  <2>4. CASE EndValidation
    <3>1. phase = "validate" /\ phase' = "enrich"
      BY <2>4 DEF EndValidation
    <3> QED BY <1>1, <1>2, <3>1 DEF Once, Untouched, NotYetOffered, At
  <2>5. CASE Enrich
    <3>1. phase = "enrich" /\ phase' \in {"record", "send", "raised"} /\ index' = 1
      BY <2>5 DEF Enrich
    <3>2. \A k \in DOMAIN valid : valid[k] \in S => ~Touched(valid[k]) /\ ~Offered(valid[k])
      BY <3>1 DEF Once, Untouched, Touched
    <3> QED BY <1>1, <1>2, <1>5, <3>1, <3>2 DEF Once, Untouched, NotYetOffered, At
  <2>6. CASE Flushed
    <3>1. phase = "send" /\ phase' = "settle" /\ index' = 1
      BY <2>6 DEF Flushed
    <3> QED BY <1>1, <1>2, <1>5, <3>1 DEF Once, Untouched, NotYetOffered, At
  <2> QED BY <2>1, <2>2, <2>3, <2>4, <2>5, <2>6
<1> QED BY <1>2, <1>4, <1>6 DEF Once

\* The event in hand comes behind those in valid_events in the batch.
LEMMA AcceptOnce ==
  ASSUME NEW S \in SUBSET Events, WorkInv, Once(S), Accept PROVE Once(S)'
<1>1. /\ phase = "validate" /\ index <= Len(batch) /\ phase' = phase
      /\ valid' = Append(valid, batch[index]) /\ index' = index + 1
      /\ UNCHANGED <<resume, batch, kafkaVars, logVars, batchFate>>
  BY DEF Accept, Validating, InHand
<1>2. /\ \A e : (Touched(e)' <=> Touched(e)) /\ (Offered(e)' <=> Offered(e))
      /\ Handled' = Handled /\ Elems(batch)' = Elems(batch)
      /\ RoutesApart(S)'
  BY <1>1, QuietRoutes, QuietOnce DEF QuietVars, kafkaVars, logVars, batchFate, Handled
<1>3. /\ index \in 1..Len(batch) /\ index \in DOMAIN batch /\ Len(batch) \in Nat
      /\ \A k \in DOMAIN valid' : (k \in DOMAIN valid /\ valid'[k] = valid[k])
                                    \/ (k = Len(valid) + 1 /\ valid'[k] = batch[index])
  <2>1. index \in 1..Len(batch) /\ index \in DOMAIN batch /\ Len(batch) \in Nat /\ batch[index] \in Events
    BY <1>1, SeqFacts DEF WorkInv, TypeOK
  <2> QED BY <1>1, <2>1, AppendProperties, LenProperties DEF WorkInv, TypeOK
<1>4. \A k \in DOMAIN valid : valid[k] \in S => valid[k] # batch[index]
  <2> SUFFICES ASSUME NEW k \in DOMAIN valid, valid[k] \in S, valid[k] = batch[index] PROVE FALSE
    OBVIOUS
  <2>1. PICK i \in 1..(index - 1) : batch[i] = valid[k]
    BY <1>1 DEF WorkInv, SortedOut, Passed, At
  <2>2. i \in DOMAIN batch /\ i # index
    BY <1>3, <2>1, SeqFacts DEF WorkInv
  <2> QED BY <1>3, <2>1, <2>2 DEF Once, Distinct
<1>5. Distinct(S)'
  <2>1. \A k, l \in DOMAIN valid' : valid'[k] \in S /\ valid'[k] = valid'[l] => k = l
    BY <1>3, <1>4 DEF Once, Distinct
  <2> QED BY <1>1, <1>2, <2>1 DEF Once, Distinct
<1>6. Untouched(S)' /\ NotYetOffered(S)'
  <2>1. \A i \in index'..Len(batch) : i \in index..Len(batch)
    BY <1>1, <1>3
  <2>2. \A k \in DOMAIN valid' : valid'[k] \in S => ~Touched(valid'[k])
    BY <1>1, <1>3 DEF Once, Untouched, At
  <2> QED BY <1>1, <1>2, <2>1, <2>2 DEF Once, Untouched, NotYetOffered, At
<1> QED BY <1>2, <1>5, <1>6 DEF Once

\* The rejected event is neither valid nor anywhere else in the batch.
LEMMA RejectOnce ==
  ASSUME NEW S \in SUBSET Events, WorkInv, Once(S), Reject PROVE Once(S)'
<1>0. PICK e : e = batch[index]
  OBVIOUS
<1>1. /\ phase = "validate" /\ index <= Len(batch) /\ Class[e] = "invalid"
      /\ SendToDlq(e, "validate") /\ index' = index + 1
      /\ UNCHANGED <<batch, valid, future, topic, dlq, silent, doubtful, batchFate>>
  BY <1>0 DEF Reject, Validating, InHand
<1>2. /\ index \in 1..Len(batch) /\ index \in DOMAIN batch /\ Len(batch) \in Nat /\ e \in Events
      /\ e \in Elems(batch)
  BY <1>0, <1>1, SeqFacts DEF WorkInv, TypeOK, Elems
<1>3. /\ \A f \in Events \ {e} : Offered(f)' <=> Offered(f)
      /\ \A f : OnTheWay(f)' <=> OnTheWay(f)
      /\ At("validate")' /\ phase' \in {"validate", "dlqFlush"}
      /\ At("settle")' => FALSE
  <2>1. "validate" \in {"validate", "settle"}
    OBVIOUS
  <2>2. phase' = "dlqFlush" => resume' = "validate"
    BY <1>1 DEF SendToDlq
  <2>3. \E i \in DOMAIN batch : batch[i] = e
    BY <1>0, <1>2
  <2> QED BY <1>1, <1>2, <2>1, <2>2, <2>3, SendToDlqOffers DEF At
<1>4. \A f \in Events \ {e} : Touched(f)' <=> Touched(f)
  BY <1>1, <1>3 DEF Touched
<1>5. Handled' = Handled /\ Elems(batch)' = Elems(batch) /\ returned' = returned
  BY <1>1 DEF Handled, batchFate, Elems
<1>6. Distinct(S)'
  BY <1>1, <1>3, <1>5 DEF Once, Distinct
<1>7. Untouched(S)' /\ NotYetOffered(S)'
  <2>1. \A i \in index'..Len(batch) :
          i \in index..Len(batch) /\ batch[i] \in Events /\ (batch[i] \in S => batch[i] # e)
    <3> SUFFICES ASSUME NEW i \in index'..Len(batch)
                 PROVE  i \in index..Len(batch) /\ batch[i] \in Events /\ (batch[i] \in S => batch[i] # e)
      OBVIOUS
    <3>1. i \in index..Len(batch) /\ i # index /\ i \in DOMAIN batch /\ batch[i] \in Events
      BY <1>1, <1>2, SeqFacts DEF WorkInv
    <3> QED BY <1>0, <1>2, <3>1 DEF Once, Distinct
  <2>2. \A k \in DOMAIN valid : valid[k] \in Events /\ valid[k] # e
    BY <1>1, SeqFacts DEF WorkInv, SortedOut
  <2>3. \A i \in index'..Len(batch) : batch[i] \in S => ~Touched(batch[i])'
    BY <1>1, <1>4, <2>1 DEF Once, Untouched, At
  <2>4. \A k \in DOMAIN valid : valid[k] \in S => ~Touched(valid[k])'
    BY <1>1, <1>4, <2>2 DEF Once, Untouched, At
  <2>5. \A f \in S : Touched(f)' => f \in Handled' \cup Elems(batch')
    BY <1>2, <1>4, <1>5 DEF Once, Untouched
  <2> QED BY <1>1, <1>3, <1>5, <2>3, <2>4, <2>5 DEF Untouched, NotYetOffered
<1>8. RoutesApart(S)'
  BY <1>1, <1>3, <1>5 DEF Once, RoutesApart, WorkInv, ClassDecides
<1> QED BY <1>6, <1>7, <1>8 DEF Once

\* An event that is sent has left no trace before.
LEMMA SendNextOnce ==
  ASSUME NEW S \in SUBSET Events, WorkInv, Once(S), SendNext PROVE Once(S)'
<1>0. PICK e : e = valid[index]
  OBVIOUS
<1>1. /\ phase = "send" /\ index <= Len(valid)
      /\ UNCHANGED <<resume, batch, valid, future, topic, dlq, silent, doubtful, reported, batchFate>>
      /\ \/ inFlight' = inFlight \cup {Record(e, "topic")} /\ index' = index + 1 /\ phase' = phase
         \/ phase' = "raised" /\ inFlight' = inFlight
  BY <1>0 DEF SendNext
<1>2. index \in 1..Len(valid) /\ index \in DOMAIN valid /\ Len(valid) \in Nat /\ e \in Events
  BY <1>0, <1>1, SeqFacts DEF WorkInv, TypeOK
<1>3. /\ \A f : Offered(f)' <=> Offered(f)
      /\ \A f : f # e => ((OnTheWay(f)' <=> OnTheWay(f)) /\ (Touched(f)' <=> Touched(f)))
      /\ phase' # "send" => \A f : (OnTheWay(f)' <=> OnTheWay(f)) /\ (Touched(f)' <=> Touched(f))
  BY <1>1, RecordsDiffer DEF Offered, OnTheWay, DlqAttempted, Touched
<1>4. Handled' = Handled /\ Elems(batch)' = Elems(batch) /\ returned' = returned
  BY <1>1 DEF Handled, batchFate, Elems
<1>5. e \in Elems(batch) /\ (e \in S => ~Touched(e) /\ e \notin Handled)
  <2>1. PICK i \in 1..Passed : batch[i] = e
    BY <1>0, <1>1, <1>2 DEF WorkInv, SortedOut
  <2>2. e \in Elems(batch)
    BY <1>1, <2>1, SeqFacts DEF WorkInv, Passed, At, Elems
  <2> QED BY <1>0, <1>1, <1>2, <2>2 DEF Once, Untouched, Distinct
<1>6. Distinct(S)'
  BY <1>1, <1>4 DEF Once, Distinct
<1>7. Untouched(S)' /\ NotYetOffered(S)'
  <2>1. \A f \in S : Touched(f)' => f \in Handled' \cup Elems(batch')
    BY <1>3, <1>4, <1>5 DEF Once, Untouched
  <2>2. CASE phase' = "raised"
    BY <2>1, <2>2 DEF Untouched, NotYetOffered, At
  <2>3. CASE index' = index + 1 /\ phase' = phase
    <3>1. \A k \in index'..Len(valid) : k \in index..Len(valid) /\ k \in DOMAIN valid /\ k # index
      BY <1>2, <2>3, SeqFacts DEF WorkInv
    <3>2. \A k \in index'..Len(valid) : valid[k] \in S => valid[k] # e
      BY <1>0, <1>2, <3>1 DEF Once, Distinct
    <3>3. \A k \in index'..Len(valid) : valid[k] \in S => ~Touched(valid[k])'
      BY <1>1, <1>3, <3>1, <3>2 DEF Once, Untouched
    <3>4. \A k \in DOMAIN valid : valid[k] \in S => ~Offered(valid[k])'
      BY <1>1, <1>3 DEF Once, NotYetOffered
    <3> QED BY <1>1, <2>1, <2>3, <3>3, <3>4 DEF Untouched, NotYetOffered, At
  <2> QED BY <1>1, <2>2, <2>3
<1>8. RoutesApart(S)'
  <2>1. \A f \in S : f # e => /\ Offered(f)' => ~OnTheWay(f)' /\ future'[f] # "ok"
                              /\ OnTheWay(f)' => future'[f] = "none" /\ f \notin topic' /\ f \notin returned'
    BY <1>1, <1>3, <1>4 DEF Once, RoutesApart
  <2>2. e \in S => ~Offered(e)' /\ future'[e] = "none" /\ e \notin topic' /\ e \notin returned'
    BY <1>1, <1>3, <1>4, <1>5 DEF Touched, Handled
  <2> QED BY <1>1, <2>1, <2>2 DEF Once, RoutesApart
<1> QED BY <1>6, <1>7, <1>8 DEF Once

\* An event goes to the DLQ when its future has failed, which nothing in flight changes.
LEMMA SettleOnce ==
  ASSUME NEW S \in SUBSET Events, WorkInv, Once(S), Settle PROVE Once(S)'
<1>0. PICK e : e = valid[index]
  OBVIOUS
<1>1. /\ phase = "settle" /\ index <= Len(valid) /\ index' = index + 1
      /\ UNCHANGED <<batch, valid, future, topic, dlq, silent, doubtful, batchFate>>
      /\ \/ UNCHANGED <<phase, resume, inFlight, reported>>
         \/ future[e] # "ok" /\ SendToDlq(e, "settle")
  BY <1>0 DEF Settle, Acked
<1>2. /\ index \in 1..Len(valid) /\ index \in DOMAIN valid /\ Len(valid) \in Nat /\ e \in Events
      /\ future[e] # "none"
  <2>1. index \in 1..Len(valid) /\ index \in DOMAIN valid /\ Len(valid) \in Nat /\ e \in Events
    BY <1>0, <1>1, SeqFacts DEF WorkInv, TypeOK
  <2> QED BY <1>0, <1>1, <2>1 DEF WorkInv, FuturesReady, At
<1>3. /\ \A f \in Events \ {e} : Offered(f)' <=> Offered(f)
      /\ Offered(e)' => Offered(e) \/ future[e] # "ok"
      /\ \A f : OnTheWay(f)' <=> OnTheWay(f)
      /\ At("settle")' /\ phase' \in {"settle", "dlqFlush"}
      /\ At("validate")' => FALSE
  <2>1. CASE UNCHANGED <<phase, resume, inFlight, reported>>
    BY <1>1, <2>1 DEF At, Offered, DlqAttempted, OnTheWay
  <2>2. CASE future[e] # "ok" /\ SendToDlq(e, "settle")
    <3>1. phase' = "dlqFlush" => resume' = "settle"
      BY <2>2 DEF SendToDlq
    <3>2. \E i \in DOMAIN batch : batch[i] = e
      BY <1>0, <1>1, <1>2, ValidInBatch
    <3> QED BY <1>1, <1>2, <2>2, <3>1, <3>2, SendToDlqOffers DEF At
  <2> QED BY <1>1, <2>1, <2>2
<1>4. Handled' = Handled /\ Elems(batch)' = Elems(batch) /\ returned' = returned
  BY <1>1 DEF Handled, batchFate, Elems
<1>5. Touched(e) /\ \A f \in Events \ {e} : Touched(f)' <=> Touched(f)
  BY <1>1, <1>2, <1>3 DEF Touched
<1>6. Distinct(S)'
  BY <1>1, <1>3, <1>4 DEF Once, Distinct
<1>7. Untouched(S)'
  <2>1. \A f \in S : Touched(f)' => f \in Handled' \cup Elems(batch')
    BY <1>4, <1>5 DEF Once, Untouched
  <2> QED BY <1>1, <1>3, <2>1 DEF Untouched, At
<1>8. NotYetOffered(S)'
  <2>1. \A k \in index'..Len(valid) :
          k \in index..Len(valid) /\ k \in DOMAIN valid /\ k # index /\ valid[k] \in Events
    BY <1>1, <1>2, SeqFacts DEF WorkInv
  <2>2. \A k \in index'..Len(valid) : valid[k] \in S => valid[k] # e
    BY <1>0, <1>2, <2>1 DEF Once, Distinct
  <2>3. \A k \in index'..Len(valid) : valid[k] \in S => ~Offered(valid[k])'
    BY <1>1, <1>3, <2>1, <2>2 DEF Once, NotYetOffered, At
  <2> QED BY <1>1, <1>3, <2>3 DEF NotYetOffered
<1>9. RoutesApart(S)'
  <2>1. e \in S => ~OnTheWay(e)
    BY <1>2 DEF Once, RoutesApart
  <2> QED BY <1>1, <1>3, <1>4, <2>1 DEF Once, RoutesApart
<1> QED BY <1>6, <1>7, <1>8, <1>9 DEF Once

\* Nothing of a batch that returns is in flight.
LEMMA NothingInFlight ==
  ASSUME NEW S \in SUBSET Events, WorkInv, Once(S), phase = "record"
  PROVE  \A e \in Elems(batch) : e \in S => ~OnTheWay(e)
<1> SUFFICES ASSUME NEW i \in DOMAIN batch, batch[i] \in S, OnTheWay(batch[i]) PROVE FALSE
  BY DEF Elems
<1>1. i \in 1..Passed /\ batch[i] \in Events
  BY SeqFacts DEF WorkInv, Passed, At
<1>2. Class[batch[i]] = "valid"
  BY <1>1 DEF WorkInv, ClassDecides
<1>3. PICK k \in DOMAIN valid : valid[k] = batch[i]
  BY <1>1, <1>2 DEF WorkInv, SortedOut
<1>4. future[batch[i]] # "none"
  BY <1>3 DEF WorkInv, FuturesReady
<1> QED BY <1>4 DEF Once, RoutesApart

\* The events of a batch that ends were handed over, and are in no other batch.
LEMMA EndOnce ==
  ASSUME NEW S \in SUBSET Events, WorkInv, Once(S), Return \/ Raise PROVE Once(S)'
<1>1. /\ phase' = "idle" /\ phase # "idle" /\ phase # "dlqFlush"
      /\ UNCHANGED <<batch, valid, kafkaVars, logVars>>
  BY DEF Return, Raise
<1>2. /\ \A e : (Touched(e)' <=> Touched(e)) /\ (Offered(e)' <=> Offered(e))
                /\ (OnTheWay(e)' <=> OnTheWay(e))
      /\ Elems(batch)' = Elems(batch)
  BY <1>1, QuietRoutes DEF QuietVars, kafkaVars, logVars
<1>3. /\ Handled' = Handled \cup Elems(batch)
      /\ returned' = returned \/ (phase = "record" /\ returned' = returned \cup Elems(batch))
  BY DEF Return, Raise, Handled
<1>4. Distinct(S)'
  BY <1>1, <1>2, <1>3 DEF Once, Distinct
<1>5. Untouched(S)' /\ NotYetOffered(S)'
  BY <1>1, <1>2, <1>3 DEF Once, Untouched, NotYetOffered, At
<1>6. RoutesApart(S)'
  <2>1. \A e \in S : OnTheWay(e) => e \notin returned'
    BY <1>3, NothingInFlight DEF Once, RoutesApart
  <2> QED BY <1>1, <1>2, <2>1 DEF Once, RoutesApart, kafkaVars
<1> QED BY <1>4, <1>5, <1>6 DEF Once

\* A crash drops what is in flight; what was handed over does not come back.
LEMMA CrashOnce ==
  ASSUME NEW S \in SUBSET Events, WorkInv, Once(S), Crash PROVE Once(S)'
<1>1. /\ phase' = "idle" /\ batch' = <<>> /\ valid' = <<>> /\ inFlight' = {}
      /\ died' = IF phase = "idle" THEN died ELSE died \cup Elems(batch)
      /\ UNCHANGED <<future, topic, dlq, silent, doubtful, logVars, returned, aborted>>
  BY DEF Crash
<1>2. \A e : /\ Touched(e)' => Touched(e)
             /\ Offered(e)' => Offered(e)
             /\ ~OnTheWay(e)'
  BY <1>1 DEF Touched, Offered, OnTheWay, DlqAttempted, logVars
<1>3. Handled \cup Elems(batch) = Handled'
  BY <1>1 DEF Handled, Once, Distinct
<1>4. Distinct(S)'
  BY <1>1 DEF Distinct, Elems
<1>5. Untouched(S)' /\ NotYetOffered(S)'
  BY <1>1, <1>2, <1>3 DEF Once, Untouched, NotYetOffered, At
<1>6. RoutesApart(S)'
  BY <1>1, <1>2 DEF Once, RoutesApart
<1> QED BY <1>4, <1>5, <1>6 DEF Once

\* Resolving a record takes it from one place of its own route to another.
LEMMA ResolveOnce ==
  ASSUME NEW S \in SUBSET Events, WorkInv, Once(S), KafkaResolves PROVE Once(S)'
<1>1. UNCHANGED <<phase, resume, batch, index, valid, skipped, returned, aborted, died>>
  BY ResolvedRoutes DEF workVars, batchFate
<1>2. \A e \in Events : /\ Touched(e)' => Touched(e)
                        /\ Offered(e)' <=> Offered(e)
  BY ResolvedRoutes DEF Touched
<1>3. \A i \in DOMAIN batch : batch[i] \in Events
  BY SeqFacts DEF WorkInv
<1>4. \A k \in DOMAIN valid : valid[k] \in Events
  BY SeqFacts DEF WorkInv
<1>5. Handled' = Handled /\ Elems(batch)' = Elems(batch)
      /\ (At("validate")' <=> At("validate")) /\ (At("settle")' <=> At("settle"))
  BY <1>1 DEF Handled, Elems, At
<1>6. Distinct(S)'
  BY <1>1, <1>5 DEF Once, Distinct
<1>7. Untouched(S)' /\ NotYetOffered(S)'
  <2>1. Untouched(S)'
    BY <1>1, <1>2, <1>5 DEF Once, Untouched
  <2>2. NotYetOffered(S)'
    BY <1>1, <1>2, <1>5 DEF Once, NotYetOffered
  <2> QED BY <2>1, <2>2
<1>8. RoutesApart(S)'
  <2> SUFFICES ASSUME NEW e \in S
               PROVE  /\ Offered(e)' => ~OnTheWay(e)' /\ future'[e] # "ok"
                      /\ OnTheWay(e)' => future'[e] = "none" /\ e \notin topic' /\ e \notin returned'
                      /\ e \in topic' => future'[e] = "ok" \/ e \in doubtful'
    BY DEF RoutesApart
  <2>1. Offered(e)' => ~OnTheWay(e)' /\ future'[e] # "ok"
    BY ResolvedRoutes DEF Once, RoutesApart
  <2>2. /\ OnTheWay(e)' => future'[e] = "none" /\ e \notin topic'
        /\ e \in topic' => future'[e] = "ok" \/ e \in doubtful'
    <3>1. /\ OnTheWay(e) => future[e] = "none" /\ e \notin topic
          /\ e \in topic => future[e] = "ok" \/ e \in doubtful
      BY DEF Once, RoutesApart
    <3> QED BY <3>1, ResolvedTopic
  <2> QED BY <1>1, <2>1, <2>2, ResolvedRoutes DEF Once, RoutesApart
<1> QED BY <1>6, <1>7, <1>8 DEF Once

\* All steps within a batch.
LEMMA BodyOnce ==
  ASSUME NEW S \in SUBSET Events, WorkInv, Once(S), Body PROVE Once(S)'
  BY ControlOnce, AcceptOnce, RejectOnce, SendNextOnce, SettleOnce DEF Body

\* Once is about the variables of ProcessBatch only.
LEMMA StutterOnce ==
  ASSUME NEW S \in SUBSET Events, WorkInv, Once(S), UNCHANGED vars PROVE Once(S)'
<1>1. UNCHANGED <<phase, resume, batch, index, valid, skipped, inFlight, future, topic, dlq,
                  reported, refused, silent, doubtful, sloRow, returned, aborted, died>>
  BY DEF vars
<1>2. /\ \A e : (Touched(e)' <=> Touched(e)) /\ (Offered(e)' <=> Offered(e))
      /\ Handled' = Handled /\ Elems(batch)' = Elems(batch)
      /\ (At("validate")' <=> At("validate")) /\ (At("settle")' <=> At("settle"))
      /\ RoutesApart(S)'
  BY <1>1, QuietRoutes, QuietOnce DEF QuietVars, Handled, At
<1>3. Distinct(S)' /\ NotYetOffered(S)'
  BY <1>1, <1>2 DEF Once, Distinct, NotYetOffered
<1>4. Untouched(S)'
  BY <1>1, <1>2 DEF Once, Untouched
<1> QED BY <1>2, <1>3, <1>4 DEF Once

-----------------------------------------------------------------------------
(* Counted, action by action. *)

\* Nothing is rejected before the first event.
LEMMA RejectedNone == RejectedIn(0) = {} /\ Cardinality(RejectedIn(0)) = 0
<1>1. RejectedIn(0) = {}
  BY DEF RejectedIn
<1> QED BY <1>1, FS_EmptySet

\* One more event of the batch is one more rejected event if it is invalid: it is not
\* in the batch before.
LEMMA RejectedNext ==
  ASSUME WorkInv, Distinct(Events), NEW n \in Nat, n + 1 \in 1..Len(batch)
  PROVE  /\ Cardinality(RejectedIn(n)) \in Nat
         /\ Class[batch[n + 1]] = "invalid" => Cardinality(RejectedIn(n + 1)) = Cardinality(RejectedIn(n)) + 1
         /\ Class[batch[n + 1]] # "invalid" => Cardinality(RejectedIn(n + 1)) = Cardinality(RejectedIn(n))
<1>1. /\ n \in 0..(Len(batch) - 1) /\ Len(batch) \in Nat
      /\ \A i \in 1..(n + 1) : i \in DOMAIN batch /\ batch[i] \in Events
  BY SeqFacts DEF WorkInv
<1>2. IsFiniteSet(RejectedIn(n)) /\ Cardinality(RejectedIn(n)) \in Nat
  <2>1. IsFiniteSet(Events)
    BY FS_Interval, ProcessBatchAssumption DEF Events
  <2>2. RejectedIn(n) \in SUBSET Events
    BY <1>1 DEF RejectedIn
  <2> QED BY <2>1, <2>2, FS_Subset, FS_CardinalityType
<1>3. CASE Class[batch[n + 1]] = "invalid"
  <2>1. RejectedIn(n + 1) = RejectedIn(n) \cup {batch[n + 1]}
    BY <1>1, <1>3 DEF RejectedIn
  <2>2. batch[n + 1] \notin RejectedIn(n)
    BY <1>1 DEF RejectedIn, Distinct
  <2> QED BY <1>2, <1>3, <2>1, <2>2, FS_AddElement
<1>4. CASE Class[batch[n + 1]] # "invalid"
  <2>1. RejectedIn(n + 1) = RejectedIn(n)
    BY <1>1, <1>4 DEF RejectedIn
  <2> QED BY <1>2, <1>4, <2>1
<1> QED BY <1>3, <1>4

\* No batch and no SLO row at the start.
LEMMA InitCounted == Init => Counted
  BY DEF Init, Counted, NoRow

\* The counters start at nothing.
LEMMA BeginCounted ==
  ASSUME WorkInv, NEW b \in Seq(Events), Begin(b) PROVE Counted'
<1>1. phase' = "validate" /\ index' = 1 /\ valid' = <<>> /\ skipped' = 0
  BY DEF Begin
<1>2. Passed' = 0 /\ Len(<<>>) = 0
  BY <1>1, EmptySeq DEF Passed, At
<1>3. RejectedIn(0)' = {} /\ Cardinality(RejectedIn(0)') = 0
  <2>1. RejectedIn(0)' = {}
    BY DEF RejectedIn
  <2> QED BY <2>1, FS_EmptySet
<1> QED BY <1>1, <1>2, <1>3 DEF Counted, RejectedIn

\* The validation of one event.
LEMMA ValidationCounted ==
  ASSUME WorkInv, Distinct(Events), Counted, Skip \/ Accept \/ Reject
  PROVE  Counted'
<1>0. PICK n : n = index - 1
  OBVIOUS
<1>1. /\ phase = "validate" /\ index \in 1..Len(batch) /\ index' = index + 1 /\ batch' = batch
      /\ Len(valid) \in Nat /\ skipped \in Nat /\ valid \in Seq(Events) /\ n \in Nat /\ index = n + 1
      /\ Len(batch) \in Nat
  BY <1>0, SeqFacts DEF WorkInv, TypeOK, Skip, Accept, Reject, Validating
<1>2. Passed = n /\ Passed' = n + 1 /\ phase' \notin {"idle", "raised"}
  <2>1. At("validate") /\ At("validate")' /\ phase' \notin {"idle", "raised"}
    BY <1>1 DEF Skip, Accept, Reject, SendToDlq, At
  <2> QED BY <1>0, <1>1, <2>1 DEF Passed
<1>3. Len(valid) + skipped + Cardinality(RejectedIn(n)) = n
  BY <1>1, <1>2 DEF Counted
<1>4. /\ Class[batch[n + 1]] = "invalid" => Len(valid') + skipped' = Len(valid) + skipped
      /\ Class[batch[n + 1]] # "invalid" => Len(valid') + skipped' = Len(valid) + skipped + 1
  <2>1. CASE Skip
    BY <1>1, <2>1 DEF Skip, Validating, InHand
  <2>2. CASE Accept
    <3>1. valid' = Append(valid, batch[index]) /\ batch[index] \in Events
      BY <1>1, <2>2, SeqFacts DEF WorkInv, Accept, InHand
    <3>2. Len(valid') = Len(valid) + 1
      BY <1>1, <3>1, AppendProperties
    <3> QED BY <1>1, <2>2, <3>2 DEF Accept, Validating, InHand
  <2>3. CASE Reject
    BY <1>1, <2>3 DEF Reject, Validating, InHand
  <2> QED BY <2>1, <2>2, <2>3
<1>5. /\ Cardinality(RejectedIn(n)) \in Nat
      /\ Class[batch[n + 1]] = "invalid" => Cardinality(RejectedIn(n + 1)) = Cardinality(RejectedIn(n)) + 1
      /\ Class[batch[n + 1]] # "invalid" => Cardinality(RejectedIn(n + 1)) = Cardinality(RejectedIn(n))
  BY <1>1, RejectedNext
<1>6. RejectedIn(Passed)' = RejectedIn(n + 1)
  BY <1>1, <1>2 DEF RejectedIn
<1>7. Len(valid') \in Nat /\ skipped' \in Nat
  <2>1. CASE Accept
    BY <1>1, <2>1, AppendProperties, SeqFacts DEF WorkInv, Accept, InHand
  <2> QED BY <1>1, <2>1 DEF Skip, Reject
<1>8. Len(valid') + skipped' + Cardinality(RejectedIn(n + 1)) = n + 1
  <2>1. CASE Class[batch[n + 1]] = "invalid"
    BY SMTT(30), <1>1, <1>3, <1>4, <1>5, <1>7, <2>1
  <2>2. CASE Class[batch[n + 1]] # "invalid"
    BY <1>1, <1>3, <1>4, <1>5, <1>7, <2>2
  <2> QED BY <2>1, <2>2
<1> QED BY <1>2, <1>6, <1>8 DEF Counted

\* The other steps of process_batch count nothing.
LEMMA CountedKept ==
  ASSUME Counted, UNCHANGED <<batch, valid, skipped>>, Passed' = Passed,
         phase \notin {"idle", "raised"}, phase' # "idle"
  PROVE  Counted'
  BY DEF Counted, RejectedIn

\* Each round of the validation adds one event to one of the three counts.
LEMMA BodyCounted ==
  ASSUME WorkInv, Distinct(Events), Counted, Body PROVE Counted'
<1>1. /\ index \in Nat /\ Len(batch) \in Nat /\ index <= Len(batch) + 1
      /\ resume \in {"validate", "settle"}
  BY SeqFacts DEF WorkInv, TypeOK
<1>2. CASE Skip \/ Accept \/ Reject
  BY <1>2, ValidationCounted
<1>3. CASE ValidationRaises
  BY <1>3 DEF ValidationRaises, Counted
<1>4. CASE DlqFlushed
  <2>1. /\ phase = "dlqFlush" /\ phase' = resume /\ phase' # "idle"
        /\ UNCHANGED <<resume, batch, valid, skipped, index>>
    BY <1>1, <1>4 DEF DlqFlushed
  <2>2. Passed' = Passed
    BY <1>1, <2>1 DEF Passed, At
  <2> QED BY <2>1, <2>2, CountedKept
<1>5. CASE EndValidation
  <2>1. /\ phase = "validate" /\ phase' = "enrich" /\ index > Len(batch)
        /\ UNCHANGED <<batch, valid, skipped>>
    BY <1>5 DEF EndValidation
  <2>2. Passed' = Passed
    BY <1>1, <2>1 DEF Passed, At
  <2> QED BY <2>1, <2>2, CountedKept
<1>6. CASE Enrich \/ SendNext \/ Flushed \/ Settle \/ EndSettle
  <2>1. /\ phase \in {"enrich", "send", "settle"} /\ UNCHANGED <<batch, valid, skipped>>
        /\ phase' # "idle" /\ ~At("validate")'
    BY <1>6 DEF Enrich, SendNext, Flushed, Settle, EndSettle, SendToDlq, At
  <2>2. Passed' = Passed
    BY <2>1 DEF Passed, At
  <2> QED BY <2>1, <2>2, CountedKept
<1> QED BY <1>2, <1>3, <1>4, <1>5, <1>6 DEF Body

\* The row is written from the counters of the whole batch.
LEMMA EndCounted ==
  ASSUME WorkInv, Once(Events), Counted, Return \/ Raise PROVE Counted'
<1>1. phase' = "idle" /\ phase # "idle" /\ batch' = batch /\ Len(batch) \in Nat /\ Len(valid) \in Nat
      /\ skipped \in Nat
  BY SeqFacts DEF WorkInv, Return, Raise
<1>2. RejectedIn(Len(batch))' = RejectedIn(Len(batch))
  BY <1>1 DEF RejectedIn
<1>3. CASE Raise
  <2>1. Elems(batch)' \cap returned' = {}
    <3>1. returned' = returned /\ Elems(batch)' = Elems(batch)
      BY <1>3 DEF Raise, Elems
    <3>2. Elems(batch) \subseteq Events
      BY SeqFacts DEF WorkInv, Elems
    <3> QED BY <1>1, <3>1, <3>2 DEF Once, Distinct, Handled
  <2> QED BY <1>1, <2>1 DEF Counted
<1>4. CASE Return
  <2>1. phase = "record" /\ sloRow' \in {NoRow, [size |-> Len(batch), valid |-> Len(valid), skipped |-> skipped]}
    BY <1>4 DEF Return
  <2>2. Len(valid) + skipped + Cardinality(RejectedIn(Len(batch))) = Len(batch)
    BY <2>1 DEF Counted, Passed, At
  <2> QED BY <1>1, <1>2, <2>1, <2>2 DEF Counted
<1> QED BY <1>3, <1>4

\* A crash leaves no counters.
LEMMA CrashCounted ==
  ASSUME Crash PROVE Counted'
  BY DEF Crash, Counted, Elems

\* What leaves the locals and the SLO row alone leaves the counts alone.
LEMMA QuietCounted ==
  ASSUME Counted, UNCHANGED <<workVars, sloRow, returned>> PROVE Counted'
<1>1. UNCHANGED <<phase, resume, batch, index, valid, skipped, sloRow, returned>>
  BY DEF workVars
<1>2. Passed' = Passed /\ Elems(batch)' = Elems(batch)
      /\ RejectedIn(Passed)' = RejectedIn(Passed) /\ RejectedIn(Len(batch))' = RejectedIn(Len(batch))
  BY <1>1 DEF Passed, At, Elems, RejectedIn
<1> QED BY <1>1, <1>2 DEF Counted

-----------------------------------------------------------------------------
(* The theorems. *)

\* The collector of this module hands over the events behind those it handled.
LEMMA BeginNextPremises ==
  ASSUME BeginNext
  PROVE  \E b \in Seq(Events) :
           /\ Begin(b)
           /\ \A i, j \in DOMAIN b : b[i] \in Events /\ b[i] = b[j] => i = j
           /\ \A e \in Elems(b) : e \in Events => e \notin Handled
<1>1. PICK first, last \in Events :
        /\ Handled = 1..(first - 1)
        /\ last \in {first, first + 1}
        /\ Begin([i \in 1..(last - first + 1) |-> first + i - 1])
  BY DEF BeginNext
<1>2. PICK b : b = [i \in 1..(last - first + 1) |-> first + i - 1]
  OBVIOUS
<1>3. first \in Nat /\ last \in Nat /\ first >= 1 /\ last <= StreamLen /\ last - first + 1 \in {1, 2}
  BY <1>1, ProcessBatchAssumption DEF Events
<1>4. \A i \in 1..(last - first + 1) : first + i - 1 \in Events
  BY <1>1, <1>3, ProcessBatchAssumption DEF Events
<1>5. b \in Seq(Events)
  <2>1. last - first + 1 \in Nat
    BY <1>3
  <2>2. b \in [1..(last - first + 1) -> Events]
    BY <1>2, <1>4
  <2> QED BY <2>1, <2>2, SeqDef
<1>6. \A i, j \in DOMAIN b : b[i] = b[j] => i = j
  BY <1>2, <1>3
<1>7. \A e \in Elems(b) : e \notin Handled
  BY <1>1, <1>2, <1>3 DEF Elems
<1> QED BY <1>1, <1>2, <1>5, <1>6, <1>7

\* The invariant at the start.
LEMMA InitIInv == Init => IInv
<1> SUFFICES ASSUME Init PROVE IInv
  OBVIOUS
<1>1. Events \in SUBSET Events
  OBVIOUS
<1> QED BY <1>1, InitWorkInv, InitOnce, InitCounted DEF IInv

\* Every step keeps the invariant.
LEMMA NextIInv == IInv /\ [Next]_vars => IInv'
<1> SUFFICES ASSUME IInv, [Next]_vars PROVE IInv'
  OBVIOUS
<1>1. WorkInv /\ Once(Events) /\ Distinct(Events) /\ Counted /\ Events \in SUBSET Events
  BY DEF IInv, Once
<1>2. CASE BeginNext
  <2>1. PICK b \in Seq(Events) :
           /\ Begin(b)
           /\ \A i, j \in DOMAIN b : b[i] \in Events /\ b[i] = b[j] => i = j
           /\ \A e \in Elems(b) : e \in Events => e \notin Handled
    BY <1>2, BeginNextPremises
  <2>2. WorkInv' /\ Counted'
    BY <1>1, <2>1, BeginWork, BeginCounted
  <2>3. Once(Events)'
    BY <1>1, <2>1, BeginOnce
  <2> QED BY <2>2, <2>3 DEF IInv
<1>3. CASE Body
  BY <1>1, <1>3, BodyWork, BodyOnce, BodyCounted DEF IInv
<1>4. CASE Return \/ Raise
  <2>1. WorkInv'
    BY <1>1, <1>4, ReturnWork, RaisesWork
  <2>2. Once(Events)' /\ Counted'
    BY <1>1, <1>4, EndOnce, EndCounted
  <2> QED BY <2>1, <2>2 DEF IInv
<1>5. CASE KafkaResolves
  <2>1. UNCHANGED <<workVars, sloRow, returned>>
    BY <1>1, <1>5, ResolvedRoutes DEF batchFate
  <2> QED BY <1>1, <1>5, <2>1, ResolveWork, ResolveOnce, QuietCounted DEF IInv
<1>6. CASE Crash
  BY <1>1, <1>6, CrashWork, CrashOnce, CrashCounted DEF IInv
<1>7. CASE UNCHANGED vars
  <2>1. UNCHANGED <<workVars, sloRow, returned>>
    BY <1>7 DEF vars, workVars
  <2> QED BY <1>1, <1>7, <2>1, StutterWork, StutterOnce, QuietCounted DEF IInv
<1> QED BY <1>2, <1>3, <1>4, <1>5, <1>6, <1>7 DEF Next, Main

\* Where process_batch is and what is in flight, stored and reported fit together at
\* every step of the main thread and of KafkaProducer's.
THEOREM Inductive == Spec => []IInv
  BY InitIInv, NextIInv, PTL DEF Spec

\* The locals of process_batch, the records in flight and the topics have their types, in
\* every phase.
THEOREM TypeCorrect == Spec => []TypeOK
<1>1. IInv => TypeOK
  BY DEF IInv, WorkInv
<1> QED BY <1>1, Inductive, PTL

\* Once its batch has returned, a valid event is on the main topic or was offered to the
\* DLQ, an invalid one was offered to the DLQ, a skipped one is nowhere; and the row in
\* producer_slo_metrics leaves over exactly the rejected events.
THEOREM Routed == Spec => []ReturnedIsRouted
<1>1. ASSUME IInv, NEW e \in returned
      PROVE  /\ Class[e] = "valid" => e \in topic \cup DlqAttempted
             /\ Class[e] = "invalid" => e \in DlqAttempted \ topic
             /\ Class[e] = "skip" => e \notin topic \cup DlqAttempted
  <2>1. e \in Events
    BY <1>1 DEF IInv, WorkInv, TypeOK
  <2>2. /\ Class[e] = "skip" \/ e \in topic \cup DlqAttempted
        /\ e \in topic => Class[e] = "valid"
        /\ e \in DlqAttempted => Class[e] \in {"valid", "invalid"}
    BY <1>1, <2>1 DEF IInv, WorkInv, ReturnedWentOn, ClassDecides, Offered
  <2> QED BY <2>2
<1>2. ASSUME IInv, phase = "idle", sloRow # NoRow, Elems(batch) \cap returned # {}
      PROVE  sloRow.size - (sloRow.valid + sloRow.skipped)
               = Cardinality({e \in Elems(batch) : Class[e] = "invalid"})
  <2>1. sloRow.size = sloRow.valid + sloRow.skipped + Cardinality(RejectedIn(Len(batch)))
    BY <1>2 DEF IInv, Counted
  <2>2. DOMAIN batch = 1..Len(batch) /\ sloRow \in [size : Nat, valid : Nat, skipped : Nat]
        /\ Elems(batch) \subseteq Events
    BY <1>2, SeqFacts DEF IInv, WorkInv, TypeOK, Elems
  <2>3. RejectedIn(Len(batch)) = {e \in Elems(batch) : Class[e] = "invalid"}
    BY <2>2 DEF RejectedIn, Elems
  <2>4. Cardinality(RejectedIn(Len(batch))) \in Nat
    <3>1. IsFiniteSet(Events)
      BY FS_Interval, ProcessBatchAssumption DEF Events
    <3>2. RejectedIn(Len(batch)) \in SUBSET Events
      BY <2>2, <2>3
    <3> QED BY <3>1, <3>2, FS_Subset, FS_CardinalityType
  <2>5. sloRow.size - (sloRow.valid + sloRow.skipped) = Cardinality(RejectedIn(Len(batch)))
    BY <2>1, <2>2, <2>4
  <2> QED BY <2>3, <2>5
<1>3. IInv => ReturnedIsRouted
  BY <1>1, <1>2 DEF ReturnedIsRouted
<1> QED BY <1>3, Inductive, PTL

\* An event is on the main topic and offered to the DLQ only when the broker stored it
\* and its future failed.
THEOREM RoutesExclude == Spec => []OneRoute
<1>1. IInv => OneRoute
  <2> SUFFICES ASSUME IInv, NEW e \in topic \cap DlqAttempted PROVE e \in doubtful
    BY DEF OneRoute
  <2>1. e \in Events
    BY DEF IInv, WorkInv, TypeOK
  <2> QED BY <2>1 DEF IInv, Once, RoutesApart, Offered
<1> QED BY <1>1, Inductive, PTL

\* When the futures are read each is resolved, and no record of a batch that returned is
\* in flight.
THEOREM Barrier == Spec => []FlushIsBarrier
<1>1. ASSUME IInv, NEW r \in inFlight PROVE r.event \notin returned
  <2>1. r = Record(r.event, r.to) /\ r.event \in Events /\ r.to \in {"topic", "dlq"}
    BY <1>1, RecordsDiffer DEF IInv, WorkInv, TypeOK
  <2>2. CASE r.to = "topic"
    <3>1. OnTheWay(r.event)
      BY <1>1, <2>1, <2>2 DEF OnTheWay
    <3> QED BY <1>1, <2>1, <3>1 DEF IInv, Once, RoutesApart
  <2>3. CASE r.to = "dlq"
    <3>1. phase = "dlqFlush" /\ \E i \in DOMAIN batch : batch[i] = r.event
      BY <1>1, <2>1, <2>3 DEF IInv, WorkInv, DlqFlushedAtOnce
    <3>2. r.event \notin Handled
      BY <1>1, <2>1, <3>1 DEF IInv, Once, Distinct, Elems
    <3> QED BY <3>2 DEF Handled
  <2> QED BY <2>1, <2>2, <2>3
<1>2. ASSUME IInv, phase = "settle", NEW k \in DOMAIN valid PROVE future[valid[k]] # "none"
  BY <1>2 DEF IInv, WorkInv, FuturesReady, At
<1>3. IInv => FlushIsBarrier
  BY <1>1, <1>2 DEF FlushIsBarrier
<1> QED BY <1>3, Inductive, PTL

===============================================================================
