-------------------------- MODULE DLQConsumerProofs --------------------------
(***************************************************************************)
(* Proofs about DLQConsumer, for every number of events, retry limit and   *)
(* poll size: it implements CommitAfterHandling, and forgets no event.     *)
(* Both rest on IInv, which says that nothing behind the position is open  *)
(* but the record in hand, and that an event that is not settled has an    *)
(* open record.                                                            *)
(***************************************************************************)
EXTENDS DLQConsumer, SequenceTheorems, TLAPS

\* A record at the end of the DLQ leaves the others where they are.
LEMMA AppendRecord ==
  ASSUME NEW m \in Nat, NEW n \in m..(m + 1), NEW s \in Seq(LogRecords(m)),
         NEW r \in LogRecords(n)
  PROVE  /\ Append(s, r) \in Seq(LogRecords(n))
         /\ Len(Append(s, r)) = Len(s) + 1 /\ Len(s) \in Nat
         /\ DOMAIN Append(s, r) = 1..(Len(s) + 1)
         /\ \A i \in 1..Len(s) : Append(s, r)[i] = s[i]
         /\ Append(s, r)[Len(s) + 1] = r
<1>1. LogRecords(m) \subseteq LogRecords(n)
  BY DEF LogRecords
<1>2. s \in Seq(LogRecords(n))
  BY <1>1, SeqMonotonic
<1>3. Append(s, r) \in Seq(LogRecords(n)) /\ Len(Append(s, r)) = Len(s) + 1 /\ Len(s) \in Nat
  BY <1>2, AppendProperties, LenProperties
<1>4. \A i \in 1..Len(s) : Append(s, r)[i] = s[i]
  BY <1>2, AppendProperties
<1>5. Append(s, r)[Len(s) + 1] = r
  BY <1>2, AppendProperties
<1> QED BY <1>3, <1>4, <1>5, LenProperties

\* What the log's type says of its records.
LEMMA LogType ==
  ASSUME IInv
  PROVE  /\ log \in Seq(LogRecords(routed))
         /\ Len(log) \in Nat /\ DOMAIN log = 1..Len(log)
         /\ \A i \in 1..Len(log) : log[i] \in LogRecords(routed)
<1>1. log \in Seq(LogRecords(routed))
  BY DEF IInv, TypeOK
<1> QED BY <1>1, LenProperties, ElementOfSeq

\* The initial state satisfies the invariant.
LEMMA InitIInv == Init => IInv
<1>1. <<>> \in Seq(LogRecords(0)) /\ Len(<<>>) = 0 /\ DOMAIN <<>> = {}
  BY EmptySeq
<1> QED BY <1>1, DLQConsumerAssumption
        DEF Init, IInv, TypeOK, Places, NoOffset, PlaceOfRecord, Holding, PassedIsDone,
            CommittedIsDone, OpenRecord

\* Settled events stay settled.
LEMMA SettledStays ==
  ASSUME main \subseteq main', dropped \subseteq dropped', lost \subseteq lost'
  PROVE  \A e : Settled(e) => Settled(e)'
  BY DEF Settled

\* Steps that leave the log and what was done with alone keep an event's open record.
LEMMA OpenStays ==
  ASSUME OpenRecord, UNCHANGED <<log, done>>,
         main \subseteq main', dropped \subseteq dropped', lost \subseteq lost'
  PROVE  OpenRecord'
  BY SettledStays DEF OpenRecord

\* A new record is open, and behind all others.
LEMMA RouteStep == ASSUME IInv, Route PROVE IInv'
<1> DEFINE r == Record(routed + 1, 0)
<1>1. /\ routed \in Nat /\ routed' = routed + 1 /\ log' = Append(log, r)
      /\ UNCHANGED <<pc, groupVars, mainVars, fateVars, faults>>
  BY DLQConsumerAssumption DEF Route, IInv, TypeOK
<1>2. r \in LogRecords(routed + 1)
  BY <1>1, DLQConsumerAssumption DEF Record, LogRecords
<1>3. /\ log' \in Seq(LogRecords(routed')) /\ Len(log') = Len(log) + 1
      /\ DOMAIN log' = 1..(Len(log) + 1)
      /\ \A i \in 1..Len(log) : log'[i] = log[i]
      /\ log'[Len(log) + 1] = r
      /\ Len(log) \in Nat
  BY <1>1, <1>2, LogType, AppendRecord
<1>4. TypeOK'
  BY SMTT(30), <1>1, <1>3, DLQConsumerAssumption
     DEF Route, IInv, TypeOK, groupVars, mainVars, fateVars, Places, NoOffset
<1>5. PlaceOfRecord' /\ PassedIsDone' /\ CommittedIsDone'
  <2>1. Holding => log'[position] = log[position]
    BY <1>3 DEF IInv, TypeOK, PlaceOfRecord, NoOffset
  <2> QED BY <1>1, <2>1 DEF IInv, PlaceOfRecord, PassedIsDone, CommittedIsDone, Holding, GivenUp,
             InHand, groupVars, fateVars
<1>6. OpenRecord'
  <2>1. Len(log) + 1 \notin done'
    BY <1>1, <1>3 DEF IInv, TypeOK, fateVars
  <2>2. \A i \in 1..Len(log) : Settled(log[i].event) =>  Settled(log[i].event)'
    BY <1>1, SettledStays DEF mainVars, fateVars
  <2> QED BY <1>1, <1>3, <2>1, <2>2, LogType DEF IInv, OpenRecord, fateVars, Settled, mainVars
<1> QED BY <1>4, <1>5, <1>6 DEF IInv

\* A process that has just connected has no position yet.
LEMMA ConnectStep == ASSUME IInv, Connect PROVE IInv'
<1>1. UNCHANGED <<log, routed, groupVars, mainVars, fateVars, faults>> /\ pc = "down" /\ pc' = "loop"
  BY DEF Connect
<1>2. TypeOK' /\ PlaceOfRecord' /\ PassedIsDone' /\ CommittedIsDone'
  BY <1>1 DEF IInv, TypeOK, Places, PlaceOfRecord, PassedIsDone, CommittedIsDone, Holding,
              groupVars, mainVars, fateVars
<1>3. OpenRecord'
  BY <1>1, OpenStays DEF IInv, mainVars, fateVars
<1> QED BY <1>2, <1>3 DEF IInv

\* The position moves back to the commit, behind which everything is done.
LEMMA JoinStep == ASSUME IInv, Join \/ Rejoin PROVE IInv'
<1>1. /\ UNCHANGED <<log, routed, pc, furthest, mainVars, fateVars>>
      /\ pc = "loop"
      /\ committed' = committed \/ (position # NoOffset /\ committed' = position)
      /\ position' = IF committed' = NoOffset THEN 0 ELSE committed'
      /\ fetched' = position'
      /\ faults' \in 0..MaxFaults
  BY DLQConsumerAssumption DEF Join, Rejoin, StartAt, Polling, IInv, TypeOK
<1>2. /\ committed' \in NoOffset..Len(log) /\ committed' <= furthest
      /\ \A offset \in 1..committed' : offset \in done
  BY <1>1 DEF IInv, TypeOK, PassedIsDone, CommittedIsDone, Holding, NoOffset
<1>3. TypeOK'
  <2>1. position' \in NoOffset..fetched' /\ fetched' \in NoOffset..Len(log)
    BY <1>1, <1>2, LogType DEF IInv, NoOffset
  <2>2. UNCHANGED <<log, routed, pc, furthest, done, main, twice, inFlight, excused, dropped, lost>>
    BY <1>1 DEF mainVars, fateVars
  <2> QED BY <1>1, <1>2, <2>1, <2>2 DEF IInv, TypeOK
<1>4. PlaceOfRecord' /\ PassedIsDone' /\ CommittedIsDone'
  BY <1>1, <1>2 DEF IInv, TypeOK, PlaceOfRecord, PassedIsDone, CommittedIsDone, Holding, fateVars, NoOffset
<1>5. OpenRecord'
  BY <1>1, OpenStays DEF IInv, mainVars, fateVars
<1> QED BY <1>3, <1>4, <1>5 DEF IInv

\* While no record is in hand, the commit may move up to the position.
LEMMA PollStep == ASSUME IInv, Poll PROVE IInv'
<1>1. /\ UNCHANGED <<log, routed, pc, position, furthest, mainVars, fateVars, faults>>
      /\ pc = "loop" /\ position # NoOffset
      /\ fetched' \in position..Len(log)
      /\ committed' \in {committed, position}
  BY DEF Poll, Polling, AutoCommit
<1>2. TypeOK'
  BY <1>1, LogType DEF IInv, TypeOK, mainVars, fateVars, NoOffset
<1>3. PlaceOfRecord' /\ PassedIsDone' /\ CommittedIsDone'
  BY <1>1 DEF IInv, TypeOK, PlaceOfRecord, PassedIsDone, CommittedIsDone, Holding, fateVars, NoOffset
<1>4. OpenRecord'
  BY <1>1, OpenStays DEF IInv, mainVars, fateVars
<1> QED BY <1>2, <1>3, <1>4 DEF IInv

\* When the record in hand is done with, its event is settled or has gone to the end of
\* the DLQ.
LEMMA DoneStays ==
  ASSUME IInv, log' = log, NEW offset0 \in DOMAIN log, done' = done \cup {offset0},
         main \subseteq main', dropped \subseteq dropped', lost \subseteq lost',
         log[offset0].event \in main' \cup dropped' \cup lost' \cup Malformed
  PROVE  OpenRecord'
<1> SUFFICES ASSUME NEW offset \in DOMAIN log
             PROVE  \/ Settled(log[offset].event)'
                    \/ \E later \in DOMAIN log :
                         later \notin done' /\ log[later].event = log[offset].event
  BY DEF OpenRecord, Settled
<1> DEFINE e == log[offset].event
<1>1. CASE Settled(e)
  BY <1>1, SettledStays
<1>2. CASE \E later \in DOMAIN log : later \notin done /\ log[later].event = e
  <2>1. PICK later \in DOMAIN log : later \notin done /\ log[later].event = e
    BY <1>2
  <2>2. CASE later = offset0
    BY <2>1, <2>2 DEF Settled
  <2>3. CASE later # offset0
    BY <2>1, <2>3
  <2> QED BY <2>2, <2>3
<1> QED BY <1>1, <1>2 DEF IInv, OpenRecord

\* The position moves over a record that is done with or in hand.
LEMMA YieldStep == ASSUME IInv, Yield PROVE IInv'
<1> DEFINE offset == position + 1
           e == log[offset].event
<1>1. /\ UNCHANGED <<log, routed, fetched, committed, main, inFlight, twice, lost, faults>>
      /\ pc = "loop" /\ position < fetched
      /\ position' = offset
      /\ furthest' = IF offset > furthest THEN offset ELSE furthest
      /\ excused' = excused \cup (IF offset > furthest THEN {} ELSE {e})
  BY DEF Yield
<1>2. /\ offset \in 1..Len(log) /\ offset \in DOMAIN log
      /\ log[offset] \in LogRecords(routed) /\ e \in 1..routed
  <2>1. offset \in 1..Len(log)
    BY <1>1 DEF IInv, TypeOK, PlaceOfRecord, NoOffset
  <2>2. offset \in DOMAIN log /\ log[offset] \in LogRecords(routed)
    BY <2>1, LogType
  <2> QED BY <2>1, <2>2 DEF LogRecords
<1>3. \/ /\ e \in Malformed /\ done' = done \cup {offset} /\ UNCHANGED <<pc, dropped>>
      \/ /\ e \notin Malformed /\ GivenUp(log[offset])
         /\ dropped' = dropped \cup {e} /\ done' = done \cup {offset} /\ UNCHANGED pc
      \/ /\ e \notin Malformed /\ ~GivenUp(log[offset])
         /\ pc' = "sending" /\ UNCHANGED <<done, dropped>>
  BY DEF Yield, Done
<1>4. /\ pc' \in Places /\ done \subseteq done' /\ done' \subseteq done \cup {offset}
      /\ dropped \subseteq dropped' /\ dropped' \subseteq dropped \cup {e}
  BY <1>1, <1>3 DEF Places
<1>5. TypeOK'
  <2>1. /\ position' \in NoOffset..fetched' /\ furthest' \in 0..Len(log')
        /\ done' \subseteq 1..furthest'
    BY <1>1, <1>2, <1>4, LogType DEF IInv, TypeOK, NoOffset
  <2>2. excused' \subseteq 1..routed /\ inFlight \subseteq excused'
    BY <1>1, <1>2 DEF IInv, TypeOK
  <2> QED BY <1>1, <1>2, <1>4, <2>1, <2>2 DEF IInv, TypeOK
<1>6. PlaceOfRecord'
  BY <1>1, <1>2, <1>3 DEF IInv, PlaceOfRecord, Holding, GivenUp, InHand, NoOffset
<1>7. PassedIsDone' /\ CommittedIsDone'
  <2>1. ~Holding /\ position # NoOffset
    BY <1>1, <1>2 DEF Holding, NoOffset
  <2>2. \A o \in 1..position' : o \in done' \/ (Holding' /\ o = position')
    BY <1>1, <1>2, <1>3, <1>4, <2>1 DEF IInv, TypeOK, PassedIsDone, Holding, NoOffset
  <2>3. position' <= furthest' /\ committed' <= furthest' /\ committed' <= position'
    BY <1>1, <1>2, <2>1 DEF IInv, TypeOK, PassedIsDone, NoOffset
  <2> QED BY <1>1, <1>4, <2>2, <2>3 DEF IInv, PassedIsDone, CommittedIsDone
<1>8. OpenRecord'
  <2>1. CASE done' = done
    BY <1>1, <1>4, <2>1, OpenStays DEF IInv
  <2>2. CASE done' = done \cup {offset} /\ e \in dropped' \cup Malformed
    BY <1>1, <1>2, <1>4, <2>2, DoneStays
  <2> QED BY <1>3, <2>1, <2>2
<1> QED BY <1>5, <1>6, <1>7, <1>8 DEF IInv

\* While a record is in hand, its event is one of those routed and has a retry left.
LEMMA RecordInHand ==
  ASSUME IInv, Holding
  PROVE  /\ position \in 1..Len(log) /\ position \in DOMAIN log
         /\ InHand = log[position] /\ InHand \in LogRecords(routed)
         /\ InHand.event \in 1..routed /\ InHand.event \notin Malformed
         /\ InHand.retries + 1 \in 0..MaxRetries
         /\ position <= furthest
<1>1. position \in 1..Len(log) /\ position <= furthest
  BY LogType DEF IInv, TypeOK, PlaceOfRecord, PassedIsDone, NoOffset
<1>2. InHand \in LogRecords(routed)
  BY <1>1, LogType DEF InHand
<1>3. InHand.retries + 1 \in 0..MaxRetries
  BY <1>2, DLQConsumerAssumption DEF LogRecords, IInv, PlaceOfRecord, GivenUp
<1> QED BY <1>1, <1>2, <1>3, LogType DEF IInv, PlaceOfRecord, InHand, LogRecords

\* What arrives keeps the types of what is on the main topic.
LEMMA ArriveKeeps ==
  ASSUME IInv, NEW events \in SUBSET (1..routed), Arrive(events)
  PROVE  /\ main \subseteq main' /\ events \subseteq main' /\ main' \subseteq 1..routed
         /\ twice' \subseteq main'
  BY DEF Arrive, IInv, TypeOK

\* The event in hand is settled, and its record done with.
LEMMA SendReturnsStep == ASSUME IInv, SendReturns PROVE IInv'
<1> DEFINE e == InHand.event
<1>1. /\ pc = "sending" /\ pc' = "loop" /\ Holding
      /\ UNCHANGED <<log, routed, position, fetched, committed, furthest, inFlight, excused,
                     dropped, lost, faults>>
      /\ done' = done \cup {position}
  BY DEF SendReturns, Done, groupVars, Holding
<1>2. /\ main \subseteq main' /\ e \in main' /\ main' \subseteq 1..routed
      /\ twice' \subseteq main'
  <2>1. {e} \in SUBSET (1..routed) /\ Arrive({e})
    BY <1>1, RecordInHand DEF SendReturns
  <2> QED BY <2>1, ArriveKeeps
<1>3. TypeOK'
  <2>1. done' \subseteq 1..furthest'
    BY <1>1, RecordInHand DEF IInv, TypeOK
  <2> QED BY <1>1, <1>2, <2>1 DEF IInv, TypeOK, Places
<1>4. PlaceOfRecord' /\ PassedIsDone' /\ CommittedIsDone'
  BY <1>1 DEF IInv, PlaceOfRecord, PassedIsDone, CommittedIsDone, Holding
<1>5. OpenRecord'
  BY <1>1, <1>2, RecordInHand, DoneStays
<1> QED BY <1>3, <1>4, <1>5 DEF IInv

\* The record stays in hand, whatever became of the event.
LEMMA SendRaisesStep == ASSUME IInv, SendRaises PROVE IInv'
<1> DEFINE e == InHand.event
<1>1. /\ pc = "sending" /\ pc' = "requeue" /\ Holding
      /\ UNCHANGED <<log, routed, position, fetched, committed, furthest, done, dropped, lost,
                     faults>>
  BY DEF SendRaises, groupVars, fateVars, Holding
<1>2. e \in 1..routed
  BY <1>1, RecordInHand
<1>3. /\ main \subseteq main' /\ main' \subseteq 1..routed /\ twice' \subseteq main'
      /\ inFlight' \subseteq excused' /\ excused' \subseteq 1..routed
  <2>1. CASE UNCHANGED mainVars
    BY <2>1 DEF mainVars, IInv, TypeOK
  <2>2. CASE Arrive({e}) /\ excused' = excused \cup {e} /\ UNCHANGED inFlight
    BY <1>2, <2>2, ArriveKeeps DEF IInv, TypeOK
  <2>3. CASE inFlight' = inFlight \cup {e} /\ excused' = excused \cup {e} /\ UNCHANGED <<main, twice>>
    BY <1>2, <2>3 DEF IInv, TypeOK
  <2> QED BY <2>1, <2>2, <2>3 DEF SendRaises
<1>4. TypeOK'
  BY <1>1, <1>3 DEF IInv, TypeOK, Places
<1>5. PlaceOfRecord' /\ PassedIsDone' /\ CommittedIsDone'
  BY <1>1 DEF IInv, PlaceOfRecord, PassedIsDone, CommittedIsDone, Holding, InHand, GivenUp
<1>6. OpenRecord'
  BY <1>1, <1>3, OpenStays DEF IInv
<1> QED BY <1>4, <1>5, <1>6 DEF IInv

\* A late arrival is of an event that was excused.
LEMMA SettleStep == ASSUME IInv, Settle PROVE IInv'
<1>1. PICK e \in inFlight :
        /\ inFlight' = inFlight \ {e}
        /\ Arrive({e}) \/ UNCHANGED <<main, twice>>
  BY DEF Settle
<1>2. UNCHANGED <<log, routed, pc, position, fetched, committed, furthest, excused, done,
                  dropped, lost, faults>>
  BY DEF Settle, groupVars, fateVars
<1>3. main \subseteq main' /\ main' \subseteq 1..routed /\ twice' \subseteq main'
  <2>1. {e} \in SUBSET (1..routed)
    BY DEF IInv, TypeOK
  <2> QED BY <1>1, <2>1, ArriveKeeps DEF IInv, TypeOK
<1>4. TypeOK'
  BY <1>1, <1>2, <1>3 DEF IInv, TypeOK
<1>5. PlaceOfRecord' /\ PassedIsDone' /\ CommittedIsDone'
  BY <1>2 DEF IInv, PlaceOfRecord, PassedIsDone, CommittedIsDone, Holding, InHand, GivenUp
<1>6. OpenRecord'
  BY <1>2, <1>3, OpenStays DEF IInv
<1> QED BY <1>4, <1>5, <1>6 DEF IInv

\* A record that is put back is the open one of its event.
LEMMA OpenAfterAppend ==
  ASSUME IInv, NEW r \in LogRecords(routed), log' = Append(log, r),
         main \subseteq main', dropped \subseteq dropped', lost \subseteq lost',
         NEW offset0 \in 1..Len(log), log[offset0].event = r.event,
         done' \subseteq done \cup {offset0}
  PROVE  OpenRecord'
<1>1. /\ DOMAIN log' = 1..(Len(log) + 1)
      /\ \A i \in 1..Len(log) : log'[i] = log[i]
      /\ log'[Len(log) + 1] = r
      /\ DOMAIN log = 1..Len(log) /\ Len(log) \in Nat
  <2>1. routed \in Nat /\ routed \in routed..(routed + 1)
    BY DLQConsumerAssumption DEF IInv, TypeOK
  <2> QED BY <2>1, LogType, AppendRecord
<1>2. Len(log) + 1 \in DOMAIN log' /\ Len(log) + 1 \notin done'
  BY <1>1 DEF IInv, TypeOK
<1> SUFFICES ASSUME NEW offset \in DOMAIN log'
             PROVE  \/ log'[offset].event \in main' \cup dropped' \cup lost' \cup Malformed
                    \/ \E later \in DOMAIN log' :
                         later \notin done' /\ log'[later].event = log'[offset].event
  BY DEF OpenRecord, Settled
<1>3. CASE log'[offset].event = r.event
  BY <1>1, <1>2, <1>3
<1>4. CASE log'[offset].event # r.event
  <2>1. offset \in DOMAIN log /\ log'[offset] = log[offset]
    BY <1>1, <1>4
  <2>2. CASE Settled(log[offset].event)
    BY <2>1, <2>2 DEF Settled
  <2>3. CASE \E later \in DOMAIN log : later \notin done /\ log[later].event = log[offset].event
    <3>1. PICK later \in DOMAIN log : later \notin done /\ log[later].event = log[offset].event
      BY <2>3
    <3>2. later # offset0
      BY <1>4, <2>1, <3>1
    <3>3. later \in DOMAIN log' /\ log'[later] = log[later] /\ later \notin done'
      BY <1>1, <3>1, <3>2
    <3> QED BY <2>1, <3>1, <3>3
  <2> QED BY <2>1, <2>2, <2>3 DEF IInv, OpenRecord
<1> QED BY <1>3, <1>4

\* The record that goes back has the event of the one in hand.
LEMMA Back ==
  ASSUME IInv, Holding, NEW r, r = Record(InHand.event, InHand.retries + 1)
  PROVE  /\ r \in LogRecords(routed) /\ r.event = log[position].event
         /\ Append(log, r) \in Seq(LogRecords(routed)) /\ Len(Append(log, r)) = Len(log) + 1
         /\ Len(log) \in Nat
<1>1. r \in LogRecords(routed) /\ r.event = log[position].event
  BY RecordInHand DEF Record, LogRecords
<1>2. routed \in Nat /\ routed \in routed..(routed + 1)
  BY DLQConsumerAssumption DEF IInv, TypeOK
<1> QED BY <1>1, <1>2, LogType, AppendRecord

\* The record in hand is done with: its event is lost, or has a new record.
LEMMA RequeueStep == ASSUME IInv, Requeue PROVE IInv'
<1> DEFINE e == InHand.event
           r == Record(InHand.event, InHand.retries + 1)
<1>1. /\ pc = "requeue" /\ pc' = "loop" /\ Holding
      /\ UNCHANGED <<routed, position, fetched, committed, furthest, main, inFlight, twice,
                     excused, dropped, faults>>
      /\ done' = done \cup {position}
      /\ \/ lost' = lost \cup {e} /\ log' = log
         \/ log' = Append(log, r) /\ lost' = lost
  BY DEF Requeue, Requeued, Done, groupVars, mainVars, Holding
<1>2. /\ log' \in Seq(LogRecords(routed)) /\ Len(log') >= Len(log) /\ Len(log') \in Nat
      /\ Len(log) \in Nat /\ lost \subseteq lost' /\ lost' \subseteq lost \cup {e}
  BY <1>1, Back, LogType
<1>3. TypeOK'
  <2>1. /\ position' \in NoOffset..fetched' /\ fetched' \in NoOffset..Len(log')
        /\ committed' \in NoOffset..Len(log') /\ furthest' \in 0..Len(log')
    BY <1>1, <1>2 DEF IInv, TypeOK, NoOffset
  <2>2. done' \subseteq 1..furthest' /\ dropped' \cup lost' \subseteq 1..routed
    BY <1>1, <1>2, RecordInHand DEF IInv, TypeOK
  <2> QED BY <1>1, <1>2, <2>1, <2>2 DEF IInv, TypeOK, Places
<1>4. PlaceOfRecord' /\ PassedIsDone' /\ CommittedIsDone'
  BY <1>1 DEF IInv, PlaceOfRecord, PassedIsDone, CommittedIsDone, Holding
<1>5. OpenRecord'
  <2>1. CASE lost' = lost \cup {e} /\ log' = log
    BY <1>1, <2>1, RecordInHand, DoneStays
  <2>2. CASE log' = Append(log, r) /\ lost' = lost
    BY <1>1, <2>2, Back, RecordInHand, OpenAfterAppend
  <2> QED BY <1>1, <2>1, <2>2
<1> QED BY <1>3, <1>4, <1>5 DEF IInv

\* The record in hand is dropped and its offset stays open.
LEMMA CrashStep == ASSUME IInv, Crash PROVE IInv'
<1> DEFINE r == Record(InHand.event, InHand.retries + 1)
<1>1. /\ pc' = "down" /\ position' = NoOffset /\ fetched' = NoOffset /\ inFlight' = {}
      /\ UNCHANGED <<routed, committed, furthest, excused, done, dropped, lost>>
      /\ faults' \in 0..MaxFaults
      /\ log' = log \/ (Holding /\ log' = Append(log, r))
  BY DLQConsumerAssumption DEF Crash, fateVars, Holding, IInv, TypeOK
<1>2. PICK late \in SUBSET (inFlight \cup IF pc = "sending" THEN {InHand.event} ELSE {}) : Arrive(late)
  BY DEF Crash
<1>3. main \subseteq main' /\ main' \subseteq 1..routed /\ twice' \subseteq main'
  <2>1. pc = "sending" => InHand.event \in 1..routed
    BY RecordInHand DEF Holding
  <2>2. late \in SUBSET (1..routed)
    BY <2>1 DEF IInv, TypeOK
  <2> QED BY <1>2, <2>2, ArriveKeeps
<1>4. /\ log' \in Seq(LogRecords(routed)) /\ Len(log') >= Len(log) /\ Len(log') \in Nat
      /\ Len(log) \in Nat
  BY <1>1, Back, LogType
<1>5. TypeOK'
  <2>1. /\ position' \in NoOffset..fetched' /\ fetched' \in NoOffset..Len(log')
        /\ committed' \in NoOffset..Len(log') /\ furthest' \in 0..Len(log')
    BY <1>1, <1>4 DEF IInv, TypeOK, NoOffset
  <2> QED BY <1>1, <1>3, <1>4, <2>1 DEF IInv, TypeOK, Places
<1>6. PlaceOfRecord' /\ PassedIsDone' /\ CommittedIsDone'
  BY <1>1 DEF IInv, TypeOK, PlaceOfRecord, PassedIsDone, CommittedIsDone, Holding, NoOffset
<1>7. OpenRecord'
  <2>1. CASE log' = log
    BY <1>1, <1>3, <2>1, OpenStays DEF IInv
  <2>2. CASE Holding /\ log' = Append(log, r)
    BY <1>1, <1>3, <2>2, Back, RecordInHand, OpenAfterAppend
  <2> QED BY <1>1, <2>1, <2>2
<1> QED BY <1>5, <1>6, <1>7 DEF IInv

\* The invariant holds in every state.
THEOREM Inductive == Spec => []IInv
<1>1. ASSUME IInv, UNCHANGED vars PROVE IInv'
  BY <1>1 DEF vars, groupVars, mainVars, fateVars, IInv, TypeOK, PlaceOfRecord, PassedIsDone,
              CommittedIsDone, OpenRecord, Settled, Holding, InHand, GivenUp
<1>2. IInv /\ [Next]_vars => IInv'
  BY <1>1, RouteStep, ConnectStep, JoinStep, PollStep, YieldStep, SendReturnsStep,
     SendRaisesStep, SettleStep, RequeueStep, CrashStep DEF Next
<1> QED BY <1>2, InitIInv, PTL DEF Spec

\* The variables keep their types, and no record has a count past MaxRetries.
THEOREM TypeCorrect == Spec => []TypeOK
<1>1. IInv => TypeOK
  BY DEF IInv
<1> QED BY <1>1, Inductive, PTL

\* An event of the DLQ is settled or has a record that is not committed, since the open
\* one is not.
THEOREM Remembered == Spec => []NothingForgotten
<1>1. IInv => NothingForgotten
  <2> SUFFICES ASSUME IInv, NEW offset \in DOMAIN log, ~Settled(log[offset].event)
               PROVE  \E later \in DOMAIN log :
                        later > committed /\ log[later].event = log[offset].event
    BY DEF NothingForgotten
  <2>1. PICK later \in DOMAIN log : later \notin done /\ log[later].event = log[offset].event
    BY DEF IInv, OpenRecord
  <2>2. later > committed
    BY <2>1, LogType DEF IInv, TypeOK, CommittedIsDone, NoOffset
  <2> QED BY <2>1, <2>2
<1> QED BY <1>1, Inductive, PTL

-----------------------------------------------------------------------------
(* What arrives twice.  An event without an excuse has one record at most that was never
   yielded, and none while it is in hand or when it has arrived. *)

Unread == {offset \in DOMAIN log : offset > furthest}

UnreadOnce ==
  \A i, j \in Unread :
    log[i].event = log[j].event => i = j \/ log[i].event \in excused

HandIsLast ==
  Holding => InHand.event \in excused \/ \A i \in Unread : log[i].event # InHand.event

ArrivedIsLast ==
  \A e \in main \ excused :
    /\ \A i \in Unread : log[i].event # e
    /\ Holding => InHand.event # e

TwiceInv ==
  /\ UnreadOnce
  /\ HandIsLast
  /\ ArrivedIsLast
  /\ TwiceForAReason

\* A step that leaves the log, what was read of it and what arrived alone, and the record
\* in hand or drops it.
LEMMA TwiceQuiet ==
  ASSUME TwiceInv, UNCHANGED <<log, furthest, excused, main, twice>>,
         Holding' => Holding /\ position' = position
  PROVE  TwiceInv'
<1>1. Unread' = Unread
  BY DEF Unread
<1> QED
  BY <1>1 DEF TwiceInv, UnreadOnce, HandIsLast, ArrivedIsLast, TwiceForAReason, InHand

\* A record at the end of the log is the only new one that was not read.
LEMMA UnreadAppend ==
  ASSUME IInv, NEW n \in routed..(routed + 1), NEW r \in LogRecords(n),
         log' = Append(log, r), furthest' = furthest
  PROVE  \A i \in Unread' : \/ i \in Unread /\ log'[i] = log[i]
                            \/ i = Len(log) + 1 /\ log'[i] = r
<1>1. /\ DOMAIN log' = 1..(Len(log) + 1) /\ Len(log) \in Nat /\ DOMAIN log = 1..Len(log)
      /\ \A i \in 1..Len(log) : log'[i] = log[i]
      /\ log'[Len(log) + 1] = r
  BY LogType, AppendRecord DEF IInv, TypeOK
<1> QED
  BY <1>1 DEF Unread

\* An appended record whose event has no other that was not read, or an excuse.
LEMMA UnreadOnceAppend ==
  ASSUME IInv, UnreadOnce, NEW n \in routed..(routed + 1), NEW r \in LogRecords(n),
         log' = Append(log, r), furthest' = furthest, excused' = excused,
         r.event \in excused \/ \A i \in Unread : log[i].event # r.event
  PROVE  UnreadOnce'
<1> SUFFICES ASSUME NEW i \in Unread', NEW j \in Unread', log'[i].event = log'[j].event
             PROVE  i = j \/ log'[i].event \in excused
  BY DEF UnreadOnce
<1> QED
  BY ZenonT(30), UnreadAppend DEF UnreadOnce

\* The producer routes an event once, so that its record is the first one.
LEMMA TwiceRoute == ASSUME IInv, TwiceInv, Route PROVE TwiceInv'
<1>1. PICK r : r = Record(routed + 1, 0)
  OBVIOUS
<1>2. /\ log' = Append(log, r) /\ r \in LogRecords(routed + 1) /\ r.event = routed + 1
      /\ UNCHANGED <<pc, position, furthest, main, twice, excused>> /\ routed \in Nat
  BY <1>1, DLQConsumerAssumption
     DEF Route, Record, LogRecords, IInv, TypeOK, groupVars, mainVars
<1>3. \A i \in DOMAIN log : log[i].event \in 1..routed
  BY LogType DEF LogRecords
<1>4. r.event \notin main /\ \A i \in Unread : log[i].event # r.event
  BY <1>2, <1>3 DEF Unread, IInv, TypeOK
<1>5. UnreadOnce'
  BY <1>2, <1>4, UnreadOnceAppend DEF TwiceInv
<1>6. \A i \in Unread' : (i \in Unread /\ log'[i] = log[i]) \/ log'[i] = r
  <2>1. routed + 1 \in routed..(routed + 1)
    BY <1>2
  <2> QED
    BY <1>2, <2>1, UnreadAppend
<1>7. /\ Holding' <=> Holding
      /\ Holding => InHand' = InHand /\ InHand.event # r.event
  <2>1. Holding => position \in 1..Len(log) /\ InHand.event \in 1..routed
    BY RecordInHand
  <2>2. Holding => log'[position] = log[position]
    BY <1>2, <2>1, AppendRecord, LogType
  <2> QED
    BY <1>2, <2>1, <2>2 DEF Holding, InHand
<1>8. HandIsLast'
  BY <1>2, <1>6, <1>7 DEF TwiceInv, HandIsLast
<1>9. ArrivedIsLast'
  BY <1>2, <1>4, <1>6, <1>7 DEF TwiceInv, ArrivedIsLast
<1> QED
  BY <1>2, <1>5, <1>8, <1>9 DEF TwiceInv, TwiceForAReason

\* A record that was read before excuses its event; one that was not is no longer unread,
\* and its event had no other and has not arrived.
LEMMA TwiceYield == ASSUME IInv, TwiceInv, Yield PROVE TwiceInv'
<1> DEFINE offset == position + 1
           e == log[offset].event
<1>1. /\ UNCHANGED <<log, main, twice>> /\ position' = offset /\ pc = "loop"
      /\ furthest' = IF offset > furthest THEN offset ELSE furthest
      /\ excused' = excused \cup (IF offset > furthest THEN {} ELSE {e})
      /\ position < fetched
  BY DEF Yield
<1>2. offset \in DOMAIN log /\ offset \in Nat /\ furthest \in Nat /\ position <= furthest
  BY <1>1, LogType DEF IInv, TypeOK, PlaceOfRecord, PassedIsDone, NoOffset
<1>3. ~Holding /\ InHand' = log[offset]
  BY <1>1 DEF Holding, InHand
<1>4. CASE offset > furthest
  <2>1. furthest' = offset /\ excused' = excused
    BY <1>1, <1>4
  <2>2. offset \in Unread /\ Unread' = Unread \ {offset}
    <3>1. offset = furthest + 1 /\ DOMAIN log \subseteq Nat
      BY <1>2, <1>4, LogType DEF IInv, TypeOK, NoOffset
    <3>2. \A i \in DOMAIN log : i > offset <=> i > furthest /\ i # offset
      BY <1>2, <3>1
    <3> QED
      BY <1>1, <1>2, <1>4, <2>1, <3>2 DEF Unread
  <2>3. UnreadOnce'
    BY <1>1, <2>1, <2>2 DEF TwiceInv, UnreadOnce
  <2>4. HandIsLast'
    BY <1>1, <1>3, <2>1, <2>2 DEF TwiceInv, UnreadOnce, HandIsLast
  <2>5. ArrivedIsLast'
    BY <1>1, <1>3, <2>1, <2>2 DEF TwiceInv, ArrivedIsLast
  <2> QED
    BY <1>1, <2>1, <2>3, <2>4, <2>5 DEF TwiceInv, TwiceForAReason
<1>5. CASE ~(offset > furthest)
  <2>1. furthest' = furthest /\ excused' = excused \cup {e}
    BY <1>1, <1>5
  <2>2. Unread' = Unread
    BY <1>1, <2>1 DEF Unread
  <2>3. UnreadOnce'
    BY <1>1, <2>1, <2>2 DEF TwiceInv, UnreadOnce
  <2>4. HandIsLast'
    BY <1>3, <2>1 DEF HandIsLast
  <2>5. ArrivedIsLast'
    BY <1>1, <1>3, <2>1, <2>2 DEF TwiceInv, ArrivedIsLast
  <2> QED
    BY <1>1, <2>1, <2>3, <2>4, <2>5 DEF TwiceInv, TwiceForAReason
<1> QED
  BY <1>4, <1>5

\* Only the record in hand, which is let go, or an event with an excuse arrives.
LEMMA TwiceArrive ==
  ASSUME IInv, TwiceInv, NEW events,
         Arrive(events), excused \subseteq excused', UNCHANGED <<log, furthest>>,
         \A e \in events : e \in excused' \/ (Holding /\ e = InHand.event),
         Holding' => /\ Holding /\ position' = position
                     /\ InHand.event \in excused' \/ InHand.event \notin events
  PROVE  TwiceInv'
<1>1. Unread' = Unread
  BY DEF Unread
<1>2. UnreadOnce'
  BY <1>1 DEF TwiceInv, UnreadOnce
<1>3. HandIsLast'
  BY <1>1 DEF TwiceInv, HandIsLast, InHand
<1>4. ArrivedIsLast'
  <2> SUFFICES ASSUME NEW e \in main' \ excused'
               PROVE  /\ \A i \in Unread : log[i].event # e
                      /\ Holding' => InHand'.event # e
    BY <1>1 DEF ArrivedIsLast
  <2>1. Holding' => InHand' = InHand
    BY DEF InHand
  <2>2. CASE e \in main
    BY <2>1, <2>2 DEF TwiceInv, ArrivedIsLast
  <2>3. CASE e \in events
    BY <2>1, <2>3 DEF TwiceInv, HandIsLast
  <2> QED
    BY <2>2, <2>3 DEF Arrive
<1>5. TwiceForAReason'
  BY DEF TwiceInv, TwiceForAReason, ArrivedIsLast, Arrive
<1> QED
  BY <1>2, <1>3, <1>4, <1>5 DEF TwiceInv

\* A send arrives while the event is in hand and in no unread record.
LEMMA TwiceSend == ASSUME IInv, TwiceInv, SendReturns \/ SendRaises PROVE TwiceInv'
<1>1. CASE SendReturns
  BY <1>1, TwiceArrive DEF SendReturns, Holding, groupVars
<1>2. CASE SendRaises
  <2>1. UNCHANGED <<log, furthest, position>> /\ Holding /\ Holding'
    BY <1>2 DEF SendRaises, Holding, groupVars
  <2>2. CASE UNCHANGED mainVars
    BY <2>1, <2>2, TwiceQuiet DEF mainVars
  <2>3. CASE Arrive({InHand.event}) /\ excused' = excused \cup {InHand.event}
    BY <2>1, <2>3, TwiceArrive
  <2>4. CASE excused' = excused \cup {InHand.event} /\ UNCHANGED <<main, twice>>
    <3>1. Arrive({})
      BY <2>4 DEF Arrive
    <3> QED
      BY <2>1, <2>4, <3>1, TwiceArrive
  <2> QED
    BY <1>2, <2>2, <2>3, <2>4 DEF SendRaises
<1> QED
  BY <1>1, <1>2

\* A send that was taken for a failure may arrive; its event has an excuse.
LEMMA TwiceSettle == ASSUME IInv, TwiceInv, Settle PROVE TwiceInv'
<1>1. PICK e \in inFlight : Arrive({e}) \/ UNCHANGED <<main, twice>>
  BY DEF Settle
<1>2. UNCHANGED <<log, furthest, excused, position>> /\ (Holding' <=> Holding)
  BY DEF Settle, Holding, groupVars
<1>3. e \in excused
  BY DEF IInv, TypeOK
<1>4. CASE Arrive({e})
  BY <1>2, <1>3, <1>4, TwiceArrive
<1>5. CASE UNCHANGED <<main, twice>>
  BY <1>2, <1>5, TwiceQuiet
<1> QED
  BY <1>1, <1>4, <1>5

\* The event that is put back has no other unread record and has not arrived, or has an
\* excuse.
LEMMA TwiceBack ==
  ASSUME IInv, TwiceInv, Holding, log' = Append(log, Record(InHand.event, InHand.retries + 1)),
         UNCHANGED <<furthest, excused, main, twice>>, ~Holding'
  PROVE  TwiceInv'
<1>1. PICK r : r = Record(InHand.event, InHand.retries + 1)
  OBVIOUS
<1>2. r \in LogRecords(routed) /\ r.event = InHand.event
  BY <1>1, RecordInHand DEF Record, LogRecords
<1>3. routed \in routed..(routed + 1)
  BY DEF IInv, TypeOK
<1>4. UnreadOnce'
  BY <1>1, <1>2, <1>3, UnreadOnceAppend DEF TwiceInv, HandIsLast
<1>5. \A i \in Unread' : (i \in Unread /\ log'[i] = log[i]) \/ log'[i] = r
  BY <1>1, <1>2, <1>3, UnreadAppend
<1>6. ArrivedIsLast'
  BY <1>2, <1>5 DEF TwiceInv, ArrivedIsLast
<1> QED
  BY <1>4, <1>6 DEF TwiceInv, HandIsLast, TwiceForAReason

\* Re-queueing passes the event from the hand to one unread record.
LEMMA TwiceRequeue == ASSUME IInv, TwiceInv, Requeue PROVE TwiceInv'
<1>1. Holding /\ ~Holding' /\ UNCHANGED <<furthest, excused, main, twice>>
  BY DEF Requeue, Holding, groupVars, mainVars
<1>2. CASE log' = log
  BY <1>1, <1>2, TwiceQuiet
<1>3. CASE log' = Append(log, Record(InHand.event, InHand.retries + 1))
  BY <1>1, <1>3, TwiceBack
<1> QED
  BY <1>2, <1>3 DEF Requeue, Requeued

\* What arrives when the process ends is excused or was in hand, and an event that is put
\* back then did not arrive with it.
LEMMA TwiceCrash == ASSUME IInv, TwiceInv, Crash PROVE TwiceInv'
<1>1. PICK late \in SUBSET (inFlight \cup IF pc = "sending" THEN {InHand.event} ELSE {}) :
        Arrive(late)
  BY DEF Crash
<1>2. ~Holding' /\ UNCHANGED <<furthest, excused>> /\ inFlight \subseteq excused
  BY DEF Crash, Holding, IInv, TypeOK
<1>3. CASE log' = log
  BY <1>1, <1>2, <1>3, TwiceArrive DEF Holding
<1>4. CASE pc = "requeue" /\ log' = Append(log, Record(InHand.event, InHand.retries + 1))
  <2>1. late \subseteq excused /\ Holding
    BY <1>1, <1>2, <1>4 DEF Holding
  <2>2. main' \ excused = main \ excused /\ TwiceForAReason'
    BY <1>1, <1>2, <2>1 DEF Arrive, TwiceInv, TwiceForAReason
  <2>3. PICK r : r = Record(InHand.event, InHand.retries + 1)
    OBVIOUS
  <2>4. r \in LogRecords(routed) /\ r.event = InHand.event
    BY <2>1, <2>3, RecordInHand DEF Record, LogRecords
  <2>5. routed \in routed..(routed + 1)
    BY DEF IInv, TypeOK
  <2>6. UnreadOnce'
    BY <1>2, <1>4, <2>1, <2>3, <2>4, <2>5, UnreadOnceAppend DEF TwiceInv, HandIsLast
  <2>7. \A i \in Unread' : (i \in Unread /\ log'[i] = log[i]) \/ log'[i] = r
    BY <1>2, <1>4, <2>3, <2>4, <2>5, UnreadAppend
  <2>8. ArrivedIsLast'
    BY <1>2, <2>1, <2>2, <2>4, <2>7 DEF TwiceInv, ArrivedIsLast
  <2> QED
    BY <1>2, <2>2, <2>6, <2>8 DEF TwiceInv, HandIsLast
<1> QED
  BY <1>3, <1>4 DEF Crash

\* Every step keeps TwiceInv.
LEMMA TwiceNext == IInv /\ TwiceInv /\ [Next]_vars => TwiceInv'
<1> SUFFICES ASSUME IInv, TwiceInv, [Next]_vars
             PROVE  TwiceInv'
  OBVIOUS
<1>1. CASE Connect \/ Join \/ Poll \/ Rejoin
  BY <1>1, TwiceQuiet
     DEF Connect, Join, Poll, Rejoin, Polling, Holding, groupVars, mainVars
<1>2. CASE UNCHANGED vars
  BY <1>2, TwiceQuiet DEF vars, groupVars, mainVars, Holding
<1> QED
  BY <1>1, <1>2, TwiceRoute, TwiceYield, TwiceSend, TwiceSettle, TwiceRequeue, TwiceCrash DEF Next

\* The duplicates on the main topic all have a cause that the consumer cannot see: a
\* record that Kafka delivered again, or a send that failed for it and not for Kafka.
THEOREM NoDuplicateOfItsOwn == Spec => []TwiceForAReason
<1>1. Init => TwiceInv
  BY EmptySeq DEF Init, TwiceInv, UnreadOnce, Unread, HandIsLast, ArrivedIsLast,
     TwiceForAReason, Holding
<1>2. TwiceInv => TwiceForAReason
  BY DEF TwiceInv
<1> QED
  BY <1>1, <1>2, TwiceNext, Inductive, PTL DEF Spec

-----------------------------------------------------------------------------
(* The refinement. *)

\* Both start with an empty topic and no commit.
LEMMA InitImplements == Init => Abstract!Init
  BY EmptySeq DEF Init, NoOffset, Abstract!Init, Abstract!NoOffset

\* A step that does with the record in hand, and perhaps puts one back, is a step of work.
LEMMA WorkStep ==
  ASSUME IInv, committed' = committed, NEW offset \in 1..Len(log),
         position <= offset, position # NoOffset,
         done' = done \/ done' = done \cup {offset},
         Len(log') \in {Len(log), Len(log) + 1}
  PROVE  Abstract!Work
<1>1. \A e \in done' \ done : e \in 1..Len(log) /\ 0 < e /\ committed < e
  <2> SUFFICES ASSUME offset \notin done PROVE committed < offset
    OBVIOUS
  <2> QED BY LogType DEF IInv, TypeOK, CommittedIsDone, NoOffset
<1>2. Abstract!Handle
  BY <1>1 DEF Abstract!Handle
<1> QED BY <1>2 DEF Abstract!Work, Abstract!Commit

\* A poll, or a rebalance, commits what lies behind the position, where no record is in
\* hand.
LEMMA CommitWorks ==
  ASSUME IInv, UNCHANGED <<log, done>>, pc = "loop", position # NoOffset,
         committed' \in {committed, position}
  PROVE  Abstract!Work
<1>1. Abstract!Handle
  BY DEF Abstract!Handle
<1>2. CASE committed' = committed
  BY <1>1, <1>2 DEF Abstract!Work, Abstract!Commit
<1>3. CASE committed' = position
  <2>1. committed' \in 0..Len(log) /\ committed' >= committed
    BY <1>3 DEF IInv, TypeOK, PassedIsDone, NoOffset
  <2>2. \A e \in 1..committed' : 0 < e => e \in done
    BY <1>3 DEF IInv, PassedIsDone, Holding
  <2> QED BY <1>1, <2>1, <2>2 DEF Abstract!Work, Abstract!Commit
<1> QED BY <1>2, <1>3

\* Every step is one of CommitAfterHandling or leaves its variables alone.
LEMMA StepImplements == IInv /\ [Next]_vars => [Abstract!Next]_(Abstract!vars)
<1> SUFFICES ASSUME IInv, [Next]_vars PROVE [Abstract!Next]_(Abstract!vars)
  OBVIOUS
<1>1. CASE Route
  <2>1. Len(log') = Len(log) + 1 /\ UNCHANGED <<committed, done>>
    <3>1. log' = Append(log, Record(routed', 0)) /\ UNCHANGED <<committed, done>>
      BY <1>1 DEF Route, groupVars, fateVars
    <3> QED BY <3>1, LogType, AppendProperties
  <2> QED BY <2>1 DEF Abstract!Publish, Abstract!Next
<1>2. CASE Connect \/ Join \/ Settle \/ SendRaises \/ UNCHANGED vars
  <2>1. UNCHANGED <<log, committed, done>>
    BY <1>2 DEF Connect, Join, Settle, SendRaises, vars, groupVars, fateVars
  <2> QED BY <2>1 DEF Abstract!vars
<1>3. CASE Poll \/ Rejoin
  BY <1>3, CommitWorks DEF Poll, Rejoin, Polling, AutoCommit, fateVars, Abstract!Next
<1>4. CASE Yield
  <2>1. /\ position + 1 \in 1..Len(log) /\ position # NoOffset
        /\ UNCHANGED <<log, committed>>
    BY <1>4 DEF Yield, IInv, TypeOK, PlaceOfRecord, NoOffset
  <2>2. done' = done \/ done' = done \cup {position + 1}
    BY <1>4 DEF Yield, Done
  <2>3. position <= position + 1 /\ Len(log') \in {Len(log), Len(log) + 1}
    BY <2>1 DEF IInv, TypeOK, NoOffset
  <2> QED BY <2>1, <2>2, <2>3, WorkStep DEF Abstract!Next
<1>5. CASE SendReturns \/ Requeue
  <2>1. /\ Holding /\ committed' = committed /\ done' = done \cup {position}
        /\ \/ log' = log
           \/ log' = Append(log, Record(InHand.event, InHand.retries + 1))
    BY <1>5 DEF SendReturns, Requeue, Requeued, Done, groupVars, Holding
  <2>2. Len(log') \in {Len(log), Len(log) + 1}
    BY <2>1, Back
  <2>3. position \in 1..Len(log) /\ position # NoOffset /\ position <= position
    BY <2>1, RecordInHand DEF IInv, TypeOK, NoOffset
  <2> QED BY <2>1, <2>2, <2>3, WorkStep DEF Abstract!Next
<1>6. CASE Crash
  <2>1. /\ UNCHANGED <<committed, done>>
        /\ \/ log' = log
           \/ Holding /\ log' = Append(log, Record(InHand.event, InHand.retries + 1))
    BY <1>6 DEF Crash, fateVars, Holding
  <2>2. log' = log \/ Len(log') = Len(log) + 1
    BY <2>1, Back
  <2> QED BY <2>1, <2>2 DEF Abstract!vars, Abstract!Publish, Abstract!Next
<1> QED BY <1>1, <1>2, <1>3, <1>4, <1>5, <1>6 DEF Next

\* The DLQ consumer implements the abstract specification of a group that commits only what
\* it has handled.
THEOREM Implements == Spec => CommitsOnlyHandled
  BY InitImplements, StepImplements, Inductive, PTL DEF Spec, CommitsOnlyHandled, Abstract!Spec

-----------------------------------------------------------------------------
(* What CommitAfterHandling promises, and so its implementation. *)

\* The promise, and that the commit stays on the topic.
PromiseInv ==
  /\ Len(log) \in Nat
  /\ committed \in NoOffset..Len(log)
  /\ Abstract!Promise

\* A commit moves over what is handled, and nothing that was is forgotten.
LEMMA PromiseNext == PromiseInv /\ [Abstract!Next]_(Abstract!vars) => PromiseInv'
<1> SUFFICES ASSUME PromiseInv, [Abstract!Next]_(Abstract!vars)
             PROVE  PromiseInv'
  OBVIOUS
<1> USE DEF NoOffset, Abstract!NoOffset, PromiseInv, Abstract!Promise
<1>1. CASE Abstract!Publish
  BY <1>1 DEF Abstract!Publish
<1>2. CASE Abstract!Join
  BY <1>2 DEF Abstract!Join
<1>3. CASE Abstract!Work
  <2>1. Len(log') \in {Len(log), Len(log) + 1} /\ done \subseteq done'
    BY <1>3 DEF Abstract!Work, Abstract!Handle
  <2>2. CASE committed' = committed
    BY <2>1, <2>2
  <2>3. CASE committed' \in 0..Len(log) /\ \A e \in 1..committed' : 0 < e => e \in done
    BY <2>1, <2>3
  <2> QED
    BY <1>3, <2>2, <2>3 DEF Abstract!Work, Abstract!Commit
<1>4. CASE UNCHANGED Abstract!vars
  BY <1>4 DEF Abstract!vars
<1> QED
  BY <1>1, <1>2, <1>3, <1>4 DEF Abstract!Next

\* A group that behaves as CommitAfterHandling says never commits a record that it has not
\* handled.
THEOREM PromiseKept == CommitsOnlyHandled => []Abstract!Promise
<1>1. Abstract!Init => PromiseInv
  BY DEF Abstract!Init, PromiseInv, Abstract!Promise, NoOffset, Abstract!NoOffset
<1>2. PromiseInv => Abstract!Promise
  BY DEF PromiseInv
<1> QED
  BY <1>1, <1>2, PromiseNext, PTL DEF CommitsOnlyHandled, Abstract!Spec

\* No record of the DLQ is committed before _process_message has returned for it.
THEOREM CommitIsSafe == Spec => []Abstract!Promise
BY Implements, PromiseKept, PTL

=============================================================================
