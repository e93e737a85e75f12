------------------------------ MODULE DLQConsumer ------------------------------
(***************************************************************************)
(* The consumer of the dead-letter topic, src/src/dlq_consumer/consumer.py:*)
(* it sends each event to the main topic again, and puts one that fails    *)
(* back at the end of the DLQ with its count raised.                       *)
(*                                                                         *)
(* A record of the DLQ is its offset, on one partition.  The Kafka client  *)
(* is external.  Its iterator polls when it has yielded all records of the *)
(* last poll, moves the position before it yields a record, and commits    *)
(* the position in polls only; a group without a commit starts at the      *)
(* beginning (auto_offset_reset="earliest").  KafkaProducer delivers in    *)
(* the background, and may go on with a record that send().get() has given *)
(* up waiting for.                                                         *)
(*                                                                         *)
(* Left out: a record that is no JSON, at which the iterator raises and    *)
(* the process ends (the producer writes none), and the text of metadata.  *)
(***************************************************************************)
EXTENDS Integers, Sequences

CONSTANTS
  EventCount,    \* number of events ever routed to the DLQ
  Malformed,     \* those whose record lacks original_event or the retry count
  MaxRetries,    \* DLQ_MAX_RETRIES
  PollSize,      \* max_poll_records
  MaxFaults      \* bound on crashes and rebalances

Events == 1..EventCount

ASSUME DLQConsumerAssumption ==
  /\ EventCount \in Nat
  /\ Malformed \subseteq Events
  /\ MaxRetries \in Nat
  /\ PollSize \in Nat \ {0}
  /\ MaxFaults \in Nat

VARIABLES
  log,         \* the DLQ: events with their retry counts
  routed,      \* how many events the producer routed to it
  pc,          \* where run() is, see Places
  position,    \* offset of the last record yielded, NoOffset before the group is joined
  fetched,     \* offset of the last record that the last poll returned
  committed,   \* the group's offset, NoOffset before the first commit
  main,        \* events that arrived on the main topic from here
  inFlight,    \* events that are still on their way there though their send timed out
  twice,       \* history: events that arrived more than once
  excused,     \* history: events whose send failed but arrived or may yet, and those of
               \* records that were yielded more than once
  furthest,    \* history: the last offset that was ever yielded
  done,        \* history: offsets whose _process_message returned
  dropped,     \* history: events given up after MaxRetries
  lost,        \* history: events that failed and could not be put back
  faults       \* how many crashes and rebalances there were

groupVars == <<position, fetched, committed, furthest>>
mainVars == <<main, inFlight, twice, excused>>
fateVars == <<done, dropped, lost>>
vars == <<log, routed, pc, groupVars, mainVars, fateVars, faults>>

NoOffset == -1

Places == {"down", "loop", "sending", "requeue"}

Init ==
  /\ log = <<>> /\ routed = 0
  /\ pc = "down"
  /\ position = NoOffset /\ fetched = NoOffset /\ committed = NoOffset
  /\ main = {} /\ inFlight = {} /\ twice = {} /\ excused = {}
  /\ furthest = 0
  /\ done = {} /\ dropped = {} /\ lost = {}
  /\ faults = 0

Record(e, n) == [event |-> e, retries |-> n]

\* The record in hand.
InHand == log[position]

-----------------------------------------------------------------------------
(* The producer, the connections and the group. *)

\* send_to_dlq of the producer.
Route ==
  /\ routed < EventCount
  /\ routed' = routed + 1
  /\ log' = Append(log, Record(routed', 0))
  /\ UNCHANGED <<pc, groupVars, mainVars, fateVars, faults>>

\* _create_consumer and _create_producer try until both have connected.
Connect ==
  /\ pc = "down" /\ pc' = "loop"
  /\ UNCHANGED <<log, routed, groupVars, mainVars, fateVars, faults>>

\* Faulty: auto_offset_reset is "latest".
StartAtEnd(offset) ==
  /\ position' = IF offset = NoOffset THEN Len(log) ELSE offset
  /\ fetched' = position'

StartAt(offset) ==
  /\ position' = IF offset = NoOffset THEN 0 ELSE offset
  /\ fetched' = position'

Join ==
  /\ pc = "loop" /\ position = NoOffset
  /\ StartAt(committed)
  /\ UNCHANGED <<log, routed, pc, committed, furthest, mainVars, fateVars, faults>>

Polling == pc = "loop" /\ position # NoOffset /\ position = fetched

\* Faulty: the records being returned are committed with the others.
CommitAhead(before, after) == committed' = after

\* A poll may commit what the iterator has yielded until now.
AutoCommit(before, after) == committed' \in {committed, before}

\* The iterator asks for more records; there may be none yet.
Poll ==
  /\ Polling
  /\ \E last \in position..Len(log) :
       /\ last - position <= PollSize
       /\ fetched' = last
       /\ AutoCommit(position, last)
  /\ UNCHANGED <<log, routed, pc, position, furthest, mainVars, fateVars, faults>>

\* The group was rebalanced, as it is when the records of one poll took longer than
\* max.poll.interval; the commit before it rejoins may fail.
Rejoin ==
  /\ Polling
  /\ faults < MaxFaults /\ faults' = faults + 1
  /\ committed' \in {committed, position}
  /\ StartAt(committed')
  /\ UNCHANGED <<log, routed, pc, furthest, mainVars, fateVars>>

-----------------------------------------------------------------------------
(* _process_message. *)

\* Faulty: the limit is one more.
GivenUpLate(record) == record.retries > MaxRetries

GivenUp(record) == record.retries >= MaxRetries

Done(offset) == done' = done \cup {offset}

\* The iterator yields the next record; some are done with at once.
Yield ==
  LET offset == position + 1
      record == log[offset]
  IN /\ pc = "loop" /\ position < fetched
     /\ position' = offset
     /\ furthest' = IF offset > furthest THEN offset ELSE furthest
     /\ excused' = excused \cup (IF offset > furthest THEN {} ELSE {record.event})
     /\ \/ /\ record.event \in Malformed
           /\ Done(offset)
           /\ UNCHANGED <<pc, dropped>>
        \/ /\ record.event \notin Malformed /\ GivenUp(record)
           /\ dropped' = dropped \cup {record.event}
           /\ Done(offset)
           /\ UNCHANGED pc
        \/ /\ record.event \notin Malformed /\ ~GivenUp(record)
           /\ pc' = "sending"
           /\ UNCHANGED <<done, dropped>>
     /\ UNCHANGED <<log, routed, fetched, committed, main, inFlight, twice, lost, faults>>

Arrive(events) ==
  /\ main' = main \cup events
  /\ twice' = twice \cup (events \cap main)

\* Faulty: one send is not waited for, and a second one is.
SendTwiceReturns ==
  LET e == InHand.event
  IN /\ pc = "sending" /\ pc' = "loop"
     /\ main' = main \cup {e} /\ twice' = twice \cup {e}
     /\ Done(position)
     /\ UNCHANGED <<log, routed, groupVars, inFlight, excused, dropped, lost, faults>>

\* send().get() returns.
SendReturns ==
  /\ pc = "sending" /\ pc' = "loop"
  /\ Arrive({InHand.event})
  /\ Done(position)
  /\ UNCHANGED <<log, routed, groupVars, inFlight, excused, dropped, lost, faults>>

\* It raises: the event was not sent; or it was, and the answer lost; or the ten seconds
\* were over before KafkaProducer was.
SendRaises ==
  LET e == InHand.event
  IN /\ pc = "sending" /\ pc' = "requeue"
     /\ \/ UNCHANGED mainVars
        \/ Arrive({e}) /\ excused' = excused \cup {e} /\ UNCHANGED inFlight
        \/ inFlight' = inFlight \cup {e} /\ excused' = excused \cup {e} /\ UNCHANGED <<main, twice>>
     /\ UNCHANGED <<log, routed, groupVars, fateVars, faults>>

\* KafkaProducer delivers an event or gives it up.
Settle ==
  /\ \E e \in inFlight :
       /\ inFlight' = inFlight \ {e}
       /\ Arrive({e}) \/ UNCHANGED <<main, twice>>
  /\ UNCHANGED <<log, routed, pc, groupVars, excused, fateVars, faults>>

\* Faulty: the event is put back only if it is known not to have arrived.
RequeuedIfSure(record) ==
  log' = IF record.event \in excused THEN log ELSE Append(log, record)

\* The event goes to the end of the DLQ.
Requeued(record) == log' = Append(log, record)

\* _requeue_to_dlq: its send raises, or flush waits for all that is in flight; that the
\* record itself failed is then in a future that nobody asks.
Requeue ==
  /\ pc = "requeue" /\ pc' = "loop"
  /\ \/ /\ lost' = lost \cup {InHand.event}
        /\ UNCHANGED log
     \/ /\ inFlight = {}
        /\ Requeued(Record(InHand.event, InHand.retries + 1))
        /\ UNCHANGED lost
  /\ Done(position)
  /\ UNCHANGED <<routed, groupVars, mainVars, dropped, faults>>

\* The process ends; what it was about to deliver may still arrive.
Crash ==
  /\ pc # "down" /\ pc' = "down"
  /\ faults < MaxFaults /\ faults' = faults + 1
  /\ position' = NoOffset /\ fetched' = NoOffset
  /\ inFlight' = {}
  /\ \E late \in SUBSET (inFlight \cup IF pc = "sending" THEN {InHand.event} ELSE {}) : Arrive(late)
  /\ \/ UNCHANGED log
     \/ pc = "requeue" /\ log' = Append(log, Record(InHand.event, InHand.retries + 1))
  /\ UNCHANGED <<routed, committed, furthest, excused, fateVars>>

Next ==
  \/ Route
  \/ Connect
  \/ Join
  \/ Poll
  \/ Rejoin
  \/ Yield
  \/ SendReturns
  \/ SendRaises
  \/ Settle
  \/ Requeue
  \/ Crash

Spec == Init /\ [][Next]_vars

\* Kafka can be reached again and again; the process is restarted, and its loop and
\* KafkaProducer's thread go on.
Fairness ==
  /\ WF_vars(Connect)
  /\ WF_vars(Join)
  /\ WF_vars(Poll /\ fetched' > fetched)
  /\ WF_vars(Yield)
  /\ WF_vars(SendReturns \/ SendRaises)
  /\ WF_vars(Settle)
  /\ WF_vars(Requeue)

FairSpec == Spec /\ Fairness

-----------------------------------------------------------------------------
(* Properties. *)

\* The records of the DLQ when n events were routed to it.
LogRecords(n) == [event : 1..n, retries : 0..MaxRetries]

\* Types, and no record with a count past the limit.
TypeOK ==
  /\ routed \in 0..EventCount
  /\ log \in Seq(LogRecords(routed))
  /\ pc \in Places
  /\ position \in NoOffset..fetched
  /\ fetched \in NoOffset..Len(log)
  /\ committed \in NoOffset..Len(log)
  /\ inFlight \subseteq excused /\ excused \subseteq 1..routed
  /\ twice \subseteq main /\ main \subseteq 1..routed
  /\ furthest \in 0..Len(log) /\ done \subseteq 1..furthest
  /\ dropped \cup lost \subseteq 1..routed
  /\ faults \in 0..MaxFaults

Abstract == INSTANCE CommitAfterHandling WITH published <- Len(log), base <- 0, handled <- done

\* The group commits an offset only when _process_message has returned for all records up
\* to it, although the position moves before it is called.
CommitsOnlyHandled == Abstract!Spec

Settled(e) == e \in main \cup dropped \cup lost \cup Malformed

\* An event of the DLQ has arrived, was given up after its retries, could not be put back,
\* or has a record that is still to be read: no crash, rebalance, commit or send that fails
\* or is late makes it disappear otherwise.
NothingForgotten ==
  \A offset \in DOMAIN log :
    LET e == log[offset].event
    IN Settled(e) \/ \E later \in DOMAIN log : later > committed /\ log[later].event = e

\* The inductive invariant of the proofs in DLQConsumerProofs.

\* Before it joins, the process has no record; it holds one from Yield to the end of
\* _process_message, and that one is well formed and has a retry left.
Holding == pc \in {"sending", "requeue"}

PlaceOfRecord ==
  /\ pc = "down" => position = NoOffset
  /\ position = NoOffset => fetched = NoOffset
  /\ Holding => /\ position >= 1
                /\ ~GivenUp(InHand)
                /\ InHand.event \notin Malformed

\* Nothing behind the position is open but the record in hand, and the commit is behind
\* that.
PassedIsDone ==
  /\ position <= furthest /\ committed <= furthest
  /\ position # NoOffset =>
       /\ committed <= position
       /\ \A offset \in 1..position : offset \in done \/ (Holding /\ offset = position)

CommittedIsDone == \A offset \in 1..committed : offset \in done

\* An event that is not settled has a record that is not done with.
OpenRecord ==
  \A offset \in DOMAIN log :
    LET e == log[offset].event
    IN Settled(e) \/ \E later \in DOMAIN log : later \notin done /\ log[later].event = e

IInv ==
  /\ TypeOK
  /\ PlaceOfRecord
  /\ PassedIsDone
  /\ CommittedIsDone
  /\ OpenRecord

\* An event is on the main topic twice only if Kafka delivered a record of it twice, or its
\* first send was taken for a failure.
TwiceForAReason == twice \subseteq excused

\* Every event that is routed to the DLQ leaves it in the end, as long as crashes and
\* rebalances do: failures use its retries up, and a malformed record stops none after it.
EventuallySettled == \A e \in Events : (e <= routed) ~> Settled(e)
================================================================================
