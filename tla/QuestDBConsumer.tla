--------------------------- MODULE QuestDBConsumer ---------------------------
(***************************************************************************)
(* The consumer that copies the main topic into QuestDB,                   *)
(* src/src/questdb_consumer/main.py: it polls a micro-batch, converts each *)
(* record to a line of ILP, and writes the lines to a TCP socket.          *)
(*                                                                         *)
(* A record is its offset on the topic, which has one partition here.      *)
(* The Kafka client is external: it keeps a position, starts it at the     *)
(* committed offset or, without one, at the end of the topic               *)
(* (auto_offset_reset="latest"), and now and then, at the beginning of a   *)
(* poll, commits it (enable_auto_commit is left at its default).           *)
(*                                                                         *)
(* Left out: the text of the lines, a line torn by a broken connection,    *)
(* the lengths of the sleeps, what becomes of a line once it is in a       *)
(* socket (ILP over TCP has no acknowledgement, so the consumer never      *)
(* learns it), and _ensure_table, whose five attempts end in the same      *)
(* place whether or not they create the table.                             *)
(***************************************************************************)
EXTENDS Integers

CONSTANTS
  StreamLen,    \* number of records ever published (bounds the model)
  Class,        \* what the conversion makes of each record, see Classes
  BatchSize     \* BATCH_SIZE

Events == 1..StreamLen

\* "row": becomes a line; "none": skipped, not JSON, not an object, or refused by
\* event_to_ilp; "poison": the conversion raises, as _should_skip does when meta is null.
Classes == {"row", "none", "poison"}

ASSUME QuestDBConsumerAssumption ==
  /\ StreamLen \in Nat
  /\ Class \in [Events -> Classes]
  /\ BatchSize \in Nat \ {0}

VARIABLES
  published,   \* how many records the topic holds
  pc,          \* where run() is, see Places
  position,    \* offset of the last record that poll returned, NoOffset before the first
  committed,   \* offset committed for the group, NoOffset before the first commit
  batch,       \* batch: the records whose lines are about to be sent
  base,        \* history: where the group last started without a committed offset
  polled,      \* history: records that poll returned
  again,       \* history: records that poll returned more than once
  written,     \* history: records whose line was written to a socket
  rewritten,   \* history: records whose line was written more than once
  dropped      \* history: rows of polls and of batches that ended in an exception

kafkaVars   == <<position, committed, base, polled, again>>
lineVars    == <<written, rewritten>>
vars == <<published, pc, position, committed, batch, base, polled, again, written,
          rewritten, dropped>>

Places == {"subscribe", "connect", "poll", "send", "sleep", "down"}

NoOffset == -1

IsRow(e) == Class[e] = "row"

Init ==
  /\ published = 0
  /\ pc = "subscribe"
  /\ position = NoOffset
  /\ committed = NoOffset
  /\ batch = {}
  /\ base = 0
  /\ polled = {}
  /\ again = {}
  /\ written = {}
  /\ rewritten = {}
  /\ dropped = {}

-----------------------------------------------------------------------------
(* Start-up. *)

\* The producer appends one more record to the topic.
Publish ==
  /\ published < StreamLen
  /\ published' = published + 1
  /\ UNCHANGED <<pc, kafkaVars, batch, lineVars, dropped>>

\* KafkaConsumer() returns, or raises because no broker answers, which ends the process.
Subscribe ==
  /\ pc = "subscribe"
  /\ pc' \in {"connect", "down"}
  /\ UNCHANGED <<published, kafkaVars, batch, lineVars, dropped>>

\* socket.create_connection, which may raise.
ConnectIlp ==
  /\ pc = "connect"
  /\ pc' \in {"poll", "sleep"}
  /\ UNCHANGED <<published, kafkaVars, batch, lineVars, dropped>>

Wake ==
  /\ pc = "sleep"
  /\ pc' = "connect"
  /\ UNCHANGED <<published, kafkaVars, batch, lineVars, dropped>>

-----------------------------------------------------------------------------
(* consumer.poll and the conversion. *)

AssignPartition ==
  /\ pc = "poll"
  /\ position' = IF committed # NoOffset THEN committed ELSE published
  /\ base' = IF committed # NoOffset THEN base ELSE published
  /\ UNCHANGED <<published, pc, committed, polled, again, batch, lineVars, dropped>>

\* The first poll joins the group.
Join == position = NoOffset /\ AssignPartition

\* A later poll finds that the group was rebalanced, as it is when run() has slept and
\* reconnected for so long that it did not poll.
Rejoin == position # NoOffset /\ AssignPartition

\* Faulty: the offsets of the records being returned are committed.
CommitAhead(before, after) == committed' = after

\* The commit at the beginning of the poll covers what earlier polls returned.
AutoCommit(before, after) == committed' \in {committed, before}

Poisoned(records) == \E e \in records : Class[e] = "poison"

\* Faulty: a poll with a poison record is to be repeated.
AdvanceUnlessPoisoned(last, records) ==
  position' = IF Poisoned(records) THEN position ELSE last

\* Faulty: one record too many.
AdvanceTooFar(last, records) == position' = last + 1

Advance(last, records) == position' = last

\* poll returns the next records, none if its time-out passes; the position moves
\* before any of them is converted.  A record that raises ends the whole batch.
Poll ==
  /\ pc = "poll"
  /\ position # NoOffset
  /\ \E last \in position..published :
       LET records == (position + 1)..last
           rows == {e \in records : IsRow(e)}
       IN /\ last - position <= BatchSize
          /\ AutoCommit(position, last)
          /\ Advance(last, records)
          /\ polled' = polled \cup records
          /\ again' = again \cup (records \cap polled)
          /\ IF Poisoned(records)
             THEN /\ pc' = "sleep"
                  /\ dropped' = dropped \cup rows
                  /\ UNCHANGED batch
             ELSE /\ batch' = rows
                  /\ pc' = IF rows = {} THEN "poll" ELSE "send"
                  /\ UNCHANGED dropped
  /\ UNCHANGED <<published, base, lineVars>>

\* poll itself raises.
PollRaises ==
  /\ pc = "poll"
  /\ pc' = "sleep"
  /\ UNCHANGED <<published, kafkaVars, batch, lineVars, dropped>>

-----------------------------------------------------------------------------
(* sock.sendall. *)

Write(lines) ==
  /\ written' = written \cup lines
  /\ rewritten' = rewritten \cup (lines \cap written)

\* sendall returns once the kernel has the bytes, whether or not QuestDB is there.
SendAll ==
  /\ pc = "send"
  /\ Write(batch)
  /\ batch' = {}
  /\ pc' = "poll"
  /\ UNCHANGED <<published, kafkaVars, dropped>>

\* Faulty: the batch is sent again from its beginning.
SendAllRetried ==
  /\ pc = "send"
  /\ \E last \in batch : Write({e \in batch : e < last})
  /\ UNCHANGED <<published, pc, kafkaVars, batch, dropped>>

\* sendall raises after a part of the batch, lines before last, was handed over: the
\* rest is nowhere else.
SendAllRaises ==
  /\ pc = "send"
  /\ \E last \in batch :
       /\ Write({e \in batch : e < last})
       /\ dropped' = dropped \cup {e \in batch : e >= last}
  /\ batch' = {}
  /\ pc' = "sleep"
  /\ UNCHANGED <<published, kafkaVars>>

-----------------------------------------------------------------------------
(* The process's life. *)

Crash ==
  /\ pc # "down"
  /\ pc' = "down"
  /\ position' = NoOffset
  /\ batch' = {}
  /\ UNCHANGED <<published, committed, base, polled, again, lineVars, dropped>>

Restart ==
  /\ pc = "down"
  /\ pc' = "subscribe"
  /\ UNCHANGED <<published, kafkaVars, batch, lineVars, dropped>>

-----------------------------------------------------------------------------
Next ==
  \/ Publish
  \/ Subscribe
  \/ ConnectIlp
  \/ Wake
  \/ Join
  \/ Rejoin
  \/ Poll
  \/ PollRaises
  \/ SendAll
  \/ SendAllRaises
  \/ Crash
  \/ Restart

Spec == Init /\ [][Next]_vars

\* The thread runs and Docker restarts it; the broker answers and QuestDB accepts
\* connections again and again; a poll that finds records returns some.
Fairness ==
  /\ SF_vars(Subscribe /\ pc' = "connect")
  /\ SF_vars(ConnectIlp /\ pc' = "poll")
  /\ WF_vars(Wake)
  /\ SF_vars(Join)
  /\ SF_vars(Poll /\ position' > position)
  /\ WF_vars(SendAll \/ SendAllRaises)
  /\ WF_vars(Restart)

FairSpec == Spec /\ Fairness

-----------------------------------------------------------------------------
(* Properties. *)

TypeOK ==
  /\ published \in 0..StreamLen
  /\ pc \in Places
  /\ position \in NoOffset..published
  /\ committed \in NoOffset..published
  /\ batch \in SUBSET Events
  /\ base \in 0..published
  /\ polled \in SUBSET (1..published)
  /\ again \in SUBSET polled
  /\ written \in SUBSET polled
  /\ rewritten \in SUBSET written
  /\ dropped \in SUBSET polled

\* What run() has done with: rows that were written to a socket or lost to an exception,
\* and all that are no rows.
Handled == {e \in polled : IsRow(e) => e \in written \cup dropped}

Abstract == INSTANCE CommitAfterHandling WITH handled <- Handled

\* Auto-commit, which run() leaves to the client, never covers a row that is only in the
\* process's memory: a crash, an exception or a rebalance between poll and sendall costs
\* nothing that was not already given up.
CommitsOnlyHandled == Abstract!Spec

\* A line reaches a socket twice only if Kafka delivered the record twice: no batch is
\* partly sent and then sent again.
WrittenOncePerDelivery == rewritten \subseteq again

\* If the process stays up and in its group, each record published after the group started
\* is polled and leaves the batch, one way or the other: a record that raises does not
\* stop the topic.
EventuallyHandled ==
  <>[][~Crash /\ ~Rejoin]_vars =>
    \A e \in Events :
      (base < e /\ e <= published) ~> (e <= base \/ e \in polled \ batch)

\* The inductive invariant of the proofs in QuestDBConsumerProofs.
OnlyWhileSending == batch # {} => pc = "send"

PositionHandled ==
  position # NoOffset =>
    /\ committed <= position
    /\ base <= position
    /\ \A e \in Events : (base < e /\ e <= position) => e \in batch \cup Handled

BatchAhead == \A e \in batch : committed < e /\ base < e /\ e \in polled

CommitAfterBase == committed # NoOffset => base <= committed

CommittedIsHandled == \A e \in Events : (base < e /\ e <= committed) => e \in Handled

BatchNew == \A e \in batch : e \in written => e \in again

IInv ==
  /\ TypeOK
  /\ OnlyWhileSending
  /\ PositionHandled
  /\ BatchAhead
  /\ CommitAfterBase
  /\ BatchNew
  /\ CommittedIsHandled
  /\ WrittenOncePerDelivery
=============================================================================
