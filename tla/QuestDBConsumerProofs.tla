------------------------ MODULE QuestDBConsumerProofs ------------------------
(***************************************************************************)
(* Proofs about QuestDBConsumer, for every topic and batch size.  The      *)
(* safety properties follow from the inductive invariant IInv, which adds  *)
(* to them where a polled row can be while the position is ahead of the    *)
(* commit.                                                                 *)
(***************************************************************************)
EXTENDS QuestDBConsumer, TLAPS

\* The initial state satisfies the invariant.
LEMMA InitIInv == Init => IInv
  BY QuestDBConsumerAssumption
     DEF Init, IInv, TypeOK, Places, Events, NoOffset, IsRow, OnlyWhileSending,
         PositionHandled, BatchAhead, CommitAfterBase, BatchNew,
         CommittedIsHandled, Handled, WrittenOncePerDelivery

\* What was handled stays handled, as no step forgets what was polled, written or dropped.
LEMMA HandledGrows ==
  ASSUME polled \subseteq polled', written \subseteq written', dropped \subseteq dropped'
  PROVE  Handled \subseteq Handled'
  BY DEF Handled, IsRow

\* Steps that leave Kafka's offsets, the batch and the lines alone preserve it.
LEMMA QuietStep ==
  ASSUME IInv, UNCHANGED <<kafkaVars, batch, lineVars, dropped>>,
         published' \in published..StreamLen, pc' \in Places, batch = {} \/ pc' = pc
  PROVE  IInv'
<1>1. /\ UNCHANGED <<position, committed, base, polled, again, batch>>
      /\ UNCHANGED <<written, rewritten, dropped>>
  BY DEF kafkaVars, lineVars
<1>2. TypeOK'
  BY <1>1, QuestDBConsumerAssumption DEF IInv, TypeOK, Events, NoOffset, Places
<1>3. OnlyWhileSending'
  BY <1>1 DEF IInv, OnlyWhileSending
<1>4. PositionHandled' /\ BatchAhead' /\ CommitAfterBase' /\ BatchNew'
  BY <1>1 DEF IInv, PositionHandled, BatchAhead, CommitAfterBase, BatchNew, IsRow, Handled
<1>5. CommittedIsHandled' /\ WrittenOncePerDelivery'
  BY <1>1 DEF IInv, CommittedIsHandled, Handled, WrittenOncePerDelivery, IsRow
<1> QED BY <1>2, <1>3, <1>4, <1>5 DEF IInv

\* Assigning the partition moves the position back to the commit, or, without one,
\* moves the base with it.
LEMMA AssignStep == ASSUME IInv, AssignPartition PROVE IInv'
  BY QuestDBConsumerAssumption
     DEF AssignPartition, IInv, TypeOK, lineVars, Places, Events, NoOffset, IsRow,
         OnlyWhileSending, PositionHandled, BatchAhead, CommitAfterBase, BatchNew,
         CommittedIsHandled, Handled, WrittenOncePerDelivery

\* A poll commits what earlier polls returned, and puts each row it returns in the
\* batch or, when a record raises, among the dropped.
LEMMA PollStep == ASSUME IInv, Poll PROVE IInv'
<1> USE QuestDBConsumerAssumption DEF Events, NoOffset
<1>1. PICK last \in position..published :
        LET records == (position + 1)..last
            rows == {e \in records : IsRow(e)}
        IN /\ committed' \in {committed, position}
           /\ position' = last
           /\ polled' = polled \cup records
           /\ again' = again \cup (records \cap polled)
           /\ IF Poisoned(records)
              THEN /\ pc' = "sleep"
                   /\ dropped' = dropped \cup rows
                   /\ UNCHANGED batch
              ELSE /\ batch' = rows
                   /\ pc' = IF rows = {} THEN "poll" ELSE "send"
                   /\ UNCHANGED dropped
  BY DEF Poll, AutoCommit, Advance
<1> DEFINE records == (position + 1)..last
           rows == {e \in records : IsRow(e)}
<1>2. /\ UNCHANGED <<published, base, written, rewritten>>
      /\ pc = "poll" /\ position # NoOffset /\ batch = {}
  BY DEF Poll, lineVars, IInv, OnlyWhileSending
<1>3. /\ records \subseteq 1..published
      /\ rows \subseteq records
      /\ committed' \in NoOffset..position
      /\ position \in 0..published
      /\ last \in position..published
      /\ published \in 0..StreamLen
  BY <1>1, <1>2 DEF IInv, TypeOK, PositionHandled
<1>4. /\ batch' \subseteq rows
      /\ rows \subseteq batch' \cup dropped'
      /\ dropped \subseteq dropped'
      /\ dropped' \subseteq dropped \cup rows
      /\ batch' # {} => pc' = "send"
      /\ pc' \in Places
  BY <1>1, <1>2 DEF Places
<1> HIDE DEF rows
<1>5. TypeOK'
  BY <1>1, <1>2, <1>3, <1>4 DEF IInv, TypeOK
<1>6. OnlyWhileSending'
  BY <1>4 DEF OnlyWhileSending
<1>7. PositionHandled'
  <2>1. committed' <= position' /\ base' <= position'
    BY <1>1, <1>2, <1>3 DEF IInv, TypeOK, PositionHandled
  <2>2. ASSUME NEW e \in Events, base' < e, e <= position'
        PROVE  e \in batch' \cup Handled'
    <3>1. CASE e <= position
      <4>1. e \in Handled
        BY <3>1, <2>2, <1>2 DEF IInv, PositionHandled
      <4> QED BY <4>1, <1>1, <1>2, <1>4, HandledGrows
    <3>2. CASE ~(e <= position)
      <4>1. e \in records
        BY <3>2, <2>2, <1>1, <1>3
      <4>2. e \in polled' /\ (IsRow(e) => e \in batch' \cup dropped')
        BY <4>1, <1>1, <1>4 DEF rows
      <4> QED BY <4>2 DEF Handled, IsRow
    <3> QED BY <3>1, <3>2
  <2> QED BY <2>1, <2>2 DEF PositionHandled, IsRow
<1>8. BatchAhead'
  BY <1>1, <1>2, <1>3, <1>4 DEF IInv, TypeOK, PositionHandled, BatchAhead
<1>9. CommitAfterBase'
  BY <1>1, <1>2 DEF IInv, CommitAfterBase, PositionHandled
<1>10. BatchNew'
  BY <1>1, <1>2, <1>3, <1>4 DEF IInv, TypeOK, BatchNew
<1>11. CommittedIsHandled'
  BY <1>1, <1>2, <1>4, HandledGrows DEF IInv, CommittedIsHandled, PositionHandled
<1>12. WrittenOncePerDelivery'
  BY <1>1, <1>2 DEF IInv, WrittenOncePerDelivery
<1> QED BY <1>5, <1>6, <1>7, <1>8, <1>9, <1>10, <1>11, <1>12 DEF IInv

\* The batch leaves the process: some lines are written, the others dropped.
LEMMA SendStep ==
  ASSUME IInv, NEW lines \in SUBSET batch, Write(lines), batch' = {},
         dropped' = dropped \cup (batch \ lines), pc' \in {"poll", "sleep"},
         UNCHANGED <<published, kafkaVars>>
  PROVE  IInv'
  BY QuestDBConsumerAssumption
     DEF Write, IInv, TypeOK, kafkaVars, Places, Events, NoOffset, IsRow,
         OnlyWhileSending, PositionHandled, BatchAhead, CommitAfterBase, BatchNew,
         CommittedIsHandled, Handled, WrittenOncePerDelivery

\* Every step preserves the invariant.
LEMMA NextIInv == IInv /\ [Next]_vars => IInv'
<1> SUFFICES ASSUME IInv, [Next]_vars PROVE IInv'
  OBVIOUS
<1> USE QuestDBConsumerAssumption
<1>t. /\ TypeOK /\ OnlyWhileSending
      /\ batch # {} => pc = "send"
  BY DEF IInv, OnlyWhileSending
<1>1. CASE Publish
  BY <1>1, <1>t, QuietStep DEF Publish, TypeOK
<1>2. CASE Subscribe
  BY <1>2, <1>t, QuietStep DEF Subscribe, TypeOK, Places
<1>3. CASE ConnectIlp
  BY <1>3, <1>t, QuietStep DEF ConnectIlp, TypeOK, Places
<1>4. CASE Wake
  BY <1>4, <1>t, QuietStep DEF Wake, TypeOK, Places
<1>5. CASE Join \/ Rejoin
  BY <1>5, AssignStep DEF Join, Rejoin
<1>6. CASE Poll
  BY <1>6, PollStep
<1>7. CASE PollRaises
  BY <1>7, <1>t, QuietStep DEF PollRaises, TypeOK, Places
<1>8. CASE SendAll
  <2>1. dropped' = dropped \cup (batch \ batch) /\ pc' \in {"poll", "sleep"}
    BY <1>8 DEF SendAll
  <2> QED BY <1>8, <2>1, SendStep DEF SendAll
<1>9. CASE SendAllRaises
  <2>1. PICK last \in batch :
          /\ Write({e \in batch : e < last})
          /\ dropped' = dropped \cup {e \in batch : e >= last}
    BY <1>9 DEF SendAllRaises
  <2>2. {e \in batch : e >= last} = batch \ {e \in batch : e < last}
    <3>1. last \in Int /\ \A e \in batch : e \in Int
      BY <1>t DEF TypeOK, Events
    <3>2. \A e \in batch : e >= last <=> ~(e < last)
      BY <3>1
    <3> QED BY <3>2
  <2>3. /\ batch' = {} /\ pc' \in {"poll", "sleep"}
        /\ UNCHANGED <<published, kafkaVars>>
    BY <1>9 DEF SendAllRaises
  <2> DEFINE sent == {e \in batch : e < last}
  <2>4. /\ sent \in SUBSET batch
        /\ Write(sent)
        /\ dropped' = dropped \cup (batch \ sent)
    BY <2>1, <2>2
  <2> HIDE DEF sent
  <2> QED BY <2>3, <2>4, SendStep
<1>10. CASE Crash
  BY <1>10
     DEF Crash, IInv, TypeOK, lineVars, Places, Events, NoOffset, IsRow,
         OnlyWhileSending, PositionHandled, BatchAhead, CommitAfterBase, BatchNew,
         CommittedIsHandled, Handled, WrittenOncePerDelivery
<1>11. CASE Restart
  BY <1>11, <1>t, QuietStep DEF Restart, TypeOK, Places
<1>12. CASE UNCHANGED vars
  BY <1>12
     DEF vars, IInv, TypeOK, OnlyWhileSending, PositionHandled, BatchAhead,
         CommitAfterBase, BatchNew, CommittedIsHandled, Handled, WrittenOncePerDelivery
<1> QED
  BY <1>1, <1>2, <1>3, <1>4, <1>5, <1>6, <1>7, <1>8, <1>9, <1>10, <1>11, <1>12
     DEF Next

\* IInv is an invariant of the consumer.
THEOREM Inductive == Spec => []IInv
  BY InitIInv, NextIInv, PTL DEF Spec

\* Type correctness.
THEOREM TypeCorrect == Spec => []TypeOK
<1>1. IInv => TypeOK
  BY DEF IInv
<1> QED BY <1>1, Inductive, PTL

\* Auto-commit never covers a row that is only in memory, however polls, commits,
\* rebalances and crashes interleave.
THEOREM CommitIsSafe == Spec => []CommittedIsHandled
<1>1. IInv => CommittedIsHandled
  BY DEF IInv
<1> QED BY <1>1, Inductive, PTL

\* A line is written twice only when Kafka delivered its record twice.
THEOREM NoDuplicateOfItsOwn == Spec => []WrittenOncePerDelivery
<1>1. IInv => WrittenOncePerDelivery
  BY DEF IInv
<1> QED BY <1>1, Inductive, PTL

-----------------------------------------------------------------------------
(* The consumer implements CommitAfterHandling. *)

\* Nothing is handled, and nothing committed, at the beginning.
LEMMA InitImplements == Init => Abstract!Init
  BY DEF Init, Abstract!Init, Handled, NoOffset, Abstract!NoOffset

\* Steps that poll nothing, write nothing and drop nothing leave what is handled alone.
LEMMA HandledStays ==
  ASSUME UNCHANGED <<polled, written, dropped>> PROVE UNCHANGED Handled
  BY DEF Handled, IsRow

\* A poll, or a batch that leaves the process, is a step of work.
LEMMA WorkStep ==
  ASSUME IInv, UNCHANGED <<published, base>>,
         committed' = committed \/ (position # NoOffset /\ batch = {} /\ committed' = position),
         polled \subseteq polled', written \subseteq written', dropped \subseteq dropped',
         \A e \in Handled' \ Handled : e \in 1..published /\ base < e /\ committed < e
  PROVE  Abstract!Work
<1>1. Abstract!Handle
  BY HandledGrows DEF Abstract!Handle
<1>2. Abstract!Commit
  <2>1. CASE committed' = committed
    BY <2>1 DEF Abstract!Commit
  <2>2. CASE position # NoOffset /\ batch = {} /\ committed' = position
    <3>1. committed' \in base..published /\ committed' >= committed
      BY <2>2 DEF IInv, TypeOK, PositionHandled, NoOffset
    <3>2. \A e \in 1..committed' : base < e => e \in Handled
      BY <2>2, QuestDBConsumerAssumption DEF IInv, TypeOK, PositionHandled, Events, NoOffset
    <3> QED BY <3>1, <3>2 DEF Abstract!Commit
  <2> QED BY <2>1, <2>2
<1> QED BY <1>1, <1>2 DEF Abstract!Work

\* A poll works on records past its position, which is past the base and the commit.
LEMMA PollWorks == ASSUME IInv, Poll PROVE Abstract!Work
<1>1. PICK last \in position..published :
        LET records == (position + 1)..last
            rows == {e \in records : IsRow(e)}
        IN /\ committed' \in {committed, position}
           /\ polled' = polled \cup records
           /\ IF Poisoned(records)
              THEN dropped' = dropped \cup rows
              ELSE UNCHANGED dropped
  BY DEF Poll, AutoCommit
<1>2. /\ UNCHANGED <<published, base, written>>
      /\ position # NoOffset /\ batch = {}
  BY DEF Poll, lineVars, IInv, OnlyWhileSending
<1>3. /\ polled \subseteq polled' /\ dropped \subseteq dropped'
      /\ polled' \ polled \subseteq (position + 1)..last
      /\ dropped' \ dropped \subseteq (position + 1)..last
  BY <1>1
<1>4. ASSUME NEW e \in Handled' \ Handled
      PROVE  e \in 1..published /\ base < e /\ committed < e
  <2>1. e \in (position + 1)..last
    BY <1>2, <1>3, <1>4 DEF Handled, IsRow
  <2> QED BY <2>1, <1>1, <1>2 DEF IInv, TypeOK, PositionHandled, NoOffset
<1> QED BY <1>1, <1>2, <1>3, <1>4, WorkStep

\* What leaves the batch was ahead of the commit.
LEMMA SendWorks ==
  ASSUME IInv, UNCHANGED <<published, base, committed, polled>>,
         written \subseteq written', written' \subseteq written \cup batch,
         dropped \subseteq dropped', dropped' \subseteq dropped \cup batch
  PROVE  Abstract!Work
<1>1. ASSUME NEW e \in Handled' \ Handled
      PROVE  e \in 1..published /\ base < e /\ committed < e
  <2>1. e \in batch
    BY <1>1 DEF Handled, IsRow
  <2> QED BY <2>1 DEF IInv, TypeOK, BatchAhead
<1> QED BY <1>1, WorkStep

\* Every step is one of CommitAfterHandling or leaves its variables alone.
LEMMA StepImplements == IInv /\ [Next]_vars => [Abstract!Next]_(Abstract!vars)
<1> SUFFICES ASSUME IInv, [Next]_vars PROVE [Abstract!Next]_(Abstract!vars)
  OBVIOUS
<1>1. CASE Publish
  BY <1>1, HandledStays DEF Publish, kafkaVars, lineVars, Abstract!Publish, Abstract!Next
<1>2. CASE Join \/ Rejoin
  <2>1. UNCHANGED <<published, committed, polled, written, dropped>>
    BY <1>2 DEF Join, Rejoin, AssignPartition, lineVars
  <2>2. base' = base \/ (committed = NoOffset /\ base' = published)
    BY <1>2 DEF Join, Rejoin, AssignPartition
  <2>3. published \in base..published
    BY DEF IInv, TypeOK
  <2> QED BY <2>1, <2>2, <2>3, HandledStays
          DEF Abstract!Join, Abstract!Next, Abstract!vars, NoOffset, Abstract!NoOffset
<1>3. CASE Poll
  BY <1>3, PollWorks DEF Abstract!Next
<1>4. CASE SendAll \/ SendAllRaises
  <2>1. UNCHANGED <<published, base, committed, polled>>
    BY <1>4 DEF SendAll, SendAllRaises, kafkaVars
  <2>2. /\ written \subseteq written' /\ written' \subseteq written \cup batch
        /\ dropped \subseteq dropped' /\ dropped' \subseteq dropped \cup batch
    BY <1>4 DEF SendAll, SendAllRaises, Write
  <2> QED BY <2>1, <2>2, SendWorks DEF Abstract!Next
<1>5. CASE Subscribe \/ ConnectIlp \/ Wake \/ PollRaises \/ Crash \/ Restart \/ UNCHANGED vars
  <2>1. UNCHANGED <<published, base, committed, polled, written, dropped>>
    BY <1>5 DEF Subscribe, ConnectIlp, Wake, PollRaises, Crash, Restart, vars, kafkaVars, lineVars
  <2> QED BY <2>1, HandledStays DEF Abstract!vars
<1> QED BY <1>1, <1>2, <1>3, <1>4, <1>5 DEF Next

\* The consumer implements the abstract specification of a group that commits only what
\* it has handled.
THEOREM Implements == Spec => CommitsOnlyHandled
  BY InitImplements, StepImplements, Inductive, PTL DEF Spec, CommitsOnlyHandled, Abstract!Spec
=============================================================================
