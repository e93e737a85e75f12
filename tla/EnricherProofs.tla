---------------------------- MODULE EnricherProofs ----------------------------
(***************************************************************************)
(* Proofs about Enricher, for any Q-ids, any times to live (0 included),   *)
(* any size of a chunk and any time that the answers wait for each other:  *)
(* whatever Wikidata, SQLite and crashes do in between, a label is not     *)
(* staler than its time to live allows, and an answer that was saved is    *)
(* not asked for again before its time.                                    *)
(***************************************************************************)
EXTENDS Enricher, TLAPS

-----------------------------------------------------------------------------
(* The invariant. *)

PastIsPast == \A q \in Edited : \A k \in Kinds : leftAt[q][k] <= now

\* A row says what was true when it was written, or MaxLag before at most.
IsTrue(q, row) == row # NoRow => LastHeld(q, row.kind) >= row.at - MaxLag

\* The rows of the open transaction and the committed ones; a crash makes the latter of
\* the former.
TrueRows == \A q \in Qids : IsTrue(q, rows[q]) /\ IsTrue(q, disk[q])

\* An answer is not older than the first one of its batch.
TrueAnswers ==
  \A q \in Known(fetched) :
    /\ LastHeld(q, fetched[q]) >= asOf
    /\ LastHeld(q, fetched[q]) >= now - lag

TrueFinds ==
  \A q \in Known(cached) : LastHeld(q, cached[q]) > asOf - Ttl[cached[q]] - MaxLag

Covers(q, row) == row # NoRow /\ goodUntil[q] <= row.at + Ttl[row.kind]

\* While an answer is good there is a row that says so, committed.
SavedIsKept ==
  \A q \in Qids : goodUntil[q] = Never \/ (Covers(q, rows[q]) /\ Covers(q, disk[q]))

IInv ==
  /\ TypeOK
  /\ PastIsPast
  /\ TrueRows
  /\ TrueAnswers
  /\ TrueFinds
  /\ SavedIsKept
  /\ AskedAgainForAReason

-----------------------------------------------------------------------------
(* Types. *)

\* An answer is not mistaken for none.
LEMMA KindsAreNotNoLabel == NoLabel \notin Kinds
BY DEF NoLabel, Kinds

\* What is assumed of the constants.
LEMMA Sizes == /\ MaxTime \in Nat /\ MaxLag \in Nat /\ ChunkSize \in Nat
               /\ Edited \subseteq Qids
               /\ \A k \in Kinds : Ttl[k] \in Nat
BY EnricherAssumption

\* A row that is written is a row.
LEMMA RowIsRow ==
  ASSUME NEW k \in Kinds, NEW t \in 0..MaxTime
  PROVE  Row(k, t) \in RowType /\ Row(k, t) # NoRow /\ Row(k, t).kind = k /\ Row(k, t).at = t
BY KindsAreNotNoLabel DEF Row, RowType, NoRow

\* A row that is there has a kind and a time.
LEMMA RowHasType ==
  ASSUME NEW row \in RowType, row # NoRow
  PROVE  row.kind \in Kinds /\ row.at \in Int
BY Sizes DEF RowType

\* What is known of an entity is its kind.
LEMMA KnownHasKind ==
  ASSUME NEW f \in [Qids -> Kinds \cup {NoLabel}], NEW q \in Known(f)
  PROVE  q \in Qids /\ f[q] \in Kinds
BY DEF Known

\* A batch starts knowing nothing.
LEMMA NothingIsKnown == Nothing \in [Qids -> Kinds \cup {NoLabel}] /\ Known(Nothing) = {}
BY DEF Nothing, Known

\* What a save makes of the table is a table.
LEMMA WrittenHasType ==
  ASSUME TypeOK, NEW qs \in SUBSET Known(fetched)
  PROVE  Written(qs) \in [Qids -> RowType]
<1> SUFFICES ASSUME NEW q \in Qids
             PROVE  (IF q \in qs THEN Row(fetched[q], now) ELSE rows[q]) \in RowType
  BY DEF Written
<1>1. CASE q \in qs
  <2>1. fetched[q] \in Kinds
    BY <1>1, KnownHasKind DEF TypeOK
  <2> QED
    BY <1>1, <2>1, RowIsRow DEF TypeOK
<1>2. CASE q \notin qs
  BY <1>2 DEF TypeOK
<1> QED
  BY <1>1, <1>2

\* What a save promises of its answers are times.
LEMMA GoodHasType ==
  ASSUME TypeOK, NEW qs \in SUBSET Known(fetched)
  PROVE  Good(qs) \in [Qids -> Int]
<1> SUFFICES ASSUME NEW q \in Qids
             PROVE  (CASE q \in qs -> asOf + Ttl[fetched[q]]
                       [] q \in Known(fetched) \ qs -> Never
                       [] OTHER -> goodUntil[q]) \in Int
  BY DEF Good
<1>1. CASE q \in qs
  <2>1. Ttl[fetched[q]] \in Nat /\ asOf \in Int
    BY <1>1, KnownHasKind, Sizes DEF TypeOK
  <2> QED
    BY <1>1, <2>1
<1>2. CASE q \in Known(fetched) \ qs
  BY <1>2 DEF Never
<1>3. CASE q \notin Known(fetched)
  BY <1>3 DEF TypeOK
<1> QED
  BY <1>1, <1>2, <1>3

\* The locals of a batch that is over have their types.
LEMMA ForgetHasType ==
  ASSUME TypeOK, Forget, now' = now
  PROVE  /\ pc' \in Places /\ asOf' \in 0..now' /\ lag' \in 0..MaxLag /\ blind' \in BOOLEAN
         /\ cached' \in [Qids -> Kinds \cup {NoLabel}] /\ toFetch' \in SUBSET Qids
         /\ fetched' \in [Qids -> Kinds \cup {NoLabel}]
<1>1. asOf' \in 0..now' /\ lag' \in 0..MaxLag
  BY Sizes DEF TypeOK, Forget
<1>2. pc' \in Places /\ blind' \in BOOLEAN /\ toFetch' \in SUBSET Qids
  BY DEF Forget, Places
<1>3. cached' = Nothing /\ fetched' = Nothing
  BY DEF Forget
<1> QED
  BY <1>1, <1>2, <1>3, NothingIsKnown

\* The locals after a chunk have their types.
LEMMA GoOnHasType ==
  ASSUME TypeOK, NEW chunk, NEW f \in [Qids -> Kinds \cup {NoLabel}], GoOn(chunk, f)
  PROVE  /\ pc' \in Places /\ toFetch' \in SUBSET Qids
         /\ fetched' \in [Qids -> Kinds \cup {NoLabel}]
<1>1. toFetch' \in SUBSET Qids /\ fetched' = f
  BY DEF TypeOK, GoOn
<1>2. pc' \in {"fetch", "save", "attach"}
  <2>1. CASE toFetch \ chunk # {}
    BY <2>1 DEF GoOn
  <2>2. CASE toFetch \ chunk = {} /\ Known(f) # {}
    BY <2>2 DEF GoOn
  <2>3. CASE toFetch \ chunk = {} /\ Known(f) = {}
    BY <2>3 DEF GoOn
  <2> QED
    BY <2>1, <2>2, <2>3
<1> QED
  BY <1>1, <1>2 DEF Places

\* An answer gives kinds to the Q-ids of its chunk.
LEMMA AnswerHasType ==
  ASSUME TypeOK, NEW chunk
  PROVE  [q \in Qids |-> IF q \in chunk THEN entity[q] ELSE fetched[q]]
           \in [Qids -> Kinds \cup {NoLabel}]
BY DEF TypeOK

\* What a batch finds: some of the rows that are fresh.
Found(qs) == [q \in Qids |-> IF q \in qs /\ Fresh(rows[q]) THEN rows[q].kind ELSE NoLabel]

\* The rows that a lookup finds give kinds.
LEMMA FoundHasType ==
  ASSUME TypeOK, NEW qs
  PROVE  Found(qs) \in [Qids -> Kinds \cup {NoLabel}]
<1> SUFFICES ASSUME NEW q \in Qids, Fresh(rows[q])
             PROVE  rows[q].kind \in Kinds
  BY DEF Found
<1> QED
  BY RowHasType DEF TypeOK, Fresh

\* Every step keeps the types; a tick keeps the times behind the clock.
LEMMA TypeNext ==
  ASSUME TypeOK, [Next]_vars
  PROVE  TypeOK'
<1>1. CASE Tick
  <2>1. now' \in 0..MaxTime /\ asOf' \in 0..now'
    BY <1>1, Sizes DEF Tick, TypeOK, batchVars
  <2>2. lag' \in 0..MaxLag
    BY <1>1, Sizes DEF Tick, TypeOK
  <2> QED
    BY <1>1, <2>1, <2>2 DEF Tick, TypeOK, wikidataVars, batchVars, cacheVars
<1>2. CASE EntityChanges
  <2>1. entity' \in [Qids -> Kinds]
    BY <1>2, Sizes DEF EntityChanges, TypeOK
  <2>2. leftAt' \in [Edited -> [Kinds -> Never..MaxTime]]
    <3>1. PICK q \in Edited : leftAt' = [leftAt EXCEPT ![q][entity[q]] = now]
      BY <1>2 DEF EntityChanges
    <3>2. now \in Never..MaxTime /\ entity[q] \in Kinds
      BY Sizes DEF TypeOK, Never
    <3> QED
      BY <3>1, <3>2 DEF TypeOK
  <2> QED
    BY <1>2, <2>1, <2>2 DEF EntityChanges, TypeOK, clockVars, batchVars, cacheVars
<1>3. CASE Lookup
  <2>1. PICK qs \in SUBSET Qids :
          /\ (cached' = Found(qs) /\ blind' = FALSE) \/ (cached' = Nothing /\ blind' = TRUE)
          /\ toFetch' = qs \ Known(cached')
    BY <1>3 DEF Lookup, Found
  <2>2. cached' \in [Qids -> Kinds \cup {NoLabel}] /\ blind' \in BOOLEAN
    BY <2>1, FoundHasType, NothingIsKnown
  <2>3. toFetch' \in SUBSET Qids
    BY <2>1
  <2>4. pc' \in Places /\ asOf' = now /\ lag' = 0 /\ fetched' = Nothing
    BY <1>3 DEF Lookup, Places
  <2>5. asOf' \in 0..now' /\ lag' \in 0..MaxLag
    BY <1>3, <2>4, Sizes DEF Lookup, TypeOK
  <2> QED
    BY <1>3, <2>2, <2>3, <2>4, <2>5, NothingIsKnown DEF Lookup, TypeOK, wikidataVars, cacheVars
<1>4. CASE ChunkAnswered
  <2>1. PICK chunk \in Chunks :
          GoOn(chunk, [q \in Qids |-> IF q \in chunk THEN entity[q] ELSE fetched[q]])
    BY <1>4 DEF ChunkAnswered
  <2>2. /\ pc' \in Places /\ toFetch' \in SUBSET Qids
        /\ fetched' \in [Qids -> Kinds \cup {NoLabel}]
    BY <2>1, GoOnHasType, AnswerHasType
  <2> QED
    BY <1>4, <2>2 DEF ChunkAnswered, TypeOK, clockVars, wikidataVars, cacheVars
<1>5. CASE ChunkFails
  <2>1. PICK chunk \in Chunks : GoOn(chunk, fetched)
    BY <1>5 DEF ChunkFails
  <2>2. /\ pc' \in Places /\ toFetch' \in SUBSET Qids
        /\ fetched' \in [Qids -> Kinds \cup {NoLabel}]
    BY <2>1, GoOnHasType DEF TypeOK
  <2> QED
    BY <1>5, <2>2 DEF ChunkFails, TypeOK, clockVars, wikidataVars, cacheVars
<1>6. CASE ChunkRaises
  BY <1>6, ForgetHasType DEF ChunkRaises, TypeOK, wikidataVars, cacheVars
<1>7. CASE Save
  BY <1>7, WrittenHasType, GoodHasType DEF Save, TypeOK, Places, clockVars, wikidataVars, batchVars
<1>8. CASE SaveFails
  BY <1>8, WrittenHasType, GoodHasType
     DEF SaveFails, TypeOK, Places, clockVars, wikidataVars, batchVars
<1>9. CASE Attach
  BY <1>9, ForgetHasType DEF Attach, TypeOK, wikidataVars, cacheVars
<1>10. CASE Crash
  BY <1>10, ForgetHasType DEF Crash, TypeOK, wikidataVars
<1>11. CASE UNCHANGED vars
  BY <1>11 DEF vars, TypeOK
<1> QED
  BY <1>1, <1>2, <1>3, <1>4, <1>5, <1>6, <1>7, <1>8, <1>9, <1>10, <1>11 DEF Next

\* The types at the start.
LEMMA TypeInit == Init => TypeOK
<1> SUFFICES ASSUME Init
             PROVE  TypeOK
  OBVIOUS
<1>1. entity \in [Qids -> Kinds]
  BY EnricherAssumption DEF Init
<1>2. now \in 0..MaxTime /\ asOf \in 0..now /\ lag \in 0..MaxLag
  BY Sizes DEF Init
<1>3. rows \in [Qids -> RowType] /\ disk \in [Qids -> RowType]
  BY DEF Init, RowType
<1>4. leftAt \in [Edited -> [Kinds -> Never..MaxTime]]
  BY Sizes DEF Init, Never
<1>5. cached \in [Qids -> Kinds \cup {NoLabel}] /\ fetched \in [Qids -> Kinds \cup {NoLabel}]
  BY NothingIsKnown DEF Init
<1>6. pc \in Places /\ toFetch \in SUBSET Qids /\ blind \in BOOLEAN
  BY DEF Init, Places
<1>7. goodUntil \in [Qids -> Int]
  BY DEF Init, Never
<1> QED
  BY <1>1, <1>2, <1>3, <1>4, <1>5, <1>6, <1>7 DEF TypeOK

-----------------------------------------------------------------------------
(* What Wikidata held, and when: the past only grows. *)

\* When an entity was last of a kind is a time that is not ahead of the clock.
LEMMA LastHeldIs ==
  ASSUME TypeOK, PastIsPast, NEW q \in Qids, NEW k \in Kinds
  PROVE  LastHeld(q, k) \in Int /\ LastHeld(q, k) <= now
<1>1. now \in Int /\ now >= 0
  BY Sizes DEF TypeOK
<1>2. q \in Edited => leftAt[q][k] \in Int /\ leftAt[q][k] <= now
  BY Sizes DEF TypeOK, PastIsPast, Never
<1>3. CASE entity[q] = k
  BY <1>1, <1>3 DEF LastHeld
<1>4. CASE entity[q] # k /\ q \in Edited
  BY <1>2, <1>4 DEF LastHeld
<1>5. CASE entity[q] # k /\ q \notin Edited
  BY <1>1, <1>5 DEF LastHeld, Never
<1> QED
  BY <1>3, <1>4, <1>5

\* The history of Wikidata stays behind the clock.
LEMMA PastNext ==
  ASSUME TypeOK, PastIsPast, [Next]_vars
  PROVE  PastIsPast'
<1> USE Sizes DEF TypeOK, Never
<1>1. CASE Tick
  <2> SUFFICES ASSUME NEW q \in Edited, NEW k \in Kinds
               PROVE  leftAt[q][k] <= now + 1
    BY <1>1 DEF Tick, PastIsPast, wikidataVars
  <2> QED
    BY DEF PastIsPast
<1>2. CASE EntityChanges
  <2>1. PICK q \in Edited : leftAt' = [leftAt EXCEPT ![q][entity[q]] = now]
    BY <1>2 DEF EntityChanges
  <2>2. now' = now
    BY <1>2 DEF EntityChanges, clockVars
  <2> SUFFICES ASSUME NEW r \in Edited, NEW k \in Kinds
               PROVE  leftAt'[r][k] <= now
    BY <2>2 DEF PastIsPast
  <2>3. leftAt'[r][k] = now \/ leftAt'[r][k] = leftAt[r][k]
    BY <2>1
  <2> QED
    BY <2>3 DEF PastIsPast
<1>3. CASE UNCHANGED <<now, wikidataVars>>
  BY <1>3 DEF PastIsPast, wikidataVars
<1> QED
  BY <1>1, <1>2, <1>3 DEF Next, Lookup, ChunkAnswered, ChunkFails, ChunkRaises, Save, SaveFails,
     Attach, Crash, vars, clockVars, wikidataVars

\* When an entity was last of a kind only moves forward: an edit replaces the time at
\* which it stopped being of one kind by a later one.
LEMMA Memory ==
  ASSUME TypeOK, PastIsPast, [Next]_vars, NEW q \in Qids, NEW k \in Kinds
  PROVE  LastHeld(q, k)' \in Int /\ LastHeld(q, k)' >= LastHeld(q, k)
<1>0. now \in Int /\ LastHeld(q, k) \in Int /\ LastHeld(q, k) <= now
  BY LastHeldIs, Sizes DEF TypeOK
<1>1. CASE Tick
  <2>1. now' = now + 1 /\ entity' = entity /\ leftAt' = leftAt
    BY <1>1 DEF Tick, wikidataVars
  <2>2. CASE entity[q] = k
    BY <1>0, <2>1, <2>2 DEF LastHeld
  <2>3. CASE entity[q] # k
    BY <1>0, <2>1, <2>3 DEF LastHeld
  <2> QED
    BY <2>2, <2>3
<1>2. CASE EntityChanges
  <2>1. PICK r \in Edited, j \in Kinds :
          /\ j # entity[r]
          /\ entity' = [entity EXCEPT ![r] = j]
          /\ leftAt' = [leftAt EXCEPT ![r][entity[r]] = now]
    BY <1>2 DEF EntityChanges
  <2>2. now' = now
    BY <1>2 DEF EntityChanges, clockVars
  <2>3. CASE q # r
    <3>1. entity'[q] = entity[q] /\ (q \in Edited => leftAt'[q] = leftAt[q])
      BY <2>1, <2>3 DEF TypeOK
    <3> QED
      BY <1>0, <2>2, <3>1 DEF LastHeld
  <2>4. CASE q = r /\ j = k
    <3>1. entity'[q] = k
      BY <2>1, <2>4 DEF TypeOK
    <3> QED
      BY <1>0, <2>2, <3>1 DEF LastHeld
  <2>5. CASE q = r /\ j # k /\ entity[q] = k
    <3>1. entity'[q] # k /\ q \in Edited /\ leftAt'[q][k] = now
      BY <2>1, <2>5 DEF TypeOK
    <3> QED
      BY <1>0, <3>1 DEF LastHeld
  <2>6. CASE q = r /\ j # k /\ entity[q] # k
    <3>1. entity'[q] # k /\ q \in Edited /\ leftAt'[q][k] = leftAt[q][k]
      BY <2>1, <2>6 DEF TypeOK
    <3> QED
      BY <1>0, <2>6, <3>1 DEF LastHeld
  <2> QED
    BY <2>3, <2>4, <2>5, <2>6
<1>3. CASE UNCHANGED <<now, wikidataVars>>
  BY <1>0, <1>3 DEF LastHeld, wikidataVars
<1> QED
  BY <1>1, <1>2, <1>3 DEF Next, Lookup, ChunkAnswered, ChunkFails, ChunkRaises, Save, SaveFails,
     Attach, Crash, vars, clockVars, wikidataVars

-----------------------------------------------------------------------------
(* The rows. *)

\* A row that was true of the past stays true of it, whatever Wikidata does after.
LEMMA StillTrue ==
  ASSUME TypeOK, PastIsPast, [Next]_vars, NEW q \in Qids, NEW row \in RowType, IsTrue(q, row)
  PROVE  IsTrue(q, row)'
<1> SUFFICES ASSUME row # NoRow
             PROVE  LastHeld(q, row.kind)' >= row.at - MaxLag
  BY DEF IsTrue
<1>1. row.kind \in Kinds /\ row.at \in Int
  BY RowHasType
<1>2. LastHeld(q, row.kind) >= row.at - MaxLag
  BY DEF IsTrue
<1>3. /\ LastHeld(q, row.kind) \in Int
      /\ LastHeld(q, row.kind)' \in Int /\ LastHeld(q, row.kind)' >= LastHeld(q, row.kind)
  BY <1>1, LastHeldIs, Memory
<1> QED
  BY <1>1, <1>2, <1>3, Sizes

\* A row that is written says what the API answered in this batch.
LEMMA WrittenIsTrue ==
  ASSUME TypeOK, PastIsPast, TrueAnswers, NEW q \in Known(fetched),
         NEW row, row = Row(fetched[q], now)
  PROVE  row \in RowType /\ IsTrue(q, row)
<1>1. q \in Qids /\ fetched[q] \in Kinds
  BY KnownHasKind DEF TypeOK
<1>2. row \in RowType /\ row.kind = fetched[q] /\ row.at = now
  BY <1>1, RowIsRow DEF TypeOK
<1>3. LastHeld(q, fetched[q]) >= now - lag
  BY DEF TrueAnswers
<1>4. now \in Int /\ lag \in Int /\ lag <= MaxLag
  BY Sizes DEF TypeOK
<1> QED
  BY <1>1, <1>2, <1>3, <1>4, LastHeldIs, Sizes DEF IsTrue

\* Where the rows come from.
LEMMA RowsMove ==
  ASSUME TypeOK, [Next]_vars, NEW q \in Qids
  PROVE  /\ \/ rows'[q] = rows[q]
            \/ rows'[q] = disk[q]
            \/ q \in Known(fetched) /\ rows'[q] = Row(fetched[q], now)
         /\ disk'[q] = disk[q] \/ disk'[q] = rows'[q]
<1>1. CASE Save
  <2>1. rows' = Written(Known(fetched)) /\ disk' = rows'
    BY <1>1 DEF Save
  <2> QED
    BY <2>1 DEF Written
<1>2. CASE SaveFails
  <2>1. PICK qs \in SUBSET Known(fetched) : rows' = Written(qs)
    BY <1>2 DEF SaveFails
  <2>2. disk' = disk
    BY <1>2 DEF SaveFails
  <2> QED
    BY <2>1, <2>2 DEF Written
<1>3. CASE Crash
  BY <1>3 DEF Crash
<1>4. CASE UNCHANGED cacheVars
  BY <1>4 DEF cacheVars
<1> QED
  BY <1>1, <1>2, <1>3, <1>4 DEF Next, Tick, EntityChanges, Lookup, ChunkAnswered, ChunkFails,
     ChunkRaises, Attach, vars, cacheVars

\* The rows stay true: a save writes answers of this batch, a later save commits what an
\* earlier one left in the transaction, a crash goes back to what was committed.
LEMMA TrueRowsNext ==
  ASSUME TypeOK, PastIsPast, TrueRows, TrueAnswers, [Next]_vars
  PROVE  TrueRows'
<1> SUFFICES ASSUME NEW q \in Qids
             PROVE  IsTrue(q, rows[q])' /\ IsTrue(q, disk[q])'
  BY DEF TrueRows
<1>1. PICK onDisk \in RowType : onDisk = disk[q]
  BY DEF TypeOK
<1>2. PICK seen \in RowType : seen = rows[q]
  BY DEF TypeOK
<1>3. IsTrue(q, onDisk)' /\ IsTrue(q, seen)'
  BY <1>1, <1>2, StillTrue DEF TrueRows
<1>4. PICK row : row = rows'[q]
  OBVIOUS
<1>5. IsTrue(q, row)'
  <2>1. CASE row \in {onDisk, seen}
    BY <1>3, <2>1
  <2>2. CASE q \in Known(fetched) /\ row = Row(fetched[q], now)
    BY <2>2, WrittenIsTrue, StillTrue
  <2> QED
    BY <1>1, <1>2, <1>4, <2>1, <2>2, RowsMove
<1>6. PICK committed : committed = disk'[q]
  OBVIOUS
<1>7. committed \in {onDisk, row}
  BY <1>1, <1>4, <1>6, RowsMove
<1>8. IsTrue(q, committed)'
  BY <1>3, <1>5, <1>7
<1> QED
  BY <1>4, <1>5, <1>6, <1>8

-----------------------------------------------------------------------------
(* The answers and the finds. *)

\* An answer ages with its batch: the clock moves by as much as lag does.
LEMMA TrueAnswersNext ==
  ASSUME TypeOK, PastIsPast, TrueAnswers, [Next]_vars
  PROVE  TrueAnswers'
<1>0. /\ now \in Int /\ asOf \in Int /\ asOf <= now /\ lag \in Int /\ lag >= 0
      /\ fetched \in [Qids -> Kinds \cup {NoLabel}]
  BY Sizes DEF TypeOK
<1>1. CASE fetched' = Nothing
  BY <1>1, NothingIsKnown DEF TrueAnswers, Known
<1>2. CASE fetched' = fetched /\ asOf' = asOf /\ now' - lag' <= now - lag
  <2> SUFFICES ASSUME NEW q \in Known(fetched)
               PROVE  LastHeld(q, fetched[q])' >= asOf /\ LastHeld(q, fetched[q])' >= now' - lag'
    BY <1>2 DEF TrueAnswers, Known
  <2>1. PICK k \in Kinds : k = fetched[q] /\ q \in Qids
    BY <1>0, KnownHasKind
  <2>2. LastHeld(q, k) >= asOf /\ LastHeld(q, k) >= now - lag
    BY <2>1 DEF TrueAnswers
  <2>3. LastHeld(q, k) \in Int /\ LastHeld(q, k)' \in Int /\ LastHeld(q, k)' >= LastHeld(q, k)
    BY <2>1, LastHeldIs, Memory
  <2>4. PICK w \in Int : w = now' - lag' /\ w <= now - lag
    BY <1>2, Sizes, TypeNext DEF TypeOK
  <2>5. LastHeld(q, k)' >= asOf /\ LastHeld(q, k)' >= w
    BY <1>0, <2>2, <2>3, <2>4
  <2>6. LastHeld(q, fetched[q])' = LastHeld(q, k)'
    BY <1>2, <2>1 DEF LastHeld
  <2> QED
    BY <2>4, <2>5, <2>6
<1>3. CASE Tick
  <2>1. /\ fetched' = fetched /\ asOf' = asOf /\ now' = now + 1
        /\ Known(fetched) = {} \/ lag' = lag + 1
    BY <1>3 DEF Tick, batchVars
  <2>2. CASE Known(fetched) = {}
    BY <2>1, <2>2 DEF TrueAnswers, Known
  <2>3. CASE lag' = lag + 1
    BY <1>0, <1>2, <2>1, <2>3
  <2> QED
    BY <2>1, <2>2, <2>3
<1>4. CASE ChunkAnswered
  <2>1. PICK chunk \in Chunks :
          fetched' = [q \in Qids |-> IF q \in chunk THEN entity[q] ELSE fetched[q]]
    BY <1>4 DEF ChunkAnswered, GoOn
  <2>2. /\ now' = now /\ lag' = lag /\ asOf' = asOf
        /\ entity' = entity /\ leftAt' = leftAt
    BY <1>4 DEF ChunkAnswered, clockVars, wikidataVars
  <2> SUFFICES ASSUME NEW q \in Qids, fetched'[q] # NoLabel
               PROVE  /\ LastHeld(q, fetched'[q]) >= asOf
                      /\ LastHeld(q, fetched'[q]) >= now - lag
    BY <2>2 DEF TrueAnswers, Known, LastHeld
  <2>3. CASE q \in chunk
    <3>1. fetched'[q] = entity[q]
      BY <2>1, <2>3
    <3>2. LastHeld(q, fetched'[q]) = now
      BY <3>1 DEF LastHeld
    <3> QED
      BY <1>0, <3>2
  <2>4. CASE q \notin chunk
    BY <2>1, <2>4 DEF TrueAnswers, Known
  <2> QED
    BY <2>3, <2>4
<1>5. CASE EntityChanges
  BY <1>0, <1>2, <1>5 DEF EntityChanges, clockVars, batchVars
<1>6. CASE ChunkFails
  BY <1>0, <1>2, <1>6 DEF ChunkFails, GoOn, clockVars
<1>7. CASE Save \/ SaveFails
  BY <1>0, <1>2, <1>7 DEF Save, SaveFails, clockVars, batchVars
<1>8. CASE Lookup \/ ChunkRaises \/ Attach \/ Crash
  BY <1>1, <1>8 DEF Lookup, ChunkRaises, Attach, Crash, Forget
<1>9. CASE UNCHANGED vars
  BY <1>0, <1>2, <1>9 DEF vars
<1> QED
  BY <1>3, <1>4, <1>5, <1>6, <1>7, <1>8, <1>9 DEF Next

\* A row that is found fresh was true in its time to live.
LEMMA FoundIsTrue ==
  ASSUME TypeOK, PastIsPast, TrueRows, NEW q \in Qids, Fresh(rows[q])
  PROVE  /\ rows[q].kind \in Kinds
         /\ LastHeld(q, rows[q].kind) > now - Ttl[rows[q].kind] - MaxLag
<1>1. PICK row \in RowType : row = rows[q]
  BY DEF TypeOK
<1>2. row.kind \in Kinds /\ row.at \in Int /\ row # NoRow /\ row.at > now - Ttl[row.kind]
  BY <1>1, RowHasType DEF Fresh
<1>3. LastHeld(q, row.kind) >= row.at - MaxLag
  BY <1>1, <1>2 DEF TrueRows, IsTrue
<1>4. Ttl[row.kind] \in Nat /\ now \in Int /\ LastHeld(q, row.kind) \in Int
  BY <1>2, LastHeldIs, Sizes DEF TypeOK
<1>5. LastHeld(q, row.kind) > now - Ttl[row.kind] - MaxLag
  BY <1>2, <1>3, <1>4, Sizes
<1> QED
  BY <1>1, <1>2, <1>5

\* A find is a row that was fresh when the cache was read.
LEMMA TrueFindsNext ==
  ASSUME TypeOK, PastIsPast, TrueRows, TrueFinds, [Next]_vars
  PROVE  TrueFinds'
<1>1. CASE cached' = Nothing
  BY <1>1, NothingIsKnown DEF TrueFinds, Known
<1>2. CASE cached' = cached /\ asOf' = asOf
  <2> SUFFICES ASSUME NEW q \in Known(cached)
               PROVE  LastHeld(q, cached[q])' > asOf - Ttl[cached[q]] - MaxLag
    BY <1>2 DEF TrueFinds, Known
  <2>1. PICK k \in Kinds : k = cached[q] /\ q \in Qids
    BY KnownHasKind DEF TypeOK
  <2>2. LastHeld(q, k) > asOf - Ttl[k] - MaxLag
    BY <2>1 DEF TrueFinds
  <2>3. LastHeld(q, k) \in Int /\ LastHeld(q, k)' \in Int /\ LastHeld(q, k)' >= LastHeld(q, k)
    BY <2>1, LastHeldIs, Memory
  <2>4. asOf \in Int /\ Ttl[k] \in Nat
    BY Sizes DEF TypeOK
  <2>5. LastHeld(q, k)' > asOf - Ttl[k] - MaxLag
    BY <2>2, <2>3, <2>4, Sizes
  <2> QED
    BY <1>2, <2>1, <2>5 DEF LastHeld
<1>3. CASE Lookup
  <2>1. PICK qs \in SUBSET Qids : cached' = Found(qs) \/ cached' = Nothing
    BY <1>3 DEF Lookup, Found
  <2>2. /\ asOf' = now /\ now' = now /\ entity' = entity /\ leftAt' = leftAt
    BY <1>3 DEF Lookup, wikidataVars
  <2> SUFFICES ASSUME cached' = Found(qs), NEW q \in Qids, cached'[q] # NoLabel
               PROVE  LastHeld(q, cached'[q]) > now - Ttl[cached'[q]] - MaxLag
    BY <1>1, <2>1, <2>2 DEF TrueFinds, Known, LastHeld
  <2>3. Fresh(rows[q]) /\ cached'[q] = rows[q].kind
    BY DEF Found
  <2> QED
    BY <2>3, FoundIsTrue
<1>4. CASE ChunkRaises \/ Attach \/ Crash
  BY <1>1, <1>4 DEF ChunkRaises, Attach, Crash, Forget
<1>5. CASE UNCHANGED <<asOf, cached>>
  BY <1>2, <1>5
<1> QED
  BY <1>3, <1>4, <1>5 DEF Next, Tick, EntityChanges, ChunkAnswered, ChunkFails, Save, SaveFails,
     vars, batchVars

-----------------------------------------------------------------------------
(* What is kept, and what is asked for again. *)

\* An answer that was saved stays committed until a newer one of its entity is: neither a
\* crash nor a save that fails half way takes it.
LEMMA SavedIsKeptNext ==
  ASSUME TypeOK, SavedIsKept, [Next]_vars
  PROVE  SavedIsKept'
<1>1. CASE Save
  <2> SUFFICES ASSUME NEW q \in Qids
               PROVE  goodUntil'[q] = Never \/ (Covers(q, rows[q])' /\ Covers(q, disk[q])')
    BY DEF SavedIsKept
  <2>1. /\ rows' = Written(Known(fetched)) /\ disk' = rows'
        /\ goodUntil' = Good(Known(fetched))
    BY <1>1 DEF Save
  <2>2. CASE q \in Known(fetched)
    <3>1. PICK k \in Kinds : k = fetched[q]
      BY <2>2, KnownHasKind DEF TypeOK
    <3>2. rows'[q] = Row(k, now) /\ disk'[q] = Row(k, now)
      BY <2>1, <2>2, <3>1 DEF Written
    <3>3. goodUntil'[q] = asOf + Ttl[k]
      BY <2>1, <2>2, <3>1 DEF Good
    <3>4. Row(k, now) # NoRow /\ Row(k, now).kind = k /\ Row(k, now).at = now
      BY RowIsRow DEF TypeOK
    <3>5. asOf + Ttl[k] <= now + Ttl[k]
      BY Sizes DEF TypeOK
    <3> QED
      BY <3>2, <3>3, <3>4, <3>5 DEF Covers
  <2>3. CASE q \notin Known(fetched)
    <3>1. rows'[q] = rows[q] /\ disk'[q] = rows[q] /\ goodUntil'[q] = goodUntil[q]
      BY <2>1, <2>3 DEF Written, Good
    <3> QED
      BY <3>1 DEF SavedIsKept, Covers
  <2> QED
    BY <2>2, <2>3
<1>2. CASE SaveFails
  <2> SUFFICES ASSUME NEW q \in Qids
               PROVE  goodUntil'[q] = Never \/ (Covers(q, rows[q])' /\ Covers(q, disk[q])')
    BY DEF SavedIsKept
  <2>1. PICK qs \in SUBSET Known(fetched) : rows' = Written(qs)
    BY <1>2 DEF SaveFails
  <2>2. disk' = disk /\ goodUntil' = Good({})
    BY <1>2 DEF SaveFails
  <2>3. CASE q \in Known(fetched)
    BY <2>2, <2>3 DEF Good
  <2>4. CASE q \notin Known(fetched)
    <3>1. rows'[q] = rows[q] /\ disk'[q] = disk[q] /\ goodUntil'[q] = goodUntil[q]
      BY <2>1, <2>2, <2>4 DEF Written, Good
    <3> QED
      BY <3>1 DEF SavedIsKept, Covers
  <2> QED
    BY <2>3, <2>4
<1>3. CASE Crash
  BY <1>3 DEF Crash, SavedIsKept, Covers
<1>4. CASE UNCHANGED <<cacheVars, goodUntil>>
  BY <1>4 DEF SavedIsKept, Covers, cacheVars
<1> QED
  BY <1>1, <1>2, <1>3, <1>4 DEF Next, Tick, EntityChanges, Lookup, ChunkAnswered, ChunkFails,
     ChunkRaises, Attach, vars, cacheVars

\* While the last answer about a Q-id is good, the cache has it.
LEMMA GoodIsFound ==
  ASSUME TypeOK, SavedIsKept, NEW q \in Qids, ~Fresh(rows[q])
  PROVE  goodUntil[q] <= now
<1>1. now \in Int /\ now >= 0 /\ goodUntil[q] \in Int
  BY Sizes DEF TypeOK
<1>2. CASE goodUntil[q] = Never
  BY <1>1, <1>2 DEF Never
<1>3. CASE Covers(q, rows[q])
  <2>1. PICK row \in RowType : row = rows[q]
    BY DEF TypeOK
  <2>2. row # NoRow /\ goodUntil[q] <= row.at + Ttl[row.kind]
    BY <1>3, <2>1 DEF Covers
  <2>3. ~(row.at > now - Ttl[row.kind])
    BY <2>1, <2>2 DEF Fresh
  <2>4. row.at \in Int /\ Ttl[row.kind] \in Nat
    BY <2>2, RowHasType, Sizes
  <2> QED
    BY <1>1, <2>2, <2>3, <2>4
<1> QED
  BY <1>2, <1>3 DEF SavedIsKept

\* An entity is asked about only when no row that covers its last answer was found.
LEMMA AskedNext ==
  ASSUME TypeOK, SavedIsKept, AskedAgainForAReason, [Next]_vars
  PROVE  AskedAgainForAReason'
<1>1. CASE Lookup
  <2>1. PICK qs \in SUBSET Qids :
          /\ (cached' = Found(qs) /\ blind' = FALSE) \/ (cached' = Nothing /\ blind' = TRUE)
          /\ toFetch' = qs \ Known(cached')
    BY <1>1 DEF Lookup, Found
  <2>2. asOf' = now /\ goodUntil' = goodUntil
    BY <1>1 DEF Lookup
  <2> SUFFICES ASSUME cached' = Found(qs), NEW q \in toFetch'
               PROVE  goodUntil[q] <= now
    BY <2>1, <2>2 DEF AskedAgainForAReason
  <2>3. q \in Qids /\ q \in qs /\ Found(qs)[q] = NoLabel
    BY <2>1 DEF Known
  <2>4. Fresh(rows[q]) => rows[q].kind \in Kinds
    BY <2>3, RowHasType DEF TypeOK, Fresh
  <2>5. ~Fresh(rows[q])
    BY <2>3, <2>4, KindsAreNotNoLabel DEF Found
  <2> QED
    BY <2>3, <2>5, GoodIsFound
<1>2. CASE ChunkAnswered \/ ChunkFails
  <2>1. toFetch' \subseteq toFetch /\ UNCHANGED <<asOf, blind, goodUntil>> /\ pc = "fetch"
    BY <1>2 DEF ChunkAnswered, ChunkFails, GoOn
  <2> QED
    BY <2>1 DEF AskedAgainForAReason
<1>3. CASE Save \/ SaveFails \/ ChunkRaises \/ Attach \/ Crash
  BY <1>3 DEF AskedAgainForAReason, Save, SaveFails, ChunkRaises, Attach, Crash, Forget
<1>4. CASE UNCHANGED <<pc, asOf, blind, toFetch, goodUntil>>
  BY <1>4 DEF AskedAgainForAReason
<1> QED
  BY <1>1, <1>2, <1>3, <1>4 DEF Next, Tick, EntityChanges, vars, batchVars

-----------------------------------------------------------------------------
(* Theorems. *)

\* Nothing is known, saved or asked for at the start.
LEMMA IInvInit == Init => IInv
<1> SUFFICES ASSUME Init
             PROVE  IInv
  OBVIOUS
<1>1. PastIsPast
  BY DEF Init, PastIsPast, Never
<1>2. TrueRows
  BY DEF Init, TrueRows, IsTrue
<1>3. TrueAnswers /\ TrueFinds
  BY NothingIsKnown DEF Init, TrueAnswers, TrueFinds
<1>4. SavedIsKept
  BY DEF Init, SavedIsKept
<1>5. AskedAgainForAReason
  BY DEF Init, AskedAgainForAReason
<1> QED
  BY <1>1, <1>2, <1>3, <1>4, <1>5, TypeInit DEF IInv

\* Every step keeps the invariant.
LEMMA IInvNext == IInv /\ [Next]_vars => IInv'
BY TypeNext, PastNext, TrueRowsNext, TrueAnswersNext, TrueFindsNext, SavedIsKeptNext, AskedNext
   DEF IInv

\* The invariant holds in every state: the rows and the labels in flight are true of the
\* past they come from, and the good answers are in the cache.
THEOREM Inductive == Spec => []IInv
BY IInvInit, IInvNext, PTL DEF Spec

\* The variables of enrich_events and of the cache have their types.
THEOREM TypeCorrect == Spec => []TypeOK
BY Inductive, PTL DEF IInv

\* What is attached was fetched by this batch or found by it.
LEMMA IInvBounds == IInv => BoundedStaleness
<1> SUFFICES ASSUME IInv, NEW q \in Known(Attached)
             PROVE  \/ LastHeld(q, Attached[q]) >= asOf
                    \/ LastHeld(q, Attached[q]) > asOf - Ttl[Attached[q]] - MaxLag
  BY DEF BoundedStaleness
<1>1. q \in Qids
  BY DEF Known
<1>2. CASE fetched[q] # NoLabel
  BY <1>1, <1>2 DEF IInv, TrueAnswers, Known, Attached
<1>3. CASE fetched[q] = NoLabel
  <2>1. Attached[q] = cached[q] /\ q \in Known(cached)
    BY <1>1, <1>3 DEF Attached, Known
  <2> QED
    BY <2>1 DEF IInv, TrueFinds
<1> QED
  BY <1>2, <1>3

\* A label that an event is given is not older than its time to live and the wait for the
\* batch's other chunks, through failed saves, crashes and changes of the entity.
THEOREM LabelsAreFresh == Spec => []BoundedStaleness
BY Inductive, IInvBounds, PTL

\* An answer that was saved is asked for again only when it is too old or the cache cannot
\* be read.
THEOREM SavedOnce == Spec => []AskedAgainForAReason
BY Inductive, PTL DEF IInv

=============================================================================
