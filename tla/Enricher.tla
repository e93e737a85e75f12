------------------------------- MODULE Enricher -------------------------------
(***************************************************************************)
(* The Wikidata enrichment of a batch: enrich_events of                    *)
(* src/src/producer/enricher.py over the SQLite cache of                   *)
(* src/src/producer/cache.py.                                              *)
(*                                                                         *)
(* External: Wikidata, whose entities change at any time and whose API     *)
(* answers a chunk, fails, or answers something that makes the code raise; *)
(* and SQLite, which may fail any call, and whose connection keeps an      *)
(* uncommitted transaction open, visible to itself, until a later commit   *)
(* or the end of the process.                                              *)
(*                                                                         *)
(* An entity is one of three kinds, for what the code tells apart: with a  *)
(* label, without one in the two languages asked for, or missing.  Left    *)
(* out: the texts, the events of the batch whose titles are not Q-ids      *)
(* (they get no label), and the counter of new API calls.                  *)
(***************************************************************************)
EXTENDS Integers, FiniteSets

CONSTANTS
  Qids,        \* the Q-ids that batches ask for
  Edited,      \* those whose entities ever change (bounds the model)
  Entities,    \* what Wikidata may hold at the start: functions from Qids to Kinds
  Ttl,         \* seconds a row of each kind is used, in ticks: the cache_*_ttl_seconds
  ChunkSize,   \* WIKIDATA_API_BATCH_SIZE
  MaxTime,     \* bound on the clock
  MaxLag       \* longest time from the API's first answer to the end of the batch's calls

Kinds == {"labelled", "blank", "missing"}

ASSUME EnricherAssumption ==
  /\ Edited \subseteq Qids
  /\ Entities \subseteq [Qids -> Kinds]
  /\ Ttl \in [Kinds -> Nat]
  /\ ChunkSize \in Nat \ {0}
  /\ MaxTime \in Nat
  /\ MaxLag \in Nat

VARIABLES
  now,       \* the clock
  entity,    \* Wikidata: the kind of each entity
  leftAt,    \* history: when each entity last stopped being of each kind, or Never
  pc,        \* where enrich_events is, see Places
  asOf,      \* when the cache was read
  lag,       \* time since the API's first answer in this batch
  blind,     \* history: whether the cache could not be read for this batch
  cached,    \* cached_qids: the kind of each Q-id found
  toFetch,   \* the Q-ids of the chunks still to fetch
  fetched,   \* newly_fetched_qids: the kind of each Q-id answered
  rows,      \* wikidata_cache as the connection sees it: a row or NoRow per Q-id
  disk,      \* wikidata_cache as committed
  goodUntil  \* history: until when the last answer about each Q-id, if it was saved
             \* without an error, is good for

clockVars == <<now, lag>>
wikidataVars == <<entity, leftAt>>
batchVars == <<asOf, blind, cached, toFetch, fetched>>
cacheVars == <<rows, disk>>
vars == <<now, entity, leftAt, pc, asOf, lag, blind, cached, toFetch, fetched, rows,
          disk, goodUntil>>

Places == {"idle", "fetch", "save", "attach"}

Never == -1
NoLabel == "none"

Row(k, t) == [kind |-> k, at |-> t]
NoRow == [kind |-> NoLabel, at |-> Never]
RowType == [kind : Kinds, at : 0..MaxTime] \cup {NoRow}

Nothing == [q \in Qids |-> NoLabel]
Known(f) == {q \in Qids : f[q] # NoLabel}

Smaller(a, b) == IF a < b THEN a ELSE b

Init ==
  /\ now = 0
  /\ entity \in Entities
  /\ leftAt = [q \in Edited |-> [k \in Kinds |-> Never]]
  /\ pc = "idle"
  /\ blind = FALSE
  /\ asOf = 0
  /\ lag = 0
  /\ cached = Nothing
  /\ toFetch = {}
  /\ fetched = Nothing
  /\ rows = [q \in Qids |-> NoRow]
  /\ disk = rows
  /\ goodUntil = [q \in Qids |-> Never]

-----------------------------------------------------------------------------
(* Time and Wikidata. *)

Tick ==
  /\ now < MaxTime
  /\ now' = now + 1
  /\ \/ Known(fetched) = {} /\ UNCHANGED lag
     \/ Known(fetched) # {} /\ lag < MaxLag /\ lag' = lag + 1
  /\ UNCHANGED <<wikidataVars, pc, batchVars, cacheVars, goodUntil>>

\* An entity changes at most once in a tick, which bounds the model.
EntityChanges ==
  \E q \in Edited, k \in Kinds :
    /\ k # entity[q]
    /\ \A j \in Kinds : leftAt[q][j] # now
    /\ entity' = [entity EXCEPT ![q] = k]
    /\ leftAt' = [leftAt EXCEPT ![q][entity[q]] = now]
    /\ UNCHANGED <<clockVars, pc, batchVars, cacheVars, goodUntil>>

-----------------------------------------------------------------------------
(* get_qids_from_cache. *)

\* Faulty: every row lives as long as a labelled one.
FreshAsLabelled(row) == row # NoRow /\ row.at > now - Ttl["labelled"]

\* The condition of the query: each kind of row has its own time to live.
Fresh(row) == row # NoRow /\ row.at > now - Ttl[row.kind]

\* The batch's Q-ids are looked up: the fresh rows are found, or nothing is because
\* there is no connection or the query fails.
Lookup ==
  /\ pc = "idle"
  /\ asOf' = now
  /\ lag' = 0
  /\ fetched' = Nothing
  /\ \E qs \in SUBSET Qids \ {{}} :
       /\ \/ /\ cached' = [q \in Qids |->
                             IF q \in qs /\ Fresh(rows[q]) THEN rows[q].kind ELSE NoLabel]
             /\ blind' = FALSE
          \/ /\ cached' = Nothing
             /\ blind' = TRUE
       /\ toFetch' = qs \ Known(cached')
  /\ pc' = IF toFetch' = {} THEN "attach" ELSE "fetch"
  /\ UNCHANGED <<now, wikidataVars, cacheVars, goodUntil>>

-----------------------------------------------------------------------------
(* fetch_wikidata_info_in_bulk, one _fetch_chunk at a time. *)

Chunks == {c \in SUBSET toFetch : Cardinality(c) = Smaller(ChunkSize, Cardinality(toFetch))}

\* What the loop does after a chunk, with f as the answers so far.
GoOn(chunk, f) ==
  /\ toFetch' = toFetch \ chunk
  /\ fetched' = f
  /\ pc' = CASE toFetch \ chunk # {} -> "fetch"
             [] toFetch \ chunk = {} /\ Known(f) # {} -> "save"
             [] toFetch \ chunk = {} /\ Known(f) = {} -> "attach"

ChunkAnswered ==
  /\ pc = "fetch"
  /\ \E chunk \in Chunks :
       GoOn(chunk, [q \in Qids |-> IF q \in chunk THEN entity[q] ELSE fetched[q]])
  /\ UNCHANGED <<clockVars, wikidataVars, asOf, blind, cached, cacheVars, goodUntil>>

\* An HTTP error, or an answer without entities (one invalid Q-id in the chunk is enough):
\* the chunk yields nothing.
ChunkFails ==
  /\ pc = "fetch"
  /\ \E chunk \in Chunks : GoOn(chunk, fetched)
  /\ UNCHANGED <<clockVars, wikidataVars, asOf, blind, cached, cacheVars, goodUntil>>

\* The locals of enrich_events go out of scope.
Forget ==
  /\ pc' = "idle"
  /\ asOf' = 0
  /\ lag' = 0
  /\ blind' = FALSE
  /\ cached' = Nothing
  /\ toFetch' = {}
  /\ fetched' = Nothing

\* Any other exception, as from a body that is not JSON, leaves enrich_events: the
\* answers of the earlier chunks go with it.
ChunkRaises ==
  /\ pc = "fetch"
  /\ Forget
  /\ UNCHANGED <<now, wikidataVars, cacheVars, goodUntil>>

-----------------------------------------------------------------------------
(* save_qids_to_cache and the end of enrich_events. *)

\* Faulty: every Q-id gets a row, answered or not.
WrittenForAll(qs) == [q \in Qids |-> Row(fetched[q], now)]

Written(qs) == [q \in Qids |-> IF q \in qs THEN Row(fetched[q], now) ELSE rows[q]]

\* The answers about qs are good for their time to live from when the batch began, those
\* about the others as before or not at all.
Good(qs) ==
  [q \in Qids |-> CASE q \in qs -> asOf + Ttl[fetched[q]]
                   [] q \in Known(fetched) \ qs -> Never
                   [] OTHER -> goodUntil[q]]

\* Faulty: the rows of the Q-ids that have one already are left as they are.
SaveNewOnly ==
  /\ pc = "save"
  /\ rows' = Written({q \in Known(fetched) : rows[q] = NoRow})
  /\ disk' = rows'
  /\ goodUntil' = Good(Known(fetched))
  /\ pc' = "attach"
  /\ UNCHANGED <<clockVars, wikidataVars, batchVars>>

\* The rows are replaced, with the time of the save, and committed, with whatever an
\* earlier failure left in the open transaction.
Save ==
  /\ pc = "save"
  /\ rows' = Written(Known(fetched))
  /\ disk' = rows'
  /\ goodUntil' = Good(Known(fetched))
  /\ pc' = "attach"
  /\ UNCHANGED <<clockVars, wikidataVars, batchVars>>

\* SQLite fails before the commit, after any number of rows; there is no rollback.
SaveFails ==
  /\ pc = "save"
  /\ \E qs \in SUBSET Known(fetched) : rows' = Written(qs)
  /\ goodUntil' = Good({})
  /\ pc' = "attach"
  /\ UNCHANGED <<clockVars, wikidataVars, batchVars, disk>>

\* What each Q-id's events are given.
Attached == [q \in Qids |-> IF fetched[q] # NoLabel THEN fetched[q] ELSE cached[q]]

\* The labels are attached and enrich_events returns.
Attach ==
  /\ pc = "attach"
  /\ Forget
  /\ UNCHANGED <<now, wikidataVars, cacheVars, goodUntil>>

\* The process dies and starts again; the database file is on a volume.
Crash ==
  /\ Forget
  /\ rows' = disk
  /\ UNCHANGED <<now, wikidataVars, disk, goodUntil>>

-----------------------------------------------------------------------------
Next ==
  \/ Tick
  \/ EntityChanges
  \/ Lookup
  \/ ChunkAnswered
  \/ ChunkFails
  \/ ChunkRaises
  \/ Save
  \/ SaveFails
  \/ Attach
  \/ Crash

Spec == Init /\ [][Next]_vars

-----------------------------------------------------------------------------
(* Properties. *)

TypeOK ==
  /\ now \in 0..MaxTime
  /\ entity \in [Qids -> Kinds]
  /\ leftAt \in [Edited -> [Kinds -> Never..MaxTime]]
  /\ pc \in Places
  /\ asOf \in 0..now
  /\ lag \in 0..MaxLag
  /\ cached \in [Qids -> Kinds \cup {NoLabel}]
  /\ toFetch \in SUBSET Qids
  /\ fetched \in [Qids -> Kinds \cup {NoLabel}]
  /\ rows \in [Qids -> RowType]
  /\ disk \in [Qids -> RowType]
  /\ blind \in BOOLEAN
  /\ goodUntil \in [Qids -> Int]

\* The last time entity q was of kind k.
LastHeld(q, k) ==
  IF entity[q] = k THEN now ELSE IF q \in Edited THEN leftAt[q][k] ELSE Never

\* What an event is given was true on Wikidata since the cache was read, or not longer ago,
\* when it was read, than the time to live of its kind and the time the answer waited for
\* its batch's other chunks: a row is stamped when it is saved, not when the API answered.
\* An API failure in particular never makes an entity missing.
BoundedStaleness ==
  pc = "attach" =>
    \A q \in Known(Attached) :
      \/ LastHeld(q, Attached[q]) >= asOf
      \/ LastHeld(q, Attached[q]) > asOf - Ttl[Attached[q]] - MaxLag

\* Wikidata is asked about an entity only when its last answer is too old, did not reach
\* the cache, or could not be read from it: neither a crash nor the failure of another
\* chunk or of a later save costs an answer that was saved.
AskedAgainForAReason ==
  pc = "fetch" => \A q \in toFetch : goodUntil[q] <= asOf \/ blind
=============================================================================
