-------------------------- MODULE CommitAfterHandling --------------------------
(***************************************************************************)
(* What a consumer group of one member promises of the topic it reads,     *)
(* whatever it does with a record: none is committed before it was         *)
(* handled, so that a crash or a rebalance costs work, never a record.     *)
(* QuestDBConsumer and DLQConsumer implement it, with auto-commit left on. *)
(*                                                                         *)
(* What counts as handled is the implementation's to say.                  *)
(***************************************************************************)
EXTENDS Integers

NoOffset == -1

VARIABLES
  published,   \* how many records the topic has
  base,        \* the records up to here are not promised
  committed,   \* the group's offset, NoOffset before the first commit
  handled      \* records the member has done with, for good or ill

vars == <<published, base, committed, handled>>

Init ==
  /\ published = 0
  /\ base = 0
  /\ committed = NoOffset
  /\ handled = {}

\* Somebody publishes a record.
Publish ==
  /\ published' = published + 1
  /\ UNCHANGED <<base, committed, handled>>

\* While nothing is committed, whoever joins may start at a later place.
Join ==
  /\ committed = NoOffset
  /\ base' \in base..published
  /\ UNCHANGED <<published, committed, handled>>

\* Some records that are not committed are handled; the member may publish one itself,
\* to have another try at it later.
Handle ==
  /\ handled \subseteq handled'
  /\ \A e \in handled' \ handled : e \in 1..published /\ base < e /\ committed < e
  /\ published' \in {published, published + 1}

\* What was handled before may be committed.
Commit ==
  \/ committed' = committed
  \/ /\ committed' \in base..published /\ committed' >= committed
     /\ \A e \in 1..committed' : base < e => e \in handled

Work == Handle /\ Commit /\ UNCHANGED base

Next == Publish \/ Join \/ Work

Spec == Init /\ [][Next]_vars

\* A record that is committed was handled, unless it was never promised.
Promise == \A e \in 1..published : (base < e /\ e <= committed) => e \in handled
================================================================================
