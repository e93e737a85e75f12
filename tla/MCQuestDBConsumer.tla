-------------------------- MODULE MCQuestDBConsumer --------------------------
(* Values of the constants of QuestDBConsumer for TLC. *)
EXTENDS QuestDBConsumer

\* Polls of two rows and of a row with a record that raises, and a record after that one.
MCClass == <<"row", "row", "poison", "row">>
=============================================================================
