------------------------------ MODULE MCEnricher ------------------------------
(* Values of the constants of Enricher for TLC. *)
EXTENDS Enricher

CONSTANTS q1, q2

MCQids == {q1, q2}

MCEdited == {q1}

MCEntities == {[q \in MCQids |-> "labelled"]}

MCTtl == [labelled |-> 2, blank |-> 1, missing |-> 1]
=============================================================================
