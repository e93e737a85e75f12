------------------------------ MODULE MCProducer ------------------------------
(* Values of the constants of Producer for TLC. *)
EXTENDS Producer

MCKind == <<"identified", "anonymous", "identified", "identified">>

\* A valid event beside a rejected one, so that a batch has records for both topics, and
\* one without an id on which the validation raises.
MCClass == <<"valid", "odd", "invalid", "valid">>
=============================================================================
