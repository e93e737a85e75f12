---------------------------- MODULE MCProcessBatch ----------------------------
(* Values of the constants of ProcessBatch for TLC. *)
EXTENDS ProcessBatch

\* Batches of one or two: two valid events, a valid and a rejected one, a rejected and a
\* skipped one, and the event on which the validation raises.
MCClass == <<"valid", "valid", "invalid", "skip", "odd">>

MCClassSend == <<"valid", "valid", "valid">>
=============================================================================
