----------------------------- MODULE MCDLQConsumer -----------------------------
(* DLQConsumer for TLC: a malformed record between two events, polls of up to *)
(* two records, and one crash or rebalance.                                   *)
EXTENDS DLQConsumer

MCMalformed == {2}
================================================================================
