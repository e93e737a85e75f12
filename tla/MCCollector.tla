----------------------------- MODULE MCCollector -----------------------------
(* Values of the constants of Collector for TLC. *)
EXTENDS Collector

\* One event of each kind between identified ones, so that an anonymous or a
\* malformed event can be the last one before a reconnection or in a flush.
MCKind == <<"identified", "malformed", "identified", "anonymous", "identified">>
=============================================================================
