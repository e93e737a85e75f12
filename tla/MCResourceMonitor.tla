-------------------------- MODULE MCResourceMonitor --------------------------
(* Values of the constants of ResourceMonitor for TLC: a percentage and the *)
(* block I/O of one container.                                              *)
EXTENDS ResourceMonitor

CONSTANT t1

MCTargets == <<t1>>
MCMetrics == <<"mem_pct", "block_io_mb">>
MCValues == {2, 6}
MCTransfers == {0, 3}

\* No transfer is noise, a percentage of 6 is critical.
MCAbsThreshold == [m \in MetricSet |-> 2]
MCCriticalAbs == [m \in MetricSet |-> 5]
=============================================================================
