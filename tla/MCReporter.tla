------------------------------ MODULE MCReporter ------------------------------
(* Reporter for TLC: three writes to a report, so that a mixture of two may have *)
(* a hole or a tail; four saves over two days.                                   *)
EXTENDS Reporter
===============================================================================
