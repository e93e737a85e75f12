------------------------------- MODULE Arithmetic -------------------------------
(***************************************************************************)
(* Sums and powers as recursive functions.  The folds of the community     *)
(* modules take an operator, and ^ is not known to any backend of TLAPS:   *)
(* of these two, the defining equations can be proved and used.            *)
(***************************************************************************)
EXTENDS Integers

\* g[1] + ... + g[n]
SumTo(g, n) ==
  LET sum[i \in 0..n] == IF i = 0 THEN 0 ELSE sum[i - 1] + g[i]
  IN sum[n]

\* base^n
Power(base, n) ==
  LET power[i \in 0..n] == IF i = 0 THEN 1 ELSE base * power[i - 1]
  IN power[n]
=================================================================================
