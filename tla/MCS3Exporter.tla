----------------------------- MODULE MCS3Exporter -----------------------------
(* Values of the constants of S3Exporter for TLC: a day of two hours. *)
EXTENDS S3Exporter, TLC

CONSTANTS r1, r2, r3

MCRows == {r1, r2, r3}

MCRowDay == (r1 :> 0) @@ (r2 :> 0) @@ (r3 :> 1)

MCRowHour == (r1 :> 0) @@ (r2 :> 1) @@ (r3 :> 1)
=============================================================================
