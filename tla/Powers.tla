------------------------------- MODULE Powers -------------------------------
(***************************************************************************)
(* Powers of two, by which the code shifts.                                *)
(***************************************************************************)
EXTENDS Integers

(* 1 << n                                                                  *)
Power[n \in Nat] == IF n = 0 THEN 1 ELSE 2 * Power[n - 1]
=============================================================================
