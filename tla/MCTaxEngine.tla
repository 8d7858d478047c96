---------------------------- MODULE MCTaxEngine -----------------------------
(* The bases lie around the limits of the brackets, and are odd where a rate
   leaves half a centavo. *)
EXTENDS TaxEngine

MCBases == {0, 250002, 400000, 2000003, 9000000}
MCSalaries == {20835, 100001, 700001}
=============================================================================
