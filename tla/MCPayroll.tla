------------------------------ MODULE MCPayroll -----------------------------
(* Model values for the bounded instances of Payroll. *)
EXTENDS Payroll, TLC

CONSTANTS c1, c2, e1, e2, e3, r1, r2, s1, s2

Symmetry ==
  Permutations({c1, c2} \cap Companies) \cup Permutations({e1, e2, e3} \cap Employees)
    \cup Permutations({r1, r2} \cap Runs) \cup Permutations({s1, s2} \cap Slots)
=============================================================================
