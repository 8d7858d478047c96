---------------------------- MODULE MCCompliance ----------------------------
(***************************************************************************)
(* Two situations, told apart by `scope`: "scans", where a requested scan    *)
(* overlaps the worker's within a month, and "queue", where only the worker  *)
(* scans, of a company with employees, and the clock crosses a quarter.      *)
(* Liveness is checked, so there is no symmetry.                             *)
(***************************************************************************)
EXTENDS Compliance

CONSTANTS w1, h1, d1, j1, j2

VARIABLE scope

MCInit == Init /\ scope \in {"scans", "queue"}

MCNext ==
  /\ Next
  /\ scope = "scans" => /\ month' = FirstMonth /\ ~staffed'
                        /\ raised' \subseteq {"vat_misclassification"}
                        /\ job'[j2] = "none"
  /\ scope = "queue" => /\ \A h \in Requests : scan'[h] = NoScan
                        /\ raised' \subseteq {"duplicate_transaction"}
  /\ UNCHANGED scope

MCSpec == MCInit /\ [][MCNext]_<<vars, scope>> /\ Fairness
=============================================================================
