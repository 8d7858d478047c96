----------------------------- MODULE MCSessions -----------------------------
(***************************************************************************)
(* Two situations, told apart by `scope`: "race", where two requests of one  *)
(* account are interleaved at every await and none fails, and "turns", where *)
(* one request runs at a time, may fail half way, and the account may be the *)
(* one the process seeds when it boots.                                      *)
(***************************************************************************)
EXTENDS Sessions, TLC

CONSTANTS u1, u2, p1, p2, t1, t2, t3, s1, s2

VARIABLE scope

Symmetry == Permutations(Passwords) \cup Permutations(Tokens) \cup Permutations(Slots)

MCInit == Init /\ scope \in {"race", "turns"}

(* One address of two is used: in "race" one that is not seeded. *)
Unused == IF scope = "race" THEN SeedAdmins ELSE Users \ SeedAdmins

(* Sessions take ids in order: no action or property tells one id from another. *)
InOrder ==
  \A x \in SessionIds : x > 1 /\ sessionState'[x] # "none" => sessionState'[x - 1] # "none"

(* Bound of "race": three sessions. *)
ThreeSessions ==
  Cardinality({x \in SessionIds : sessionState'[x] # "none"})
    + Cardinality({s \in Slots : ToSession(s)'}) <= 3

InTurn ==
  /\ \/ AtOnce /\ UNCHANGED interrupted
     \/ \E s \in Slots :
          /\ \A r \in Slots \ {s} : At(r, "idle")
          /\ \/ Serves(s) /\ UNCHANGED interrupted
             \/ Fail(s) /\ interrupted' = TRUE

MCNext ==
  /\ \/ /\ scope = "race"
        /\ ((\E s \in Slots : Serves(s)) \/ AtOnce) /\ UNCHANGED interrupted
        /\ ThreeSessions
     \/ scope = "turns" /\ InTurn
  /\ RecordsOverlap /\ InOrder
  /\ \A u \in Unused : password'[u] = None /\ \A s \in Slots : call'[s].user # u
  /\ UNCHANGED scope

MCSpec == MCInit /\ [][MCNext]_<<vars, scope>>
=============================================================================
