------------------------------ MODULE Seeding ------------------------------
(***************************************************************************)
(* prisma/seed.ts: a script of upserts in a fixed order, each of them       *)
(* committed on its own.  It may stop anywhere (a query that fails exits    *)
(* the process), be started again, and be run by two people at a time.      *)
(* List is what it upserts, in order, one entry for each.                   *)
(***************************************************************************)
EXTENDS Naturals, Sequences

CONSTANTS
  List,    \* the rows upserted, in order
  Seeders  \* runs of the script that may be under way at a time

(* The rows are distinct: each upsert names its row by its own key. *)
DistinctRows ==
  /\ Len(List) \in Nat
  /\ \A i, j \in 1..Len(List) : List[i] = List[j] => i = j

VARIABLES
  present,  \* the rows of List that the database has
  at,       \* at[p]: the upsert p is about to make, 0: not running
  finished  \* history: whether a run came to its end

seedVars == <<present, at, finished>>

Init ==
  /\ present = {}
  /\ at = [p \in Seeders |-> 0]
  /\ finished = FALSE

Start(p) ==
  /\ at[p] = 0
  /\ at' = [at EXCEPT ![p] = 1]
  /\ UNCHANGED <<present, finished>>

Upsert(p) ==
  /\ at[p] \in 1..Len(List)
  /\ present' = present \cup {List[at[p]]}
  /\ at' = [at EXCEPT ![p] = @ + 1]
  /\ UNCHANGED finished

(* A query throws: also the loser's, when two runs create one row. *)
Stop(p) ==
  /\ at[p] # 0
  /\ at' = [at EXCEPT ![p] = 0]
  /\ UNCHANGED <<present, finished>>

Finish(p) ==
  /\ at[p] = Len(List) + 1
  /\ at' = [at EXCEPT ![p] = 0]
  /\ finished' = TRUE
  /\ UNCHANGED present

Next == \E p \in Seeders : Start(p) \/ Upsert(p) \/ Stop(p) \/ Finish(p)

Spec == Init /\ [][Next]_seedVars

-----------------------------------------------------------------------------
Rows == {List[i] : i \in 1..Len(List)}

TypeOK ==
  /\ present \subseteq Rows
  /\ at \in [Seeders -> 0..(Len(List) + 1)]
  /\ finished \in BOOLEAN

(* What a run has behind it is there. *)
DoneIsThere == \A p \in Seeders : \A j \in 1..Len(List) : j < at[p] => List[j] \in present

(* After a run that came to its end everything is there, however many earlier
   runs stopped half way and whatever ran next to it. *)
FinishedIsComplete == finished => \A i \in 1..Len(List) : List[i] \in present

IInv == TypeOK /\ DoneIsThere /\ FinishedIsComplete
=============================================================================
