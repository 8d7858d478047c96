--------------------------- MODULE TaxEngineProofs ---------------------------
(***************************************************************************)
(* The amounts are those of the schedule: for every list of distinct rows   *)
(* the seed script may have, however many runs of it start, stop and        *)
(* overlap, and for any number of requests, rows and bases.                 *)
(***************************************************************************)
EXTENDS TaxEngine, SequenceTheorems, TLAPS

(***************************************************************************)
(* The script                                                               *)
(***************************************************************************)

LEMMA NothingYet == Seed!DistinctRows /\ Seed!Init => Seed!IInv
<1>. SUFFICES ASSUME Seed!DistinctRows, Seed!Init
              PROVE  Seed!IInv
  OBVIOUS
<1>1. Seed!TypeOK
  <2>1. 0 \in 0..(Len(Script) + 1)
    BY DEF Seed!DistinctRows
  <2>. QED
    BY <2>1 DEF Seed!Init, Seed!TypeOK
<1>2. Seed!DoneIsThere
  BY DEF Seed!DistinctRows, Seed!Init, Seed!DoneIsThere
<1>3. Seed!FinishedIsComplete
  BY DEF Seed!Init, Seed!FinishedIsComplete
<1>. QED
  BY <1>1, <1>2, <1>3 DEF Seed!IInv

(* One upsert: what is behind its run stays a beginning of the list. *)
LEMMA UpsertKeeps ==
  ASSUME Seed!DistinctRows, Seed!IInv, NEW p \in Seeders, Seed!Upsert(p)
  PROVE  Seed!IInv'
<1> DEFINE k == at[p]
<1>1. k \in 1..Len(Script) /\ Len(Script) \in Nat
  BY DEF Seed!Upsert, Seed!DistinctRows
<1>2. /\ present' = present \cup {Script[k]}
      /\ at' = [at EXCEPT ![p] = k + 1]
      /\ finished' = finished
  BY DEF Seed!Upsert
<1>3. Seed!TypeOK'
  <2>1. Script[k] \in Seed!Rows
    BY <1>1 DEF Seed!Rows
  <2>2. k + 1 \in 0..(Len(Script) + 1)
    BY <1>1
  <2>. QED
    BY <1>2, <2>1, <2>2 DEF Seed!IInv, Seed!TypeOK, Seed!Rows
<1>4. Seed!DoneIsThere'
  <2>. SUFFICES ASSUME NEW q \in Seeders, NEW j \in 1..Len(Script), j < at'[q]
                PROVE  Script[j] \in present'
    BY DEF Seed!DoneIsThere
  <2>1. CASE q = p
    <3>1. at'[q] = k + 1
      BY <1>2, <2>1 DEF Seed!IInv, Seed!TypeOK
    <3>2. j < k \/ j = k
      BY <1>1, <3>1
    <3>. QED
      BY <1>2, <3>2 DEF Seed!IInv, Seed!DoneIsThere
  <2>2. CASE q # p
    BY <1>2, <2>2 DEF Seed!IInv, Seed!TypeOK, Seed!DoneIsThere
  <2>. QED
    BY <2>1, <2>2
<1>5. Seed!FinishedIsComplete'
  BY <1>2 DEF Seed!IInv, Seed!FinishedIsComplete
<1>. QED
  BY <1>3, <1>4, <1>5 DEF Seed!IInv

(* The other three move a run without touching a row; a run that finishes has
   the whole list behind it. *)
LEMMA MoveKeeps ==
  ASSUME Seed!DistinctRows, Seed!IInv, NEW p \in Seeders,
         Seed!Start(p) \/ Seed!Stop(p) \/ Seed!Finish(p)
  PROVE  Seed!IInv'
<1>1. present' = present /\ Len(Script) \in Nat
  BY DEF Seed!Start, Seed!Stop, Seed!Finish, Seed!DistinctRows
<1>2. /\ at' = [at EXCEPT ![p] = at'[p]]
      /\ at'[p] \in {0, 1}
  BY DEF Seed!Start, Seed!Stop, Seed!Finish, Seed!IInv, Seed!TypeOK
<1>3. finished' = finished \/ (finished' = TRUE /\ at[p] = Len(Script) + 1)
  BY DEF Seed!Start, Seed!Stop, Seed!Finish
<1>4. Seed!TypeOK'
  <2>1. at'[p] \in 0..(Len(Script) + 1)
    BY <1>1, <1>2
  <2>. QED
    BY <1>1, <1>2, <1>3, <2>1 DEF Seed!IInv, Seed!TypeOK, Seed!Rows
<1>5. Seed!DoneIsThere'
  <2>. SUFFICES ASSUME NEW q \in Seeders, NEW j \in 1..Len(Script), j < at'[q]
                PROVE  Script[j] \in present'
    BY DEF Seed!DoneIsThere
  <2>1. q # p
    BY <1>1, <1>2
  <2>. QED
    BY <1>1, <1>2, <2>1 DEF Seed!IInv, Seed!TypeOK, Seed!DoneIsThere
<1>6. Seed!FinishedIsComplete'
  <2>. SUFFICES ASSUME finished', NEW i \in 1..Len(Script)
                PROVE  Script[i] \in present'
    BY DEF Seed!FinishedIsComplete
  <2>1. CASE finished' = finished
    BY <1>1, <2>1 DEF Seed!IInv, Seed!FinishedIsComplete
  <2>2. CASE at[p] = Len(Script) + 1
    BY <1>1, <2>2 DEF Seed!IInv, Seed!DoneIsThere
  <2>. QED
    BY <1>3, <2>1, <2>2
<1>. QED
  BY <1>4, <1>5, <1>6 DEF Seed!IInv

LEMMA ScriptKeeps == Seed!DistinctRows /\ Seed!IInv /\ [Seed!Next]_(Seed!seedVars) => Seed!IInv'
<1>. SUFFICES ASSUME Seed!DistinctRows, Seed!IInv, [Seed!Next]_(Seed!seedVars)
              PROVE  Seed!IInv'
  OBVIOUS
<1>1. CASE Seed!Next
  <2>. PICK p \in Seeders : Seed!Start(p) \/ Seed!Upsert(p) \/ Seed!Stop(p) \/ Seed!Finish(p)
    BY <1>1 DEF Seed!Next
  <2>. QED
    BY UpsertKeeps, MoveKeeps
<1>2. CASE UNCHANGED Seed!seedVars
  BY <1>2 DEF Seed!seedVars, Seed!IInv, Seed!TypeOK, Seed!DoneIsThere,
                Seed!FinishedIsComplete
<1>. QED
  BY <1>1, <1>2

(***************************************************************************)
(* The engine: its invariant without the script's                           *)
(***************************************************************************)

RowsSound == \A i \in Ids : row[i] # None =>
  /\ row[i].kind \in Kinds
  /\ row[i].kind = "payslip" => row[i].base \in Salaries /\ row[i].status = "draft"
  /\ row[i].status \in Statuses
Kept == RowsSound /\ RowsFormed

LEMMA Parts == IInv <=> Seed!IInv /\ RequestsFormed /\ Kept
  BY DEF IInv, Kept, TypeOK, RowsSound, Seed!IInv

LEMMA PartsAfter ==
  ASSUME (Seed!IInv /\ RequestsFormed /\ Kept)'
  PROVE  IInv'
  BY DEF IInv, Kept, TypeOK, RowsSound, Seed!IInv

LEMMA Initially == Init => IInv
<1>. SUFFICES ASSUME Init
              PROVE  Seed!IInv /\ RequestsFormed /\ Kept
  BY Parts
<1>1. Seed!IInv
  BY NothingYet, RowsAreDistinct DEF Init
<1>2. RequestsFormed
  BY DEF Init, RequestsFormed
<1>3. Kept
  BY DEF Init, Kept, RowsSound, RowsFormed
<1>. QED
  BY <1>1, <1>2, <1>3

(* Whatever leaves the rows alone. *)
LEMMA KeptKept ==
  ASSUME Kept, row' = row
  PROVE  Kept'
  BY DEF Kept, RowsSound, RowsFormed

LEMMA ScriptLeft ==
  ASSUME Seed!IInv, UNCHANGED seeding
  PROVE  Seed!IInv'
  BY DEF seeding, Seed!IInv, Seed!TypeOK, Seed!DoneIsThere, Seed!FinishedIsComplete,
         Seed!Rows

LEMMA RequestsKept ==
  ASSUME RequestsFormed, call' = call
  PROVE  RequestsFormed'
  BY DEF RequestsFormed

(* A slot takes a new request, or gives up its own. *)
Formed(c) ==
  /\ c = [kind |-> c.kind, base |-> c.base, missing |-> c.missing, todo |-> c.todo,
          due |-> c.due, settled |-> c.settled]
  /\ c.kind \in Kinds /\ (c.kind = "payslip" => c.base \in Salaries)

LEMMA Taken ==
  ASSUME RequestsFormed, NEW s \in Slots, NEW c, Asks(s, c), c # NoCall => Formed(c)
  PROVE  RequestsFormed'
<1>1. call = [t \in Slots |-> call[t]]
  BY DEF RequestsFormed
<1>2. call' = [t \in Slots |-> IF t = s THEN c ELSE call[t]]
  BY <1>1 DEF Asks
<1>. SUFFICES ASSUME NEW t \in Slots, call'[t] # NoCall
              PROVE  Formed(call'[t])
  BY <1>2 DEF RequestsFormed, Formed
<1>3. CASE t = s
  BY <1>2, <1>3
<1>4. CASE t # s
  BY <1>2, <1>4 DEF RequestsFormed, Formed
<1>. QED
  BY <1>3, <1>4

LEMMA RequestFormed ==
  ASSUME NEW kind \in Kinds, NEW base, NEW missing, NEW todo,
         kind = "payslip" => base \in Salaries
  PROVE  Formed(Request(kind, base, missing, todo))
  BY DEF Formed, Request

(* A new request touches no row. *)
LEMMA RequestKeeps ==
  ASSUME IInv, NEW s \in Slots, Compute(s) \/ ComputeIncomeTax(s) \/ Pay(s)
  PROVE  IInv'
<1>1. UNCHANGED <<seeding, row>>
  BY DEF Compute, ComputeIncomeTax, Pay
<1>2. Seed!IInv' /\ Kept'
  BY <1>1, Parts, ScriptLeft, KeptKept
<1>3. RequestsFormed
  BY Parts
<1>4. RequestsFormed'
  <2>1. CASE Compute(s)
    <3>1. PICK type \in Types \ {"income_tax"}, base \in Bases \cup {None} :
            Asks(s, Request(type, base, MissingBase(base) \cup Mismatch(type), <<RuleOf[type]>>))
      BY <2>1 DEF Compute
    <3>2. type \in Kinds /\ type # "payslip"
      BY DEF Kinds, Types, FlatRuleOf, GraduatedRuleOf
    <3>. QED
      BY <1>3, <3>1, <3>2, RequestFormed, Taken
  <2>2. CASE ComputeIncomeTax(s)
    <3>1. PICK base, missing, todo : Asks(s, Request("income_tax", base, missing, todo))
      BY <2>2 DEF ComputeIncomeTax
    <3>2. "income_tax" \in Kinds
      BY DEF Kinds, Types, FlatRuleOf, GraduatedRuleOf
    <3>. QED
      BY <1>3, <3>1, <3>2, RequestFormed, Taken
  <2>3. CASE Pay(s)
    <3>1. PICK base, missing, todo :
            base \in Salaries /\ Asks(s, Request("payslip", base, missing, todo))
      BY <2>3 DEF Pay
    <3>2. "payslip" \in Kinds
      BY DEF Kinds
    <3>. QED
      BY <1>3, <3>1, <3>2, RequestFormed, Taken
  <2>. QED
    BY <2>1, <2>2, <2>3
<1>. QED
  BY <1>2, <1>4, PartsAfter

(* A look-up changes four fields of a request, and it stays one. *)
LEMMA LookedUp ==
  ASSUME NEW c, Formed(c), NEW m, NEW t, NEW d, NEW f
  PROVE  Formed([c EXCEPT !.missing = m, !.todo = t, !.due = d, !.settled = f])
<1> DEFINE c1 == [c EXCEPT !.missing = m]
           c2 == [c1 EXCEPT !.todo = t]
           c3 == [c2 EXCEPT !.due = d]
           c4 == [c3 EXCEPT !.settled = f]
<1>1. c1 = [kind |-> c.kind, base |-> c.base, missing |-> m, todo |-> c.todo, due |-> c.due,
            settled |-> c.settled]
  BY DEF Formed
<1> HIDE DEF c1
<1>2. c2 = [kind |-> c.kind, base |-> c.base, missing |-> m, todo |-> t, due |-> c.due,
            settled |-> c.settled]
  BY <1>1
<1> HIDE DEF c2
<1>3. c3 = [kind |-> c.kind, base |-> c.base, missing |-> m, todo |-> t, due |-> d,
            settled |-> c.settled]
  BY <1>2
<1> HIDE DEF c3
<1>4. c4 = [kind |-> c.kind, base |-> c.base, missing |-> m, todo |-> t, due |-> d, settled |-> f]
  BY <1>3
<1> HIDE DEF c4
<1>5. Formed(c4)
  BY <1>4 DEF Formed
<1>. QED
  BY <1>5 DEF c1, c2, c3, c4

LEMMA LookUpKeeps ==
  ASSUME IInv, NEW s \in Slots, LookUp(s)
  PROVE  IInv'
<1>1. UNCHANGED <<seeding, row>>
  BY DEF LookUp
<1>2. Seed!IInv' /\ Kept'
  BY <1>1, Parts, ScriptLeft, KeptKept
<1>3. PICK missing, due, settled :
        Asks(s, [call[s] EXCEPT !.missing = missing, !.todo = Tail(call[s].todo), !.due = due,
                                !.settled = settled])
  BY DEF LookUp
<1>4. RequestsFormed /\ Formed(call[s])
  BY Parts DEF LookUp, RequestsFormed, Formed
<1> DEFINE c == [call[s] EXCEPT !.missing = missing, !.todo = Tail(call[s].todo), !.due = due,
                                !.settled = settled]
<1>5. Formed(c)
  BY <1>4, LookedUp
<1>6. RequestsFormed'
  BY <1>3, <1>4, <1>5, Taken
<1>. QED
  BY <1>2, <1>6, PartsAfter

(***************************************************************************)
(* The rows                                                                 *)
(***************************************************************************)

(* A new row is a draft. *)
LEMMA CreateKeeps ==
  ASSUME IInv, NEW s \in Slots, Create(s)
  PROVE  IInv'
<1>1. PICK i, amount :
        /\ i \in Ids
        /\ row[i] = None
        /\ row' = [row EXCEPT ![i] =
                     [kind |-> call[s].kind, base |-> call[s].base, missing |-> call[s].missing,
                      amount |-> amount, status |-> "draft", settled |-> call[s].settled]]
  BY DEF Create
<1> DEFINE new == [kind |-> call[s].kind, base |-> call[s].base, missing |-> call[s].missing,
                   amount |-> amount, status |-> "draft", settled |-> call[s].settled]
<1>2. call[s] # NoCall /\ Asks(s, NoCall) /\ UNCHANGED <<seeding, class>>
  BY DEF Create
<1>3. Kept /\ RequestsFormed /\ Seed!IInv
  BY Parts
<1>4. row' = [j \in Ids |-> IF j = i THEN new ELSE row[j]]
  BY <1>1, <1>3 DEF Kept, RowsFormed
<1>5. new.kind \in Kinds /\ (new.kind = "payslip" => new.base \in Salaries)
  BY <1>2, <1>3 DEF RequestsFormed
<1>6. /\ new = [kind |-> new.kind, base |-> new.base, missing |-> new.missing,
               amount |-> new.amount, status |-> new.status, settled |-> new.settled]
      /\ new.status = "draft"
  OBVIOUS
<1> HIDE DEF new
<1>7. RowsSound'
  <2>1. "draft" \in Statuses
    BY DEF Statuses
  <2>. QED
    BY <1>3, <1>4, <1>5, <1>6, <2>1 DEF Kept, RowsSound
<1>8. RowsFormed'
  BY <1>3, <1>4, <1>6 DEF Kept, RowsFormed
<1>9. RequestsFormed'
  BY <1>2, <1>3, Taken
<1>10. Seed!IInv'
  BY <1>2, <1>3, ScriptLeft
<1>. QED
  BY <1>7, <1>8, <1>9, <1>10, PartsAfter DEF Kept

(* Confirming touches the status of one row, which is no payslip. *)
LEMMA ConfirmKeeps ==
  ASSUME IInv, NEW i \in Ids, Confirm(i)
  PROVE  IInv'
<1>1. /\ Exists(i)
      /\ row' = [row EXCEPT ![i].status = "confirmed"]
      /\ UNCHANGED <<seeding, class, call>>
  BY DEF Confirm
<1>2. Kept /\ RequestsFormed /\ Seed!IInv
  BY Parts
<1> DEFINE r == row[i]
           new == [r EXCEPT !.status = "confirmed"]
<1>3. r # None /\ r.kind # "payslip" /\ r.kind \in Kinds
  BY <1>1, <1>2 DEF Exists, Kept, RowsSound
<1>4. r = [kind |-> r.kind, base |-> r.base, missing |-> r.missing, amount |-> r.amount,
           status |-> r.status, settled |-> r.settled]
  BY <1>2, <1>3 DEF Kept, RowsFormed
<1>5. new = [kind |-> r.kind, base |-> r.base, missing |-> r.missing, amount |-> r.amount,
             status |-> "confirmed", settled |-> r.settled]
  BY <1>4
<1>6. row' = [j \in Ids |-> IF j = i THEN new ELSE row[j]]
  BY <1>1, <1>2 DEF Kept, RowsFormed
<1>7. /\ new.kind = r.kind /\ new.status = "confirmed"
      /\ new = [kind |-> new.kind, base |-> new.base, missing |-> new.missing,
                amount |-> new.amount, status |-> new.status, settled |-> new.settled]
  BY <1>5
<1> HIDE DEF new, r
<1>8. RowsSound'
  <2>1. "confirmed" \in Statuses
    BY DEF Statuses
  <2>. QED
    BY <1>2, <1>3, <1>6, <1>7, <2>1 DEF Kept, RowsSound
<1>9. RowsFormed'
  BY <1>2, <1>6, <1>7 DEF Kept, RowsFormed
<1>10. Seed!IInv' /\ RequestsFormed'
  BY <1>1, <1>2, ScriptLeft, RequestsKept
<1>. QED
  BY <1>8, <1>9, <1>10, PartsAfter DEF Kept

LEMMA StepKeeps == IInv /\ [Next]_vars => IInv'
<1>. SUFFICES ASSUME IInv, [Next]_vars
              PROVE  IInv'
  OBVIOUS
<1>0. Seed!IInv /\ RequestsFormed /\ Kept
  BY Parts
<1>1. ASSUME NEW s \in Slots,
             Compute(s) \/ ComputeIncomeTax(s) \/ Pay(s) \/ LookUp(s) \/ Create(s)
      PROVE  IInv'
  BY <1>1, RequestKeeps, LookUpKeeps, CreateKeeps
<1>2. ASSUME NEW i \in Ids, Confirm(i)
      PROVE  IInv'
  BY <1>2, ConfirmKeeps
<1>3. CASE UpdateClass
  <2>1. UNCHANGED <<seeding, call, row>>
    BY <1>3 DEF UpdateClass
  <2>. QED
    BY <1>0, <2>1, ScriptLeft, RequestsKept, KeptKept, PartsAfter
<1>4. CASE Seed!Next /\ UNCHANGED <<class, call, row>>
  <2>1. Seed!IInv'
    BY <1>0, <1>4, ScriptKeeps, RowsAreDistinct
  <2>. QED
    BY <1>0, <1>4, <2>1, RequestsKept, KeptKept, PartsAfter
<1>5. CASE UNCHANGED vars
  <2>1. UNCHANGED <<seeding, call, row>>
    BY <1>5 DEF vars
  <2>. QED
    BY <1>0, <2>1, ScriptLeft, RequestsKept, KeptKept, PartsAfter
<1>. QED
  BY <1>1, <1>2, <1>3, <1>4, <1>5 DEF Next

(***************************************************************************)
(* The sums: what a request comes to, whatever the script does meanwhile    *)
(***************************************************************************)

(* The rules of a payslip, one after the other. *)
LEMMA FourRules ==
  ASSUME NEW a, NEW b, NEW c, NEW d
  PROVE  <<a, b, c>> \o <<d>> = <<a, b, c, d>> /\ <<>> \o <<d>> = <<d>>
<1> DEFINE S == {a, b, c, d}
           p == <<a, b, c>>
           q == <<d>>
           r == <<a, b, c, d>>
<1>1. /\ p \in Seq(S) /\ Len(p) = 3 /\ p[1] = a /\ p[2] = b /\ p[3] = c
      /\ q \in Seq(S) /\ Len(q) = 1 /\ q[1] = d
      /\ r \in Seq(S) /\ Len(r) = 4 /\ r[1] = a /\ r[2] = b /\ r[3] = c /\ r[4] = d
      /\ <<>> \in Seq(S) /\ Len(<<>>) = 0
  OBVIOUS
<1> HIDE DEF S, p, q, r
<1>2. p \o q = r
  <2>0. /\ p \o q \in Seq(S) /\ Len(p \o q) = Len(p) + Len(q)
        /\ \A i \in 1..(Len(p) + Len(q)) :
             (p \o q)[i] = IF i <= Len(p) THEN p[i] ELSE q[i - Len(p)]
    <3>1. p \in Seq(S) /\ q \in Seq(S)
      BY <1>1
    <3>. QED
      BY <3>1, ConcatProperties, Zenon
  <2>1. /\ p \o q \in Seq(S) /\ Len(p \o q) = 4
        /\ \A i \in 1..4 : (p \o q)[i] = IF i <= 3 THEN p[i] ELSE q[i - 3]
    BY <1>1, <2>0
  <2>2. \A i \in 1..4 : (p \o q)[i] = r[i]
    <3>. TAKE i \in 1..4
    <3>1. i = 1 \/ i = 2 \/ i = 3 \/ i = 4
      OBVIOUS
    <3>. QED
      BY <1>1, <2>1, <3>1
  <2>. QED
    BY <1>1, <2>1, <2>2, SeqEqual
<1>3. <<>> \o q = q
  BY <1>1, ConcatEmptySeq
<1>. QED
  BY <1>2, <1>3 DEF p, q, r

LEMMA PayslipRestIs ==
  /\ PayslipRules(TRUE) = PayslipRest(0) /\ PayslipRules(FALSE) = PayslipRest(3)
  /\ \A n \in 0..2 : /\ PayslipRest(n) # <<>> /\ Head(PayslipRest(n)) = StatutoryRules[n + 1]
                     /\ Tail(PayslipRest(n)) = PayslipRest(n + 1)
  /\ PayslipRest(3) # <<>> /\ Head(PayslipRest(3)) = "WITHHOLDING_COMP_BRACKETS"
  /\ Tail(PayslipRest(3)) = <<>>
<1> DEFINE a == StatutoryRules[1]
           b == StatutoryRules[2]
           c == StatutoryRules[3]
           d == "WITHHOLDING_COMP_BRACKETS"
<1>1. StatutoryRules = <<a, b, c>>
  BY DEF StatutoryRules
<1>2. PayslipRules(TRUE) = <<a, b, c, d>> /\ PayslipRules(FALSE) = <<d>>
  <2>1. PayslipRules(TRUE) = StatutoryRules \o <<d>> /\ PayslipRules(FALSE) = <<>> \o <<d>>
    BY DEF PayslipRules
  <2> HIDE DEF a, b, c, d
  <2>2. StatutoryRules \o <<d>> = <<a, b, c, d>> /\ <<>> \o <<d>> = <<d>>
    BY <1>1, FourRules
  <2>. QED
    BY <2>1, <2>2
<1>3. /\ PayslipRest(0) = <<a, b, c, d>> /\ PayslipRest(1) = <<b, c, d>>
      /\ PayslipRest(2) = <<c, d>> /\ PayslipRest(3) = <<d>>
  BY DEF PayslipRest
<1> HIDE DEF a, b, c, d
<1>4. /\ Head(<<a, b, c, d>>) = a /\ Tail(<<a, b, c, d>>) = <<b, c, d>>
      /\ Head(<<b, c, d>>) = b /\ Tail(<<b, c, d>>) = <<c, d>>
      /\ Head(<<c, d>>) = c /\ Tail(<<c, d>>) = <<d>>
      /\ Head(<<d>>) = d /\ Tail(<<d>>) = <<>>
      /\ <<a, b, c, d>> # <<>> /\ <<b, c, d>> # <<>> /\ <<c, d>> # <<>> /\ <<d>> # <<>>
  OBVIOUS
<1>5. \A n \in 0..2 : /\ PayslipRest(n) # <<>> /\ Head(PayslipRest(n)) = StatutoryRules[n + 1]
                      /\ Tail(PayslipRest(n)) = PayslipRest(n + 1)
  <2>. TAKE n \in 0..2
  <2>1. n = 0 \/ n = 1 \/ n = 2
    OBVIOUS
  <2>2. a = StatutoryRules[1] /\ b = StatutoryRules[2] /\ c = StatutoryRules[3]
    BY DEF a, b, c
  <2>3. CASE n = 0
    <3>1. PayslipRest(n) = <<a, b, c, d>> /\ PayslipRest(n + 1) = <<b, c, d>> /\ n + 1 = 1
      <4>1. n + 1 = 1
        BY <2>3
      <4>. QED
        BY <1>3, <2>3, <4>1, Zenon
    <3>. QED
      BY <1>4, <2>2, <3>1, Zenon
  <2>4. CASE n = 1
    <3>1. PayslipRest(n) = <<b, c, d>> /\ PayslipRest(n + 1) = <<c, d>> /\ n + 1 = 2
      <4>1. n + 1 = 2
        BY <2>4
      <4>. QED
        BY <1>3, <2>4, <4>1, Zenon
    <3>. QED
      BY <1>4, <2>2, <3>1, Zenon
  <2>5. CASE n = 2
    <3>1. PayslipRest(n) = <<c, d>> /\ PayslipRest(n + 1) = <<d>> /\ n + 1 = 3
      <4>1. n + 1 = 3
        BY <2>5
      <4>. QED
        BY <1>3, <2>5, <4>1, Zenon
    <3>. QED
      BY <1>4, <2>2, <3>1, Zenon
  <2>. QED
    BY <2>1, <2>3, <2>4, <2>5
<1>6. d = "WITHHOLDING_COMP_BRACKETS"
  BY DEF d
<1>. QED
  BY <1>2, <1>3, <1>4, <1>5, <1>6

LEMMA AddedIs ==
  ASSUME NEW dues, NEW rule, NEW base, NEW settled, NEW x \in Adding(dues, rule, base, settled)
  PROVE  \E due \in dues : \E more \in More(rule, base, settled) : x = due + more
BY DEF Adding

LEMMA AddingIs ==
  ASSUME NEW dues, NEW rule, NEW base, NEW settled, NEW due \in dues,
         NEW more \in More(rule, base, settled)
  PROVE  due + more \in Adding(dues, rule, base, settled)
BY DEF Adding

LEMMA AddingGrows ==
  ASSUME NEW rule, NEW base, NEW whole \in BOOLEAN, NEW settled \in BOOLEAN,
         settled => whole, NEW some, NEW all \in SUBSET some
  PROVE  Adding(all, rule, base, whole) \subseteq Adding(some, rule, base, settled)
<1>1. More(rule, base, whole) \subseteq More(rule, base, settled)
  <2>1. Founds(rule, whole) \subseteq Founds(rule, settled)
    BY DEF Founds
  <2>. QED
    BY <2>1 DEF More
<1>. SUFFICES ASSUME NEW x \in Adding(all, rule, base, whole)
              PROVE  x \in Adding(some, rule, base, settled)
  OBVIOUS
<1>2. PICK due \in all : \E more \in More(rule, base, whole) : x = due + more
  BY AddedIs
<1>3. PICK more \in More(rule, base, whole) : x = due + more
  BY <1>2
<1>4. due \in some /\ more \in More(rule, base, settled)
  BY <1>1
<1>. QED
  BY <1>3, <1>4, AddingIs

LEMMA DuesGrow ==
  ASSUME NEW base, NEW whole \in BOOLEAN, NEW settled \in BOOLEAN, settled => whole
  PROVE  /\ \A n \in 0..3 : Contributed(n, base, whole) \subseteq Contributed(n, base, settled)
         /\ \A kind : \A n \in 0..3 :
              DuesOf(kind, base, n, whole) \subseteq DuesOf(kind, base, n, settled)
<1> DEFINE C(n, f) == Contributed(n, base, f)
<1>0. \A f \in BOOLEAN :
        /\ C(0, f) = {0} /\ C(1, f) = Adding(C(0, f), StatutoryRules[1], base, f)
        /\ C(2, f) = Adding(C(1, f), StatutoryRules[2], base, f)
        /\ C(3, f) = Adding(C(2, f), StatutoryRules[3], base, f)
  BY DEF Contributed
<1> HIDE DEF C
<1>1. C(0, whole) \subseteq C(0, settled)
  BY <1>0
<1>2. C(1, whole) \subseteq C(1, settled)
  <2>1. C(0, whole) \in SUBSET C(0, settled)
    BY <1>1
  <2>2. Adding(C(0, whole), StatutoryRules[1], base, whole)
          \subseteq Adding(C(0, settled), StatutoryRules[1], base, settled)
    BY <2>1, AddingGrows, Zenon
  <2>. QED
    BY <1>0, <2>2, Zenon
<1>3. C(2, whole) \subseteq C(2, settled)
  <2>1. C(1, whole) \in SUBSET C(1, settled)
    BY <1>2
  <2>2. Adding(C(1, whole), StatutoryRules[2], base, whole)
          \subseteq Adding(C(1, settled), StatutoryRules[2], base, settled)
    BY <2>1, AddingGrows, Zenon
  <2>. QED
    BY <1>0, <2>2, Zenon
<1>4. C(3, whole) \subseteq C(3, settled)
  <2>1. C(2, whole) \in SUBSET C(2, settled)
    BY <1>3
  <2>2. Adding(C(2, whole), StatutoryRules[3], base, whole)
          \subseteq Adding(C(2, settled), StatutoryRules[3], base, settled)
    BY <2>1, AddingGrows, Zenon
  <2>. QED
    BY <1>0, <2>2, Zenon
<1>5. \A n \in 0..3 : C(n, whole) \subseteq C(n, settled)
  <2>. TAKE n \in 0..3
  <2>1. n = 0 \/ n = 1 \/ n = 2 \/ n = 3
    OBVIOUS
  <2>. QED
    BY <1>1, <1>2, <1>3, <1>4, <2>1, Zenon
<1>6. ASSUME NEW kind, NEW n \in 0..3
      PROVE  DuesOf(kind, base, n, whole) \subseteq DuesOf(kind, base, n, settled)
  <2>1. CASE kind # "payslip"
    <3>1. Adding({0}, RuleOf[kind], base, whole) \subseteq Adding({0}, RuleOf[kind], base, settled)
      BY AddingGrows
    <3>. QED
      BY <2>1, <3>1 DEF DuesOf
  <2>2. CASE kind = "payslip"
    <3>1. C(n, whole) \subseteq C(n, settled)
      BY <1>5
    <3>2. Adding(C(n, whole), "WITHHOLDING_COMP_BRACKETS", base, whole)
            \subseteq Adding(C(n, settled), "WITHHOLDING_COMP_BRACKETS", base, settled)
      BY <3>1, AddingGrows
    <3>. QED
      BY <2>2, <3>2 DEF DuesOf, C
  <2>. QED
    BY <2>1, <2>2
<1>. QED
  BY <1>5, <1>6 DEF C

(* The rates a look-up finds: all of them once a run of the script has ended. *)
LookedUpRules == {RuleOf[t] : t \in Types} \cup ToSet(PayslipRules(TRUE))

LEMMA RulesAreLookedUp ==
  /\ \A t \in Types : RuleOf[t] \in LookedUpRules
  /\ \A n \in 1..3 : StatutoryRules[n] \in LookedUpRules
  /\ "WITHHOLDING_COMP_BRACKETS" \in LookedUpRules
<1>1. "WITHHOLDING_COMP_BRACKETS" \in ToSet(PayslipRules(TRUE))
      /\ \A n \in 1..3 : StatutoryRules[n] \in ToSet(PayslipRules(TRUE))
  <2> DEFINE a == StatutoryRules[1]
             b == StatutoryRules[2]
             c == StatutoryRules[3]
             d == "WITHHOLDING_COMP_BRACKETS"
  <2>0. PayslipRest(0) = <<a, b, c, d>>
    BY DEF PayslipRest
  <2>1. /\ PayslipRules(TRUE)[1] = a /\ PayslipRules(TRUE)[2] = b
        /\ PayslipRules(TRUE)[3] = c /\ PayslipRules(TRUE)[4] = d
        /\ DOMAIN PayslipRules(TRUE) = 1..4
    <3> HIDE DEF a, b, c, d
    <3>1. PayslipRules(TRUE) = <<a, b, c, d>>
      BY <2>0, PayslipRestIs, Zenon
    <3>2. /\ <<a, b, c, d>>[1] = a /\ <<a, b, c, d>>[2] = b /\ <<a, b, c, d>>[3] = c
          /\ <<a, b, c, d>>[4] = d /\ DOMAIN <<a, b, c, d>> = 1..4
      OBVIOUS
    <3>. QED
      BY <3>1, <3>2, Zenon
  <2>2. \A n \in 1..4 : PayslipRules(TRUE)[n] \in ToSet(PayslipRules(TRUE))
    BY <2>1 DEF ToSet
  <2>3. \A n \in 1..3 : n \in 1..4 /\ StatutoryRules[n] = PayslipRules(TRUE)[n]
    <3>. TAKE n \in 1..3
    <3>1. n = 1 \/ n = 2 \/ n = 3
      OBVIOUS
    <3>2. n \in 1..4
      BY <3>1
    <3>. QED
      BY <2>1, <3>1, <3>2, Zenon
  <2>4. 4 \in 1..4
    OBVIOUS
  <2>. QED
    BY <2>1, <2>2, <2>3, <2>4, Zenon
<1>. QED
  BY <1>1 DEF LookedUpRules

LEMMA Found ==
  ASSUME IInv, NEW rule \in LookedUpRules, NEW settled \in BOOLEAN, settled => finished
  PROVE  RatesFound(rule) \in Founds(rule, settled)
<1>1. RatesFound(rule) \subseteq AllRates(rule)
  BY DEF RatesFound, AllRates
<1>2. ASSUME finished PROVE RatesFound(rule) = AllRates(rule)
  <2>1. Seed!Rows \subseteq present
    BY <1>2 DEF IInv, Seed!IInv, Seed!FinishedIsComplete, Seed!Rows
  <2>2. RuleRow(rule) \in present /\ \A k \in DOMAIN Rates[rule] : RateRow(rule, k) \in present
    BY <2>1, RatesAreListed DEF LookedUpRules
  <2>. QED
    BY <2>2 DEF RatesFound, AllRates
<1>. QED
  BY <1>1, <1>2 DEF Founds

(***************************************************************************)
(* The sums are kept, action by action                                      *)
(***************************************************************************)

LEMMA NoneIsNoBase == \A kind : None \notin Asked(kind) /\ \A base \in Asked(kind) : base \in Int
<1>. TAKE kind
<1>0. /\ \A b \in Bases : b \in Nat
      /\ \A b \in Spent : b \in Nat
      /\ \A b \in Salaries : b \in Nat
      /\ None \notin Nat
  BY NumbersAssumption
<1>1. CASE kind = "payslip"
  BY <1>0, <1>1 DEF Asked
<1>2. CASE kind = "income_tax"
  <2>. SUFFICES ASSUME NEW base \in Asked(kind) PROVE base \in Nat
    BY <1>0
  <2>1. PICK g \in Bases, d \in Spent : base = IF g > d THEN g - d ELSE 0
    BY <1>2 DEF Asked
  <2>. QED
    BY <1>0, <2>1
<1>3. CASE kind # "payslip" /\ kind # "income_tax"
  BY <1>0, <1>3 DEF Asked
<1>. QED
  BY <1>1, <1>2, <1>3

LEMMA TypesAreNoPayslips == \A t \in Types : t # "payslip"
BY DEF Types, FlatRuleOf, GraduatedRuleOf

(* A request looked up one rule further. *)
Further(x, c, missing, due, settled) ==
  /\ x.kind = c.kind /\ x.base = c.base /\ x.missing = missing /\ x.todo = Tail(c.todo)
  /\ x.due = due /\ x.settled = settled

LEMMA FurtherIs ==
  ASSUME NEW c, Formed(c), NEW m, NEW d, NEW f
  PROVE  Further([c EXCEPT !.missing = m, !.todo = Tail(c.todo), !.due = d, !.settled = f],
                 c, m, d, f)
<1> DEFINE t == Tail(c.todo)
           c1 == [c EXCEPT !.missing = m]
           c2 == [c1 EXCEPT !.todo = t]
           c3 == [c2 EXCEPT !.due = d]
           c4 == [c3 EXCEPT !.settled = f]
<1> HIDE DEF t
<1>1. c1 = [kind |-> c.kind, base |-> c.base, missing |-> m, todo |-> c.todo, due |-> c.due,
            settled |-> c.settled]
  BY DEF Formed
<1> HIDE DEF c1
<1>2. c2 = [kind |-> c.kind, base |-> c.base, missing |-> m, todo |-> t, due |-> c.due,
            settled |-> c.settled]
  BY <1>1
<1> HIDE DEF c2
<1>3. c3 = [kind |-> c.kind, base |-> c.base, missing |-> m, todo |-> t, due |-> d,
            settled |-> c.settled]
  BY <1>2
<1> HIDE DEF c3
<1>4. c4 = [kind |-> c.kind, base |-> c.base, missing |-> m, todo |-> t, due |-> d, settled |-> f]
  BY <1>3
<1> HIDE DEF c4
<1>5. Further(c4, c, m, d, f)
  BY <1>4 DEF Further, t
<1>. QED
  BY <1>5 DEF c1, c2, c3, c4, t

(* What a look-up adds to the dues. *)
Adds(c, found, due) ==
  due \in IF found = {} \/ c.base = None THEN {0}
          ELSE UNION {Rounded(h) : h \in Amounts(Head(c.todo), c.base, found)}

LEMMA FurtherSums ==
  ASSUME IInv, NEW c, Formed(c), DuesSoFar(c), c.todo # <<>>, NEW x, NEW due, NEW missing,
         NEW settled \in BOOLEAN, settled <=> c.settled /\ finished,
         missing \in {c.missing, c.missing \cup {Head(c.todo)}},
         Adds(c, RatesFound(Head(c.todo)), due),
         Further(x, c, missing, c.due + due, settled)
  PROVE  DuesSoFar(x)
<1> DEFINE rule == Head(c.todo)
           n == Contributions(c)
<1>1. /\ x.kind = c.kind /\ x.base = c.base /\ x.missing = missing /\ x.todo = Tail(c.todo)
      /\ x.due = c.due + due /\ x.settled = settled /\ c.settled \in BOOLEAN
      /\ settled => c.settled
      /\ "base" \in c.missing => "base" \in x.missing
      /\ "base" \in x.missing \/ x.base \in Asked(x.kind)
  BY DEF Further, DuesSoFar
<1>2. ASSUME rule \in LookedUpRules, c.base \in Asked(c.kind)
      PROVE  due \in More(rule, c.base, settled)
  <2>1. RatesFound(rule) \in Founds(rule, settled)
    BY <1>2, Found
  <2>2. c.base # None
    BY <1>2, NoneIsNoBase
  <2>3. due \in DueFrom(rule, c.base, RatesFound(rule))
    BY <2>2 DEF Adds, DueFrom
  <2>. QED
    BY <2>1, <2>3 DEF More
<1> HIDE DEF rule
<1>3. CASE c.kind # "payslip" /\ "base" \in c.missing
  BY <1>1, <1>3 DEF DuesSoFar
<1>4. CASE c.kind # "payslip" /\ "base" \notin c.missing /\ c.todo = <<RuleOf[c.kind]>> /\ c.due = 0
  <2>1. rule = RuleOf[c.kind] /\ Tail(c.todo) = <<>>
    BY <1>4 DEF rule
  <2>2. c.kind \in Types
    BY <1>4 DEF Formed, Kinds
  <2>3. rule \in LookedUpRules /\ c.base \in Asked(c.kind)
    BY <1>4, <2>1, <2>2, RulesAreLookedUp DEF DuesSoFar
  <2>4. c.due + due \in Adding({0}, rule, c.base, settled)
    BY <1>2, <1>4, <2>3, AddingIs
  <2>5. c.due + due \in DuesOf(c.kind, c.base, Contributions(x), settled)
    BY <1>4, <2>1, <2>4 DEF DuesOf
  <2>. QED
    BY <1>1, <2>1, <2>5 DEF DuesSoFar
<1>5. ASSUME c.kind = "payslip", NEW k \in 3 - n..3, c.todo = PayslipRest(k),
             c.due \in Contributed(IF k = 3 THEN n ELSE k, c.base, c.settled)
      PROVE  DuesSoFar(x)
  <2>1. c.base \in Asked(c.kind) /\ n \in {0, 3} /\ k \in 0..3
    BY <1>5 DEF Formed, Asked, Contributions
  <2>2. PICK m \in 0..3 : m = IF k = 3 THEN n ELSE k
    BY <2>1
  <2>3. c.due \in Contributed(m, c.base, settled)
    BY <1>1, <1>5, <2>2, DuesGrow
  <2>4. rule = (IF k = 3 THEN "WITHHOLDING_COMP_BRACKETS" ELSE StatutoryRules[k + 1])
        /\ Tail(c.todo) = (IF k = 3 THEN <<>> ELSE PayslipRest(k + 1))
    <3>1. CASE k = 3
      BY <1>5, <3>1, PayslipRestIs DEF rule
    <3>2. CASE k # 3
      <4>1. k \in 0..2
        BY <2>1, <3>2
      <4>. QED
        BY <1>5, <3>2, <4>1, PayslipRestIs DEF rule
    <3>. QED
      BY <3>1, <3>2
  <2>5. rule \in LookedUpRules /\ rule # "numbers"
    <3>1. CASE k = 3
      BY <2>4, <3>1, RulesAreLookedUp
    <3>2. CASE k # 3
      <4>1. k + 1 \in 1..3
        BY <2>1, <3>2
      <4>2. \A i \in 1..3 : StatutoryRules[i] # "numbers"
        BY DEF StatutoryRules
      <4>. QED
        BY <2>4, <3>2, <4>1, <4>2, RulesAreLookedUp
    <3>. QED
      BY <3>1, <3>2
  <2>6. Contributions(x) = n
    BY <1>1, <2>5 DEF Contributions, rule
  <2>7. c.due + due \in Adding(Contributed(m, c.base, settled), rule, c.base, settled)
    <3>1. due \in More(rule, c.base, settled)
      BY <1>2, <2>1, <2>5
    <3>. QED
      BY <2>3, <3>1, AddingIs
  <2>8. CASE k # 3
    <3>1. n = 3 /\ m = k /\ k \in 0..2 /\ k + 1 \in 3 - n..3
      BY <2>1, <2>2, <2>8, <1>5
    <3>2. Contributed(k + 1, c.base, settled)
            = Adding(Contributed(k, c.base, settled), StatutoryRules[k + 1], c.base, settled)
      <4>1. k = 0 \/ k = 1 \/ k = 2
        BY <3>1
      <4>2. CASE k = 0
        BY <4>2 DEF Contributed
      <4>3. CASE k = 1
        BY <4>3 DEF Contributed
      <4>4. CASE k = 2
        BY <4>4 DEF Contributed
      <4>. QED
        BY <4>1, <4>2, <4>3, <4>4
    <3>3. PICK l \in 3 - n..3 : l = k + 1
      BY <3>1
    <3>4. x.due \in Contributed(IF l = 3 THEN n ELSE l, c.base, settled)
      BY <1>1, <2>4, <2>7, <2>8, <3>1, <3>2, <3>3
    <3>5. x.todo = PayslipRest(l)
      BY <1>1, <2>4, <2>8, <3>3
    <3>. QED
      BY <1>1, <1>5, <2>6, <3>3, <3>4, <3>5 DEF DuesSoFar
  <2>9. CASE k = 3
    <3>1. x.due \in DuesOf(c.kind, c.base, n, settled)
      BY <1>1, <1>5, <2>2, <2>4, <2>7, <2>9 DEF DuesOf
    <3>2. x.todo = <<>>
      BY <1>1, <2>4, <2>9
    <3>. QED
      BY <1>1, <2>6, <3>1, <3>2 DEF DuesSoFar
  <2>. QED
    BY <2>8, <2>9
<1>. QED
  BY <1>3, <1>4, <1>5 DEF DuesSoFar

LEMMA CallSums ==
  ASSUME RequestsFormed, SumsOK, NEW s \in Slots, NEW x, Asks(s, x), x # NoCall => DuesSoFar(x),
         row' = row
  PROVE  SumsOK'
<1>1. call = [t \in Slots |-> call[t]]
  BY DEF RequestsFormed
<1>2. call' = [t \in Slots |-> IF t = s THEN x ELSE call[t]]
  BY <1>1 DEF Asks
<1>3. \A t \in Slots : call'[t] # NoCall => DuesSoFar(call'[t])
  BY <1>2 DEF SumsOK
<1>4. \A i \in Ids : HasAmount(i)' => AmountOK(row'[i])
  BY DEF SumsOK, HasAmount
<1>. QED
  BY <1>3, <1>4 DEF SumsOK, DuesSoFar, AmountOK

LEMMA LookUpSums ==
  ASSUME IInv, SumsOK, NEW s \in Slots, LookUp(s)
  PROVE  SumsOK'
<1>1. /\ RequestsFormed /\ Formed(call[s]) /\ DuesSoFar(call[s]) /\ call[s].todo # <<>>
      /\ row' = row /\ Seed!TypeOK
  BY Parts DEF LookUp, RequestsFormed, Formed, SumsOK, Seed!IInv
<1>2. PICK c : c = call[s]
  OBVIOUS
<1> DEFINE rule == Head(c.todo)
           noted == IF RatesFound(rule) = {} THEN c.missing \cup {rule} ELSE c.missing
<1>3. noted \in {c.missing, c.missing \cup {rule}}
  OBVIOUS
<1>4. PICK due \in IF RatesFound(rule) = {} \/ c.base = None THEN {0}
                   ELSE UNION {Rounded(h) : h \in Amounts(rule, c.base, RatesFound(rule))} :
        Asks(s, [c EXCEPT !.missing = noted, !.todo = Tail(c.todo), !.due = c.due + due,
                          !.settled = c.settled /\ finished])
  BY <1>2, Zenon DEF LookUp
<1>5. Adds(c, RatesFound(rule), due)
  BY <1>4, Zenon DEF Adds
<1> HIDE DEF noted
<1>6. PICK settled \in BOOLEAN :
        /\ settled <=> c.settled /\ finished
        /\ Asks(s, [c EXCEPT !.missing = noted, !.todo = Tail(c.todo), !.due = c.due + due,
                             !.settled = settled])
  <2>1. (c.settled /\ finished) \in BOOLEAN
    OBVIOUS
  <2>2. Asks(s, [c EXCEPT !.missing = noted, !.todo = Tail(c.todo), !.due = c.due + due,
                          !.settled = (c.settled /\ finished)])
    BY <1>4
  <2>. QED
    BY <2>1, <2>2
<1> DEFINE x == [c EXCEPT !.missing = noted, !.todo = Tail(c.todo), !.due = c.due + due,
                          !.settled = settled]
<1>7. Asks(s, x) /\ Further(x, c, noted, c.due + due, settled)
  BY <1>1, <1>2, <1>6, FurtherIs
<1> HIDE DEF x
<1>8. DuesSoFar(x)
  BY <1>1, <1>2, <1>3, <1>5, <1>6, <1>7, FurtherSums
<1>. QED
  BY <1>1, <1>7, <1>8, CallSums

LEMMA ComputeSums ==
  ASSUME IInv, SumsOK, NEW s \in Slots, Compute(s)
  PROVE  SumsOK'
<1>1. PICK type \in Types \ {"income_tax"}, base \in Bases \cup {None} :
        Asks(s, Request(type, base, MissingBase(base) \cup Mismatch(type), <<RuleOf[type]>>))
  BY DEF Compute
<1>2. PICK x : x = Request(type, base, MissingBase(base) \cup Mismatch(type), <<RuleOf[type]>>)
  OBVIOUS
<1>3. /\ x.kind = type /\ x.base = base /\ MissingBase(base) \subseteq x.missing
      /\ x.todo = <<RuleOf[type]>> /\ x.due = 0 /\ x.settled \in BOOLEAN
  BY <1>2 DEF Request, MissingBase
<1>4. type # "payslip" /\ type # "income_tax"
  BY TypesAreNoPayslips
<1>5. "base" \in x.missing \/ x.base \in Asked(x.kind)
  BY <1>3, <1>4 DEF MissingBase, Asked
<1>6. DuesSoFar(x)
  BY <1>3, <1>4, <1>5 DEF DuesSoFar
<1>7. row' = row /\ RequestsFormed
  BY Parts DEF Compute
<1>. QED
  BY <1>1, <1>2, <1>6, <1>7, CallSums

LEMMA ComputeIncomeTaxSums ==
  ASSUME IInv, SumsOK, NEW s \in Slots, ComputeIncomeTax(s)
  PROVE  SumsOK'
<1>1. PICK gross \in Bases \cup {None}, spent \in Spent :
        Asks(s, IF gross = None THEN Request("income_tax", None, {"base"}, <<>>)
                ELSE Request("income_tax", IF gross > spent THEN gross - spent ELSE 0, {},
                             <<RuleOf["income_tax"]>>))
  BY DEF ComputeIncomeTax
<1>2. row' = row /\ RequestsFormed
  BY Parts DEF ComputeIncomeTax
<1>3. CASE gross = None
  <2>1. PICK x : x = Request("income_tax", None, {"base"}, <<>>)
    OBVIOUS
  <2>2. DuesSoFar(x)
    BY <2>1 DEF Request, DuesSoFar
  <2>. QED
    BY <1>1, <1>2, <1>3, <2>1, <2>2, CallSums
<1>4. CASE gross # None
  <2>1. PICK base : base = IF gross > spent THEN gross - spent ELSE 0
    OBVIOUS
  <2>2. base \in Asked("income_tax")
    BY <1>4, <2>1 DEF Asked
  <2>3. PICK x : x = Request("income_tax", base, {}, <<RuleOf["income_tax"]>>)
    OBVIOUS
  <2>4. /\ x.kind = "income_tax" /\ x.base = base /\ x.todo = <<RuleOf["income_tax"]>>
        /\ x.due = 0 /\ x.settled \in BOOLEAN
    BY <2>3 DEF Request
  <2>5. DuesSoFar(x)
    BY <2>2, <2>4 DEF DuesSoFar
  <2>6. Asks(s, x)
    BY <1>1, <1>4, <2>1, <2>3
  <2>. QED
    BY <1>2, <2>5, <2>6, CallSums
<1>. QED
  BY <1>3, <1>4

LEMMA PaySums ==
  ASSUME IInv, SumsOK, NEW s \in Slots, Pay(s)
  PROVE  SumsOK'
<1>1. PICK salary \in Salaries, numbered \in BOOLEAN :
        Asks(s, Request("payslip", salary, IF numbered THEN {} ELSE {"numbers"},
                        PayslipRules(numbered)))
  BY DEF Pay
<1>2. PICK missing, todo : /\ missing = IF numbered THEN {} ELSE {"numbers"}
                           /\ todo = IF numbered THEN PayslipRest(0) ELSE PayslipRest(3)
  OBVIOUS
<1>3. todo = PayslipRules(numbered)
  BY <1>2, PayslipRestIs
<1>4. PICK x : x = Request("payslip", salary, missing, todo)
  OBVIOUS
<1>5. /\ x.kind = "payslip" /\ x.base = salary /\ x.missing = missing /\ x.todo = todo
      /\ x.due = 0 /\ x.settled \in BOOLEAN
  BY <1>4 DEF Request
<1>6. PICK k \in 3 - Contributions(x)..3 :
        k = (IF numbered THEN 0 ELSE 3) /\ (IF k = 3 THEN Contributions(x) ELSE k) = 0
  BY <1>2, <1>5 DEF Contributions
<1>7. x.todo = PayslipRest(k) /\ x.due \in Contributed(0, x.base, x.settled)
  BY <1>2, <1>5, <1>6 DEF Contributed
<1>8. x.base \in Asked(x.kind)
  BY <1>5 DEF Asked
<1>9. DuesSoFar(x)
  BY <1>5, <1>6, <1>7, <1>8 DEF DuesSoFar
<1>10. row' = row /\ RequestsFormed
  BY Parts DEF Pay
<1>. QED
  BY <1>1, <1>2, <1>3, <1>4, <1>9, <1>10, CallSums

(* Whatever leaves the requests alone, and changes no amount. *)
SameSum(r, t) == r.kind = t.kind /\ r.base = t.base /\ r.missing = t.missing
                 /\ r.amount = t.amount /\ r.settled = t.settled

LEMMA RowSums ==
  ASSUME SumsOK, call' = call,
         \A i \in Ids : row'[i] # None => row[i] # None /\ SameSum(row'[i], row[i])
  PROVE  SumsOK'
<1>1. \A s \in Slots : call'[s] # NoCall => DuesSoFar(call'[s])
  BY DEF SumsOK
<1>2. ASSUME NEW i \in Ids, row'[i] # None, row'[i].amount # None
      PROVE  AmountOK(row'[i])
  <2>1. HasAmount(i) /\ SameSum(row'[i], row[i])
    BY <1>2 DEF HasAmount, SameSum
  <2>2. AmountOK(row[i])
    BY <2>1 DEF SumsOK
  <2>. QED
    BY <2>1, <2>2 DEF SameSum, AmountOK, Contributions
<1>. QED
  BY <1>1, <1>2 DEF SumsOK, DuesSoFar, AmountOK, HasAmount

(* The new row's amount is what its request came to. *)
LEMMA CreateSums ==
  ASSUME IInv, SumsOK, NEW s \in Slots, Create(s)
  PROVE  SumsOK'
<1>1. PICK c : c = call[s]
  OBVIOUS
<1>2. PICK amount : amount = IF c.kind = "payslip" THEN NetPay(c) ELSE ResultOf(c)
  OBVIOUS
<1>3. PICK r : r = [kind |-> c.kind, base |-> c.base, missing |-> c.missing,
                    amount |-> amount, status |-> "draft", settled |-> c.settled]
  OBVIOUS
<1>4. PICK i \in Ids : row' = [row EXCEPT ![i] = r]
  BY <1>1, <1>2, <1>3 DEF Create
<1>5. /\ c # NoCall /\ c.todo = <<>> /\ Asks(s, NoCall)
      /\ Formed(c) /\ DuesSoFar(c) /\ RowsFormed /\ RequestsFormed
  BY <1>1, Parts DEF Create, Kept, RequestsFormed, Formed, SumsOK
<1>6. /\ r.kind = c.kind /\ r.base = c.base /\ r.missing = c.missing
      /\ r.amount = amount /\ r.settled = c.settled
  BY <1>3
<1>7. row' = [j \in Ids |-> IF j = i THEN r ELSE row[j]]
  BY <1>4, <1>5 DEF RowsFormed
<1>8. ASSUME amount # None PROVE AmountOK(r)
  <2>1. "base" \notin c.missing \/ c.kind = "payslip"
    BY <1>2, <1>8 DEF ResultOf
  <2>2. \A n \in 0..3 : PayslipRest(n) # <<>>
    <3>. TAKE n \in 0..3
    <3>1. n \in 0..2 \/ n = 3
      OBVIOUS
    <3>. QED
      BY <3>1, PayslipRestIs
  <2>3. /\ c.kind = "payslip" => c.base \in Asked(c.kind)
        /\ Contributions(c) \in {0, 3}
    BY <1>5 DEF Formed, Asked, Contributions
  <2>4. \A n \in 3 - Contributions(c)..3 : c.todo # PayslipRest(n)
    <3>. TAKE n \in 3 - Contributions(c)..3
    <3>1. n \in 0..3
      BY <2>3
    <3>. QED
      BY <1>5, <2>2, <3>1
  <2>5. c.todo # <<RuleOf[c.kind]>>
    BY <1>5
  <2>6. c.base \in Asked(c.kind) /\ c.settled \in BOOLEAN
        /\ c.due \in DuesOf(c.kind, c.base, Contributions(c), c.settled)
    BY <1>5, <2>1, <2>3, <2>4, <2>5 DEF DuesSoFar
  <2>7. Contributions(r) = Contributions(c)
    BY <1>6 DEF Contributions
  <2>8. r.amount = IF r.kind = "payslip" THEN 100 * r.base - c.due ELSE c.due
    BY <1>2, <1>6, <1>8 DEF NetPay, ResultOf
  <2>. QED
    BY <1>6, <2>6, <2>7, <2>8 DEF AmountOK
<1>9. \A t \in Slots : call'[t] # NoCall => DuesSoFar(call'[t])
  <2>1. call' = [t \in Slots |-> IF t = s THEN NoCall ELSE call[t]]
    BY <1>5 DEF Asks, RequestsFormed
  <2>. QED
    BY <2>1 DEF SumsOK
<1>10. \A j \in Ids : row'[j] # None /\ row'[j].amount # None => AmountOK(row'[j])
  BY <1>6, <1>7, <1>8 DEF SumsOK, HasAmount
<1>. QED
  BY <1>9, <1>10 DEF SumsOK, DuesSoFar, AmountOK, HasAmount

LEMMA ConfirmSums ==
  ASSUME IInv, SumsOK, NEW i \in Ids, Confirm(i)
  PROVE  SumsOK'
<1>1. /\ Exists(i) /\ row' = [row EXCEPT ![i].status = "confirmed"] /\ call' = call
      /\ RowsFormed
  BY Parts DEF Confirm, Kept
<1> DEFINE r == row[i]
           new == [r EXCEPT !.status = "confirmed"]
<1>2. r = [kind |-> r.kind, base |-> r.base, missing |-> r.missing, amount |-> r.amount,
           status |-> r.status, settled |-> r.settled]
  BY <1>1 DEF Exists, RowsFormed
<1>3. new = [kind |-> r.kind, base |-> r.base, missing |-> r.missing, amount |-> r.amount,
             status |-> "confirmed", settled |-> r.settled]
  BY <1>2
<1>4. row' = [j \in Ids |-> IF j = i THEN new ELSE row[j]]
  BY <1>1 DEF RowsFormed
<1>5. SameSum(new, r) /\ r # None
  BY <1>1, <1>3 DEF SameSum, Exists
<1> HIDE DEF new
<1>6. \A j \in Ids : row'[j] # None => row[j] # None /\ SameSum(row'[j], row[j])
  BY <1>4, <1>5 DEF SameSum
<1>. QED
  BY <1>1, <1>6, RowSums

LEMMA StepSums == IInv /\ SumsOK /\ [Next]_vars => SumsOK'
<1>. SUFFICES ASSUME IInv, SumsOK, [Next]_vars
              PROVE  SumsOK'
  OBVIOUS
<1>1. ASSUME NEW s \in Slots,
             Compute(s) \/ ComputeIncomeTax(s) \/ Pay(s) \/ LookUp(s) \/ Create(s)
      PROVE  SumsOK'
  BY <1>1, ComputeSums, ComputeIncomeTaxSums, PaySums, LookUpSums, CreateSums
<1>2. ASSUME NEW i \in Ids, Confirm(i)
      PROVE  SumsOK'
  BY <1>2, ConfirmSums
<1>3. CASE UNCHANGED <<call, row>>
  BY <1>3, RowSums DEF SameSum
<1>. QED
  BY <1>1, <1>2, <1>3 DEF Next, UpdateClass, vars

LEMMA SumsInductive == Spec => [](IInv /\ SumsOK)
<1>1. Init => SumsOK
  BY DEF Init, SumsOK, HasAmount
<1>. QED
  BY <1>1, Initially, StepKeeps, StepSums, PTL DEF Spec

(* What was charged is one of the sums the engine may come to. *)
LEMMA ChargedIsSum ==
  ASSUME IInv, SumsOK, EngineIsRight, NEW i \in Ids, HasAmount(i)
  PROVE  /\ 2 * Charged(i) <= Lawful(i) + 1
         /\ row[i].settled => 2 * Charged(i) - Lawful(i) \in {-1, 0, 1}
<1>1. PICK kind, base, n, settled :
        /\ kind = row[i].kind /\ base = row[i].base /\ n = Contributions(row[i])
        /\ settled = row[i].settled
  OBVIOUS
<1>2. AmountOK(row[i]) /\ kind \in Kinds /\ n \in {0, 3}
  BY <1>1, Parts DEF SumsOK, HasAmount, Kept, RowsSound, Contributions
<1>3. settled \in BOOLEAN /\ base \in Asked(kind) /\ base \in Int
  BY <1>1, <1>2, NoneIsNoBase DEF AmountOK
<1>4. PICK due \in DuesOf(kind, base, n, settled) :
        row[i].amount = IF kind = "payslip" THEN 100 * base - due ELSE due
  BY <1>1, <1>2 DEF AmountOK
<1>5. /\ due \in Int /\ 2 * due <= Owed(kind, base, n) + 1
      /\ settled => 2 * due - Owed(kind, base, n) \in {-1, 0, 1}
  BY <1>2, <1>3, <1>4 DEF EngineIsRight
<1>6. Charged(i) = due
  BY <1>1, <1>3, <1>4, <1>5 DEF Charged
<1>7. Lawful(i) = Owed(kind, base, n)
  BY <1>1 DEF Lawful
<1>. QED
  BY <1>1, <1>5, <1>6, <1>7

(* Once the script has come to its end, every amount is the schedule's to the
   centavo, if the engine's sums are: whatever ran, stopped or was confirmed in
   between, no amount is made of other rules, bases or rates. *)
THEOREM SeededAmounts == ASSUME EngineIsRight PROVE Spec => []SeededIsExact
<1>1. IInv /\ SumsOK => SeededIsExact
  BY ChargedIsSum DEF SeededIsExact
<1>. QED
  BY <1>1, SumsInductive, PTL

(* Nor is an amount ever more than the schedule's, whichever rates were there. *)
THEOREM NothingOvercharged == ASSUME EngineIsRight PROVE Spec => []NeverOvercharged
<1>1. IInv /\ SumsOK => NeverOvercharged
  BY ChargedIsSum DEF NeverOvercharged, IInv
<1>. QED
  BY <1>1, SumsInductive, PTL
=============================================================================
