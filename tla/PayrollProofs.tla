---------------------------- MODULE PayrollProofs ----------------------------
(* Proofs about Payroll for every set of companies, employees and runs.       *)
EXTENDS Payroll, TLAPS

-----------------------------------------------------------------------------
LEMMA NoCallTyped == NoCall \in Call
  BY DEF NoCall, Call, Stages

(* A request in flight is typed, and about an existing run. *)
LEMMA RequestTyped ==
  ASSUME IInv, NEW s \in Slots, ~At(s, "idle")
  PROVE  /\ call[s] \in Call /\ call[s].run \in Runs /\ company[call[s].run] \in Companies
  BY DEF IInv, TypeOK, Call, At

(* On a run that is not shared no other request is in flight. *)
LEMMA AloneOnRun ==
  ASSUME IInv, NEW s \in Slots, ~At(s, "idle"), call[s].run \notin shared,
         NEW t \in Slots, call[t].run = call[s].run
  PROVE  t = s
  BY DEF IInv, RequestHolds

(* Every row keeps its company, and employees keep what errors depend on. *)
RowsKept ==
  /\ \A e \in Employees : employer[e] # None =>
       employer'[e] = employer[e] /\ numbered'[e] = numbered[e]
  /\ \A r \in Runs : company[r] # None =>
       company'[r] = company[r] /\ covered'[r] = covered[r]

(* What is known of payslips is about employees and runs that exist. *)
LEMMA ErrorsKept ==
  ASSUME IInv, RowsKept, NEW r \in Runs, NEW e \in Employees, payslips[r][e] > 0
  PROVE  HasErrors(r, e)' <=> HasErrors(r, e)
  BY NoRowAssumption DEF IInv, OwnStaffOnly, TypeOK, RowsKept, HasErrors

(* A step that only adds a row. *)
LEMMA RowsStep ==
  ASSUME IInv, RowsKept, UNCHANGED <<status, payslips, call, shared>>, TypeOK'
  PROVE  IInv'
  <1> USE DEF IInv
  <1>1. OwnStaffOnly'
    <2>1. ASSUME NEW r \in Runs, NEW e \in Employees, payslips[r][e] > 0
          PROVE  company'[r] # None /\ employer'[e] = company'[r]
      BY <2>1 DEF OwnStaffOnly, RowsKept, TypeOK
    <2>2. ASSUME NEW s \in Slots, NEW e \in call[s].todo
          PROVE  employer'[e] = company'[call[s].run]
      <3>1. ~At(s, "idle")
        BY <2>2 DEF TypeOK, NoCall
      <3>2. /\ e \in Employees /\ employer[e] = company[call[s].run]
            /\ call[s].run \in Runs /\ company[call[s].run] \in Companies
        BY <2>2, <3>1, RequestTyped DEF OwnStaffOnly, Call
      <3> QED BY <3>2, NoRowAssumption DEF RowsKept
    <2> QED BY <2>1, <2>2 DEF OwnStaffOnly
  <1>2. CleanUnlessShared'
    BY ErrorsKept DEF CleanUnlessShared, CleanRun, SinglePayslips
  <1>3. ASSUME NEW s \in Slots
        PROVE  RequestHolds(s)'
    BY ErrorsKept, RequestTyped DEF RequestHolds, At, NoBlockingErrors
  <1> QED BY <1>1, <1>2, <1>3

(* A step of one request that adds no payslip and finalizes nothing. *)
LEMMA QuietStep ==
  ASSUME IInv, UNCHANGED <<staff, runs, payslips>>, NEW s \in Slots, NEW k \in Call,
         call' = [call EXCEPT ![s] = k], TypeOK',
         shared \subseteq shared',
         \A r \in Runs : status'[r] = "finalized" => status[r] = "finalized",
         \A e \in k.todo : employer[e] = company[k.run],
         RequestHolds(s)',
         \A t \in Slots \ {s} : call[t].run = k.run => k.run = None \/ k.run \in shared'
  PROVE  IInv'
  <1> USE DEF IInv, staff, runs
  <1>1. call'[s] = k /\ \A t \in Slots \ {s} : call'[t] = call[t]
    BY DEF TypeOK
  <1>2. OwnStaffOnly'
    BY <1>1 DEF OwnStaffOnly
  <1>3. CleanUnlessShared'
    BY DEF CleanUnlessShared, CleanRun, SinglePayslips, HasErrors
  <1>4. ASSUME NEW t \in Slots, t # s
        PROVE  RequestHolds(t)'
    <2> SUFFICES ASSUME call[t].at # "idle", call[t].run \notin shared'
                 PROVE  /\ \A q \in Slots : call'[q].run = call[t].run => q = t
                        /\ call[t].at \in Computing => status'[call[t].run] # "finalized"
                        /\ call[t].at = "paying" =>
                             \A e \in call[t].todo : payslips[call[t].run][e] = 0
                        /\ call[t].at = "finalizing" => NoBlockingErrors(call[t].run)'
      BY <1>1, <1>4 DEF RequestHolds, At
    <2>1. RequestHolds(t) /\ call[t].run \in Runs /\ call[t].run # None
      BY RequestTyped, NoRowAssumption DEF At
    <2>2. \A q \in Slots : call'[q].run = call[t].run => q = t
      BY <1>1, <1>4, <2>1 DEF RequestHolds, At
    <2>3. call[t].at \in Computing => status'[call[t].run] # "finalized"
      BY <2>1 DEF RequestHolds, At
    <2>4. call[t].at = "finalizing" => NoBlockingErrors(call[t].run)'
      BY <1>1, <1>4, <2>1 DEF RequestHolds, At, NoBlockingErrors, HasErrors
    <2> QED BY <2>1, <2>2, <2>3, <2>4 DEF RequestHolds, At
  <1> QED BY <1>1, <1>2, <1>3, <1>4

-----------------------------------------------------------------------------
(* Rows *)

LEMMA CreateEmployeeKeepsIInv ==
  ASSUME IInv, NEW e \in Employees, CreateEmployee(e)
  PROVE  IInv'
  <1>1. PICK c \in Companies, n \in BOOLEAN :
          /\ employer[e] = None
          /\ employer' = [employer EXCEPT ![e] = c] /\ numbered' = [numbered EXCEPT ![e] = n]
          /\ UNCHANGED <<runs, status, payslips, call, shared>>
    BY DEF CreateEmployee
  <1>2. RowsKept
    BY <1>1 DEF RowsKept, runs, IInv, TypeOK
  <1>3. TypeOK'
    BY <1>1 DEF IInv, TypeOK, runs, At
  <1> QED BY <1>1, <1>2, <1>3, RowsStep

LEMMA CreatePayrollRunKeepsIInv ==
  ASSUME IInv, NEW r \in Runs, CreatePayrollRun(r)
  PROVE  IInv'
  <1>1. PICK c \in Companies, k \in BOOLEAN :
          /\ company[r] = None
          /\ company' = [company EXCEPT ![r] = c] /\ covered' = [covered EXCEPT ![r] = k]
          /\ UNCHANGED <<staff, status, payslips, call, shared>>
    BY DEF CreatePayrollRun
  <1>2. RowsKept
    BY <1>1 DEF RowsKept, staff, IInv, TypeOK
  <1>3. \A q \in Runs : company[q] # None => company'[q] # None
    BY <1>2 DEF RowsKept
  <1>4. TypeOK'
    <2>1. \A s \in Slots : ~At(s, "idle") => company'[call[s].run] # None
      BY <1>3, RequestTyped, NoRowAssumption
    <2> QED BY <1>1, <2>1 DEF IInv, TypeOK, staff, At
  <1> QED BY <1>1, <1>2, <1>4, RowsStep

-----------------------------------------------------------------------------
(* Requests *)

(* A request that arrives on a run where another is in flight shares it. *)
LEMMA ArrivalShares ==
  ASSUME IInv, NEW r \in Runs, Arrives(r)
  PROVE  /\ shared \subseteq shared' /\ shared' \subseteq Runs
         /\ \A t \in Slots : call[t].run = r => r \in shared'
  BY DEF IInv, TypeOK, Arrives, InFlightOn

LEMMA ComputeArrives ==
  ASSUME IInv, NEW s \in Slots, ComputePayrollRun(s)
  PROVE  IInv'
  <1>1. PICK c \in Companies, r \in Runs :
          /\ RunOfCompany(r, c) /\ MayCompute(r) /\ Goes(s, "marking", r, {}) /\ Arrives(r)
          /\ UNCHANGED <<staff, runs, status, payslips>> /\ At(s, "idle")
    BY DEF ComputePayrollRun
  <1> DEFINE k == [at |-> "marking", run |-> r, todo |-> {}]
  <1>2. k \in Call /\ call' = [call EXCEPT ![s] = k] /\ call'[s] = k
    BY <1>1 DEF Call, Stages, Goes, IInv, TypeOK
  <1>3. /\ shared \subseteq shared' /\ shared' \subseteq Runs
        /\ \A t \in Slots : call[t].run = r => r \in shared'
    BY <1>1, ArrivalShares
  <1>4. company[r] # None /\ r # None
    BY <1>1, NoRowAssumption DEF RunOfCompany
  <1>5. TypeOK'
    BY <1>1, <1>2, <1>3, <1>4 DEF IInv, TypeOK, staff, runs, At
  <1>6. RequestHolds(s)'
    BY <1>1, <1>2, <1>3 DEF RequestHolds, At, MayCompute, IInv, TypeOK
  <1>7. \A e \in k.todo : employer[e] = company[k.run]
    OBVIOUS
  <1>8. \A t \in Slots \ {s} : call[t].run = k.run => k.run = None \/ k.run \in shared'
    BY <1>3
  <1> HIDE DEF k
  <1> QED BY <1>1, <1>2, <1>3, <1>5, <1>6, <1>7, <1>8, QuietStep

LEMMA FinalizeArrives ==
  ASSUME IInv, NEW s \in Slots, FinalizePayrollRun(s)
  PROVE  IInv'
  <1>1. PICK c \in Companies, r \in Runs :
          /\ RunOfCompany(r, c) /\ NoBlockingErrors(r)
          /\ Goes(s, "finalizing", r, {}) /\ Arrives(r)
          /\ UNCHANGED <<staff, runs, status, payslips>> /\ At(s, "idle")
    BY DEF FinalizePayrollRun
  <1> DEFINE k == [at |-> "finalizing", run |-> r, todo |-> {}]
  <1>2. k \in Call /\ call' = [call EXCEPT ![s] = k] /\ call'[s] = k
    BY <1>1 DEF Call, Stages, Goes, IInv, TypeOK
  <1>3. /\ shared \subseteq shared' /\ shared' \subseteq Runs
        /\ \A t \in Slots : call[t].run = r => r \in shared'
    BY <1>1, ArrivalShares
  <1>4. company[r] # None /\ r # None
    BY <1>1, NoRowAssumption DEF RunOfCompany
  <1>5. TypeOK'
    BY <1>1, <1>2, <1>3, <1>4 DEF IInv, TypeOK, staff, runs, At
  <1>6. NoBlockingErrors(r)'
    BY <1>1 DEF NoBlockingErrors, HasErrors, staff, runs
  <1>7. RequestHolds(s)'
    <2>1. call'[s].run = r /\ call'[s].at = "finalizing"
      BY <1>2
    <2>2. \A t \in Slots : call'[t].run = r /\ r \notin shared' => t = s
      BY <1>2, <1>3 DEF IInv, TypeOK
    <2>3. NoBlockingErrors(call[s].run)'
      BY <1>1, <1>6, <2>1 DEF NoBlockingErrors, HasErrors
    <2> QED BY <2>1, <2>2, <2>3 DEF RequestHolds, At, Computing
  <1>8. \A e \in k.todo : employer[e] = company[k.run]
    OBVIOUS
  <1>9. \A t \in Slots \ {s} : call[t].run = k.run => k.run = None \/ k.run \in shared'
    BY <1>3
  <1> HIDE DEF k
  <1> QED BY <1>1, <1>2, <1>3, <1>5, <1>7, <1>8, <1>9, QuietStep

(* A request that ends, or moves on without touching payslips, shares nothing. *)
LEMMA EndKeepsIInv ==
  ASSUME IInv, NEW s \in Slots, Ends(s), UNCHANGED <<staff, runs, payslips, shared, status>>
  PROVE  IInv'
  <1>1. call' = [call EXCEPT ![s] = NoCall] /\ call'[s] = NoCall
    BY DEF Ends, IInv, TypeOK
  <1>2. TypeOK'
    BY <1>1, NoCallTyped DEF IInv, TypeOK, At, staff, runs, NoCall
  <1>3. RequestHolds(s)'
    BY <1>1 DEF RequestHolds, At, NoCall
  <1>4. NoCall.run = None /\ NoCall.todo = {}
    BY DEF NoCall
  <1> QED BY <1>1, <1>2, <1>3, <1>4, NoCallTyped, QuietStep

LEMMA MarkProcessingKeepsIInv ==
  ASSUME IInv, NEW s \in Slots, MarkProcessing(s)
  PROVE  IInv'
  <1>1. PICK r \in Runs : r = call[s].run /\ r # None /\ company[r] # None
    BY RequestTyped, NoRowAssumption DEF MarkProcessing, At
  <1> DEFINE k == [at |-> "listing", run |-> r, todo |-> {}]
  <1>2. /\ status' = [status EXCEPT ![r] = "processing"]
        /\ k \in Call /\ call' = [call EXCEPT ![s] = k] /\ call'[s] = k
        /\ At(s, "marking") /\ ~At(s, "idle")
        /\ UNCHANGED <<staff, runs, payslips, shared>>
    BY <1>1 DEF MarkProcessing, Call, Stages, Goes, IInv, TypeOK, At
  <1>3. TypeOK'
    BY <1>1, <1>2 DEF IInv, TypeOK, staff, runs, At
  <1>4. r \notin shared => \A t \in Slots : call[t].run = r => t = s
    BY <1>1, <1>2, AloneOnRun
  <1>5. RequestHolds(s)'
    BY <1>1, <1>2, <1>4 DEF RequestHolds, At, IInv, TypeOK
  <1>6. \A q \in Runs : status'[q] = "finalized" => status[q] = "finalized"
    BY <1>1, <1>2 DEF IInv, TypeOK
  <1>7. \A t \in Slots \ {s} : call[t].run = k.run => k.run = None \/ k.run \in shared'
    BY <1>2, <1>4
  <1>8. k.todo = {}
    OBVIOUS
  <1> HIDE DEF k
  <1> QED BY <1>2, <1>3, <1>5, <1>6, <1>7, <1>8, QuietStep

LEMMA ListStaffKeepsIInv ==
  ASSUME IInv, NEW s \in Slots, ListStaff(s)
  PROVE  IInv'
  <1>1. PICK r \in Runs : r = call[s].run /\ r # None /\ company[r] # None
    BY RequestTyped, NoRowAssumption DEF ListStaff, At
  <1> DEFINE k == [at |-> "clearing", run |-> r, todo |-> ActiveStaff(company[r])]
  <1>2. /\ k \in Call /\ call' = [call EXCEPT ![s] = k] /\ call'[s] = k
        /\ At(s, "listing") /\ ~At(s, "idle")
        /\ UNCHANGED <<staff, runs, status, payslips, shared>>
    BY <1>1 DEF ListStaff, Call, Stages, Goes, IInv, TypeOK, At, ActiveStaff
  <1>3. TypeOK'
    BY <1>1, <1>2 DEF IInv, TypeOK, staff, runs, At
  <1>4. r \notin shared =>
          /\ \A t \in Slots : call[t].run = r => t = s
          /\ status[r] # "finalized"
    BY <1>1, <1>2 DEF IInv, RequestHolds, At, Computing
  <1>5. RequestHolds(s)'
    BY <1>1, <1>2, <1>4 DEF RequestHolds, At, IInv, TypeOK
  <1>6. \A e \in k.todo : employer[e] = company[k.run]
    BY DEF ActiveStaff
  <1>7. \A t \in Slots \ {s} : call[t].run = k.run => k.run = None \/ k.run \in shared'
    BY <1>2, <1>4
  <1> HIDE DEF k
  <1> QED BY <1>2, <1>3, <1>5, <1>6, <1>7, QuietStep

-----------------------------------------------------------------------------
(* Payslips *)

(* A step of a computation that writes the payslips of its run: what it must
   show is about that run alone. *)
LEMMA PayslipStep ==
  ASSUME IInv, NEW s \in Slots, call[s].at \in Computing,
         UNCHANGED <<staff, runs, status, shared>>,
         NEW k \in Call, call' = [call EXCEPT ![s] = k],
         k.at = "paying", k.run = call[s].run, k.todo \subseteq call[s].todo,
         NEW p \in [Employees -> Nat],
         payslips' = [payslips EXCEPT ![call[s].run] = p],
         \A e \in Employees : p[e] > 0 => employer[e] = company[call[s].run],
         call[s].run \notin shared =>
           (\A e \in Employees : p[e] <= 1) /\ (\A e \in k.todo : p[e] = 0)
  PROVE  IInv'
  <1> USE DEF IInv, staff, runs
  <1>1. ~At(s, "idle")
    BY DEF At, Computing
  <1>2. PICK r \in Runs : r = call[s].run /\ r # None /\ company[r] # None
    BY <1>1, RequestTyped, NoRowAssumption
  <1>3. /\ call'[s] = k /\ \A t \in Slots \ {s} : call'[t] = call[t]
        /\ payslips'[r] = p /\ \A q \in Runs \ {r} : payslips'[q] = payslips[q]
    BY <1>2 DEF TypeOK
  <1>4. r \notin shared =>
          (\A t \in Slots : call[t].run = r => t = s) /\ status[r] # "finalized"
    BY <1>1, <1>2 DEF RequestHolds
  <1>5. TypeOK'
    BY <1>2, <1>3 DEF TypeOK, At
  <1>6. OwnStaffOnly'
    BY <1>2, <1>3 DEF OwnStaffOnly
  <1>7. CleanUnlessShared'
    <2> SUFFICES ASSUME NEW q \in Runs, q \notin shared
                 PROVE  /\ status[q] = "finalized" =>
                             \A e \in Employees : payslips'[q][e] > 0 => ~HasErrors(q, e)
                        /\ \A e \in Employees : payslips'[q][e] <= 1
      BY DEF CleanUnlessShared, CleanRun, SinglePayslips, HasErrors
    <2>1. CASE q = r
      BY <1>2, <1>3, <1>4, <2>1
    <2>2. CASE q # r
      BY <1>3, <2>2 DEF CleanUnlessShared, CleanRun, SinglePayslips
    <2> QED BY <2>1, <2>2
  <1>8. ASSUME NEW t \in Slots
        PROVE  RequestHolds(t)'
    <2>1. CASE t = s
      <3>1. r \notin shared => \A q \in Slots : call'[q].run = r => q = s
        BY <1>2, <1>3, <1>4
      <3> QED BY <1>2, <1>3, <1>4, <2>1, <3>1 DEF RequestHolds, At
    <2>2. CASE t # s
      <3> SUFFICES ASSUME call[t].at # "idle", call[t].run \notin shared
                   PROVE  /\ \A q \in Slots : call'[q].run = call[t].run => q = t
                          /\ call[t].at \in Computing => status[call[t].run] # "finalized"
                          /\ call[t].at = "paying" =>
                               \A e \in call[t].todo : payslips'[call[t].run][e] = 0
                          /\ call[t].at = "finalizing" => NoBlockingErrors(call[t].run)'
        BY <1>3, <2>2 DEF RequestHolds, At
      <3>1. RequestHolds(t) /\ call[t].run \in Runs
        BY RequestTyped DEF At
      <3>2. call[t].run # r
        BY <1>2, <2>2, <3>1 DEF RequestHolds, At
      <3>3. payslips'[call[t].run] = payslips[call[t].run]
        BY <1>3, <3>1, <3>2
      <3>4. \A q \in Slots : call'[q].run = call[t].run => q = t
        BY <1>2, <1>3, <3>1, <3>2 DEF RequestHolds, At
      <3>5. call[t].at = "finalizing" => NoBlockingErrors(call[t].run)'
        BY <1>3, <2>2, <3>1, <3>3 DEF RequestHolds, At, NoBlockingErrors, HasErrors
      <3> QED BY <3>1, <3>3, <3>4, <3>5 DEF RequestHolds, At
    <2> QED BY <2>1, <2>2
  <1> QED BY <1>5, <1>6, <1>7, <1>8

LEMMA ClearPayslipsKeepsIInv ==
  ASSUME IInv, NEW s \in Slots, ClearPayslips(s)
  PROVE  IInv'
  <1> DEFINE k == [at |-> "paying", run |-> call[s].run, todo |-> call[s].todo]
             p == [e \in Employees |-> 0]
  <1>1. /\ call[s].at \in Computing /\ UNCHANGED <<staff, runs, status, shared>>
        /\ k \in Call /\ call' = [call EXCEPT ![s] = k]
        /\ p \in [Employees -> Nat] /\ payslips' = [payslips EXCEPT ![call[s].run] = p]
    BY DEF ClearPayslips, At, Computing, Goes, Call, Stages, IInv, TypeOK
  <1>2. /\ k.at = "paying" /\ k.run = call[s].run /\ k.todo \subseteq call[s].todo
        /\ \A e \in Employees : p[e] = 0
        /\ k.todo \subseteq Employees
    BY <1>1 DEF Call
  <1> HIDE DEF k, p
  <1>3. /\ \A e \in Employees : p[e] > 0 => employer[e] = company[call[s].run]
        /\ (\A e \in Employees : p[e] <= 1) /\ (\A e \in k.todo : p[e] = 0)
    BY <1>2
  <1> QED BY <1>1, <1>2, <1>3, PayslipStep

LEMMA CreatePayslipKeepsIInv ==
  ASSUME IInv, NEW s \in Slots, CreatePayslip(s)
  PROVE  IInv'
  <1>1. PICK r \in Runs : r = call[s].run
    BY RequestTyped DEF CreatePayslip, At
  <1>2. PICK e \in call[s].todo :
          /\ At(s, "paying")
          /\ payslips' = [payslips EXCEPT ![r] =
                            [payslips[r] EXCEPT ![e] = payslips[r][e] + 1]]
          /\ Goes(s, "paying", r, call[s].todo \ {e})
          /\ UNCHANGED <<staff, runs, status, shared>>
    BY <1>1 DEF CreatePayslip
  <1> DEFINE k == [at |-> "paying", run |-> r, todo |-> call[s].todo \ {e}]
             p == [payslips[r] EXCEPT ![e] = payslips[r][e] + 1]
  <1>3. e \in Employees /\ employer[e] = company[r] /\ call[s].todo \subseteq Employees
    BY <1>1, <1>2 DEF IInv, TypeOK, OwnStaffOnly, Call
  <1>4. /\ call[s].at \in Computing
        /\ k \in Call /\ call' = [call EXCEPT ![s] = k]
        /\ payslips[r] \in [Employees -> Nat] /\ p \in [Employees -> Nat]
        /\ payslips' = [payslips EXCEPT ![r] = p]
    BY <1>2, <1>3 DEF At, Computing, Goes, Call, Stages, IInv, TypeOK
  <1>5. /\ p[e] = payslips[r][e] + 1
        /\ \A d \in Employees \ {e} : p[d] = payslips[r][d]
        /\ k.at = "paying" /\ k.run = r /\ k.todo = call[s].todo \ {e}
    BY <1>3, <1>4
  <1> HIDE DEF k, p
  <1>6. \A d \in Employees : p[d] > 0 => employer[d] = company[r]
    BY <1>3, <1>4, <1>5 DEF IInv, OwnStaffOnly
  <1>7. r \notin shared =>
          (\A d \in Employees : p[d] <= 1) /\ (\A d \in k.todo : p[d] = 0)
    <2> SUFFICES ASSUME r \notin shared
                 PROVE  (\A d \in Employees : p[d] <= 1) /\ (\A d \in k.todo : p[d] = 0)
      OBVIOUS
    <2>1. \A d \in call[s].todo : payslips[r][d] = 0
      BY <1>1, <1>2 DEF IInv, RequestHolds, At
    <2>2. \A d \in Employees : payslips[r][d] <= 1
      BY <1>1 DEF IInv, CleanUnlessShared, SinglePayslips
    <2>3. e \in call[s].todo /\ payslips[r][e] = 0
      BY <2>1
    <2>4. p[e] = 1
      BY <1>5, <2>3
    <2>5. \A d \in Employees : p[d] <= 1
      <3> SUFFICES ASSUME NEW d \in Employees PROVE p[d] <= 1
        OBVIOUS
      <3>1. CASE d = e
        BY <2>4, <3>1, SMT
      <3>2. CASE d # e
        BY <1>5, <2>2, <3>2
      <3> QED BY <3>1, <3>2
    <2>6. \A d \in k.todo : p[d] = 0
      BY <1>3, <1>5, <2>1
    <2> QED BY <2>5, <2>6
  <1>8. /\ call[s].at \in Computing
        /\ k \in Call /\ call' = [call EXCEPT ![s] = k]
        /\ k.at = "paying" /\ k.run = call[s].run /\ k.todo \subseteq call[s].todo
        /\ p \in [Employees -> Nat]
        /\ UNCHANGED <<staff, runs, status, shared>>
        /\ payslips' = [payslips EXCEPT ![call[s].run] = p]
        /\ \A d \in Employees : p[d] > 0 => employer[d] = company[call[s].run]
        /\ call[s].run \notin shared =>
             (\A d \in Employees : p[d] <= 1) /\ (\A d \in k.todo : p[d] = 0)
    BY <1>1, <1>2, <1>4, <1>5, <1>6, <1>7
  <1> QED BY <1>8, PayslipStep

LEMMA MarkFinalizedKeepsIInv ==
  ASSUME IInv, NEW s \in Slots, MarkFinalized(s)
  PROVE  IInv'
  <1> USE DEF staff, runs
  <1>1. PICK r \in Runs : r = call[s].run /\ r # None
    BY RequestTyped, NoRowAssumption DEF MarkFinalized, At
  <1>2. /\ status' = [status EXCEPT ![r] = "finalized"]
        /\ call' = [call EXCEPT ![s] = NoCall] /\ call'[s] = NoCall
        /\ \A t \in Slots \ {s} : call'[t] = call[t]
        /\ At(s, "finalizing") /\ ~At(s, "idle")
        /\ UNCHANGED <<staff, runs, payslips, shared>>
    BY <1>1 DEF MarkFinalized, Ends, IInv, TypeOK, At
  <1>3. TypeOK'
    BY <1>1, <1>2, NoCallTyped DEF IInv, TypeOK, At, NoCall
  <1>4. OwnStaffOnly'
    BY <1>2 DEF IInv, OwnStaffOnly, NoCall
  <1>5. r \notin shared =>
          NoBlockingErrors(r) /\ \A t \in Slots : call[t].run = r => t = s
    BY <1>1, <1>2 DEF IInv, RequestHolds, At
  <1>6. CleanUnlessShared'
    <2> SUFFICES ASSUME NEW q \in Runs, q \notin shared
                 PROVE  /\ status'[q] = "finalized" =>
                             \A e \in Employees : payslips[q][e] > 0 => ~HasErrors(q, e)
                        /\ \A e \in Employees : payslips[q][e] <= 1
      BY <1>2 DEF CleanUnlessShared, CleanRun, SinglePayslips, HasErrors
    <2>1. CASE q = r
      BY <1>5, <2>1 DEF NoBlockingErrors, IInv, CleanUnlessShared, SinglePayslips
    <2>2. CASE q # r
      BY <1>2, <2>2 DEF IInv, TypeOK, CleanUnlessShared, CleanRun, SinglePayslips
    <2> QED BY <2>1, <2>2
  <1>7. ASSUME NEW t \in Slots
        PROVE  RequestHolds(t)'
    <2>1. CASE t = s
      BY <1>2, <2>1 DEF RequestHolds, At, NoCall
    <2>2. CASE t # s
      <3> SUFFICES ASSUME call[t].at # "idle", call[t].run \notin shared
                   PROVE  /\ \A q \in Slots : call'[q].run = call[t].run => q = t
                          /\ call[t].at \in Computing => status'[call[t].run] # "finalized"
                          /\ call[t].at = "paying" =>
                               \A e \in call[t].todo : payslips[call[t].run][e] = 0
                          /\ call[t].at = "finalizing" => NoBlockingErrors(call[t].run)'
        BY <1>2, <2>2 DEF RequestHolds, At
      <3>1. RequestHolds(t) /\ call[t].run \in Runs /\ call[t].run # None
        BY RequestTyped, NoRowAssumption DEF IInv, At
      <3>2. call[t].run # r
        BY <1>1, <2>2, <3>1 DEF RequestHolds, At
      <3>3. status'[call[t].run] = status[call[t].run]
        BY <1>2, <3>1, <3>2 DEF IInv, TypeOK
      <3>4. \A q \in Slots : call'[q].run = call[t].run => q = t
        BY <1>2, <2>2, <3>1 DEF RequestHolds, At, NoCall
      <3>5. call[t].at = "finalizing" => NoBlockingErrors(call[t].run)'
        BY <1>2, <2>2, <3>1 DEF RequestHolds, At, NoBlockingErrors, HasErrors
      <3> QED BY <3>1, <3>3, <3>4, <3>5 DEF RequestHolds, At
    <2> QED BY <2>1, <2>2
  <1> QED BY <1>3, <1>4, <1>6, <1>7 DEF IInv

-----------------------------------------------------------------------------
(* The inductive invariant, and what follows from it *)

LEMMA InitIInv == Init => IInv
  <1> SUFFICES ASSUME Init PROVE IInv
    OBVIOUS
  <1> USE DEF Init
  <1>1. TypeOK
    BY NoCallTyped DEF TypeOK, At, NoCall
  <1>2. OwnStaffOnly /\ CleanUnlessShared
    BY DEF OwnStaffOnly, CleanUnlessShared, CleanRun, SinglePayslips, NoCall
  <1>3. \A s \in Slots : RequestHolds(s)
    BY DEF RequestHolds, At, NoCall
  <1> QED BY <1>1, <1>2, <1>3 DEF IInv

LEMMA NextKeepsIInv == IInv /\ [Next]_vars => IInv'
  <1> SUFFICES ASSUME IInv, [Next]_vars PROVE IInv'
    OBVIOUS
  <1>1. CASE UNCHANGED vars
    <2>1. UNCHANGED <<status, payslips, call, shared>> /\ UNCHANGED <<staff, runs>>
      BY <1>1 DEF vars
    <2>2. RowsKept
      BY <2>1 DEF RowsKept, staff, runs
    <2>3. TypeOK'
      BY <2>1 DEF IInv, TypeOK, At, staff, runs
    <2> QED BY <2>1, <2>2, <2>3, RowsStep
  <1>2. ASSUME NEW s \in Slots, ComputeDone(s) \/ Fail(s)
        PROVE  IInv'
    BY <1>2, EndKeepsIInv DEF ComputeDone, Fail
  <1>3. ASSUME NEW s \in Slots,
               \/ ComputePayrollRun(s) \/ MarkProcessing(s) \/ ListStaff(s) \/ ClearPayslips(s)
               \/ CreatePayslip(s) \/ FinalizePayrollRun(s) \/ MarkFinalized(s)
        PROVE  IInv'
    BY <1>3, ComputeArrives, MarkProcessingKeepsIInv, ListStaffKeepsIInv,
       ClearPayslipsKeepsIInv, CreatePayslipKeepsIInv, FinalizeArrives,
       MarkFinalizedKeepsIInv
  <1> QED
    BY <1>1, <1>2, <1>3, CreateEmployeeKeepsIInv, CreatePayrollRunKeepsIInv DEF Next

(* The inductive invariant holds in every reachable state of PayrollService. *)
THEOREM PayrollInductive == Spec => []IInv
  BY InitIInv, NextKeepsIInv, PTL DEF Spec

(* Every row and every request in flight stays well formed. *)
THEOREM PayrollTyped == Spec => []TypeOK
  <1>1. IInv => TypeOK
    BY DEF IInv
  <1> QED BY <1>1, PayrollInductive, PTL

(* computePayrollRun: only the company's own staff is ever on a run, however
   requests of any number of companies interleave and fail. *)
THEOREM PayslipsOfOwnStaff == Spec => []OwnStaffOnly
  <1>1. IInv => OwnStaffOnly
    BY DEF IInv
  <1> QED BY <1>1, PayrollInductive, PTL

(* finalizePayrollRun: a run whose requests never overlapped is finalized only
   without errors and never pays an employee twice. *)
THEOREM FinalizedClean == Spec => []CleanUnlessShared
  <1>1. IInv => CleanUnlessShared
    BY DEF IInv
  <1> QED BY <1>1, PayrollInductive, PTL

(* computePayrollRun: such a run, once finalized, is left alone. *)
THEOREM FinalizedUntouched == Spec => UntouchedUnlessShared
  <1>1. IInv /\ [Next]_vars => [\A r \in Runs : r \notin shared' => Untouched(r)]_vars
    <2> SUFFICES ASSUME IInv, Next, NEW r \in Runs, r \notin shared', status[r] = "finalized"
                 PROVE  status'[r] = "finalized" /\ payslips'[r] = payslips[r]
      BY DEF Untouched
    <2>1. ASSUME NEW s \in Slots, call[s].at \in Computing, shared' = shared
          PROVE  call[s].run # r /\ call[s].run \in Runs
      BY <2>1, RequestTyped DEF IInv, RequestHolds, At, Computing
    <2>2. ASSUME NEW s \in Slots, MarkProcessing(s) \/ ClearPayslips(s) \/ CreatePayslip(s)
          PROVE  status'[r] = "finalized" /\ payslips'[r] = payslips[r]
      BY <2>1, <2>2
      DEF MarkProcessing, ClearPayslips, CreatePayslip, At, Computing, IInv, TypeOK
    <2>3. ASSUME NEW s \in Slots, MarkFinalized(s)
          PROVE  status'[r] = "finalized" /\ payslips'[r] = payslips[r]
      BY <2>3 DEF MarkFinalized, IInv, TypeOK
    <2> QED
      BY <2>2, <2>3
      DEF Next, CreateEmployee, CreatePayrollRun, ComputePayrollRun, ListStaff, ComputeDone,
          FinalizePayrollRun, Fail
  <1> QED BY <1>1, PayrollInductive, PTL DEF Spec, UntouchedUnlessShared
==============================================================================
