------------------------------ MODULE Payroll -------------------------------
(***************************************************************************)
(* Payroll runs and their payslips: PayrollService.                         *)
(*                                                                          *)
(* Computing a run is a long handler: it marks the run, reads the staff,    *)
(* deletes the payslips there are, and then writes one payslip at a time,   *)
(* asking the tax engine for four amounts before each.  Nothing locks the   *)
(* run meanwhile, and finalizing it looks only at the payslips it finds.    *)
(*                                                                          *)
(* An amount is left out, but not whether it could be computed: a payslip   *)
(* carries errors if the employee lacks a statutory number or the run's     *)
(* period has no rates configured.  No code changes an employee, so the     *)
(* payslips of one employee in one run all carry the same errors, and a     *)
(* count stands for the rows.  No code writes the status paid.              *)
(***************************************************************************)
EXTENDS Naturals, FiniteSets

CONSTANTS
  Companies,
  Employees,  \* bound: rows of payroll.employees
  Runs,       \* bound: rows of payroll.payroll_runs
  Slots,      \* bound: requests handled at the same time
  None        \* no row yet

ASSUME NoRowAssumption == None \notin Companies \cup Runs

VARIABLES
  employer,  \* employees.company_id, None: not created
  numbered,  \* whether the three statutory numbers were given
  company,   \* payroll_runs.company_id, None: not created
  covered,   \* whether rates are configured for the run's period
  status,    \* payroll_runs.status
  payslips,  \* payslips[r][e]: how many rows of payroll.payslips
  call,      \* the requests in flight
  shared     \* history: the runs two requests were in flight on at a time

staff == <<employer, numbered>>
runs == <<company, covered>>
vars == <<staff, runs, status, payslips, call, shared>>

-----------------------------------------------------------------------------
Stages == {"idle", "marking", "listing", "clearing", "paying", "finalizing"}
Computing == {"marking", "listing", "clearing", "paying"}

(* `todo` is what is left of the employees a computation has read. *)
Call == [at : Stages, run : Runs \cup {None}, todo : SUBSET Employees]
NoCall == [at |-> "idle", run |-> None, todo |-> {}]

At(s, stage) == call[s].at = stage
Goes(s, at, r, todo) == call' = [call EXCEPT ![s] = [at |-> at, run |-> r, todo |-> todo]]
Ends(s) == call' = [call EXCEPT ![s] = NoCall]

InFlightOn(r) == {s \in Slots : call[s].run = r}

(* A request for run r arrives; the history records that it overlaps another. *)
Arrives(r) == shared' = IF InFlightOn(r) = {} THEN shared ELSE shared \cup {r}

Init ==
  /\ employer = [e \in Employees |-> None]
  /\ numbered = [e \in Employees |-> FALSE]
  /\ company = [r \in Runs |-> None]
  /\ covered = [r \in Runs |-> FALSE]
  /\ status = [r \in Runs |-> "draft"]
  /\ payslips = [r \in Runs |-> [e \in Employees |-> 0]]
  /\ call = [s \in Slots |-> NoCall]
  /\ shared = {}

-----------------------------------------------------------------------------
CreateEmployee(e) ==
  \E c \in Companies, n \in BOOLEAN :
    /\ employer[e] = None
    /\ employer' = [employer EXCEPT ![e] = c]
    /\ numbered' = [numbered EXCEPT ![e] = n]
    /\ UNCHANGED <<runs, status, payslips, call, shared>>

CreatePayrollRun(r) ==
  \E c \in Companies, k \in BOOLEAN :
    /\ company[r] = None
    /\ company' = [company EXCEPT ![r] = c]
    /\ covered' = [covered EXCEPT ![r] = k]
    /\ UNCHANGED <<staff, status, payslips, call, shared>>

(* The run named in the request exists and is the company's in the route. *)
RunOfCompany(r, c) == company[r] = c

\* mutant: a finalized run may be computed again
AlwaysMutable(r) == TRUE

MayCompute(r) == status[r] # "finalized"

(* computePayrollRun: the run is read and checked once. *)
ComputePayrollRun(s) ==
  \E c \in Companies, r \in Runs :
    /\ At(s, "idle")
    /\ RunOfCompany(r, c)
    /\ MayCompute(r)
    /\ Goes(s, "marking", r, {})
    /\ Arrives(r)
    /\ UNCHANGED <<staff, runs, status, payslips>>

(* By the run's id, whatever its status has become. *)
MarkProcessing(s) ==
  /\ At(s, "marking")
  /\ status' = [status EXCEPT ![call[s].run] = "processing"]
  /\ Goes(s, "listing", call[s].run, {})
  /\ UNCHANGED <<staff, runs, payslips, shared>>

\* mutant: the staff of every company
AllStaff(c) == {e \in Employees : employer[e] # None}

ActiveStaff(c) == {e \in Employees : employer[e] = c}

ListStaff(s) ==
  /\ At(s, "listing")
  /\ Goes(s, "clearing", call[s].run, ActiveStaff(company[call[s].run]))
  /\ UNCHANGED <<staff, runs, status, payslips, shared>>

ClearPayslips(s) ==
  /\ At(s, "clearing")
  /\ payslips' = [payslips EXCEPT ![call[s].run] = [e \in Employees |-> 0]]
  /\ Goes(s, "paying", call[s].run, call[s].todo)
  /\ UNCHANGED <<staff, runs, status, shared>>

(* One turn of the loop: the order of the staff is the database's. *)
CreatePayslip(s) ==
  \E e \in call[s].todo :
    /\ At(s, "paying")
    /\ payslips' = [payslips EXCEPT ![call[s].run] =
                      [payslips[call[s].run] EXCEPT ![e] = payslips[call[s].run][e] + 1]]
    /\ Goes(s, "paying", call[s].run, call[s].todo \ {e})
    /\ UNCHANGED <<staff, runs, status, shared>>

ComputeDone(s) ==
  /\ At(s, "paying")
  /\ call[s].todo = {}
  /\ Ends(s)
  /\ UNCHANGED <<staff, runs, status, payslips, shared>>

(* Errors in the computation snapshot of a payslip of e in r. *)
HasErrors(r, e) == ~numbered[e] \/ ~covered[r]

\* mutant: errors do not block
NothingBlocks(r) == TRUE

(* No payslip found in the run carries errors. Nothing asks whether there are
   any, nor whether the run was computed to its end. *)
NoBlockingErrors(r) == \A e \in Employees : payslips[r][e] > 0 => ~HasErrors(r, e)

FinalizePayrollRun(s) ==
  \E c \in Companies, r \in Runs :
    /\ At(s, "idle")
    /\ RunOfCompany(r, c)
    /\ NoBlockingErrors(r)
    /\ Goes(s, "finalizing", r, {})
    /\ Arrives(r)
    /\ UNCHANGED <<staff, runs, status, payslips>>

(* By the run's id; the payroll.finalized event follows, and has no reader. *)
MarkFinalized(s) ==
  /\ At(s, "finalizing")
  /\ status' = [status EXCEPT ![call[s].run] = "finalized"]
  /\ Ends(s)
  /\ UNCHANGED <<staff, runs, payslips, shared>>

(* A query throws, or the process is restarted, between two awaits. *)
Fail(s) ==
  /\ ~At(s, "idle")
  /\ Ends(s)
  /\ UNCHANGED <<staff, runs, status, payslips, shared>>

Next ==
  \/ \E e \in Employees : CreateEmployee(e)
  \/ \E r \in Runs : CreatePayrollRun(r)
  \/ \E s \in Slots :
       \/ ComputePayrollRun(s) \/ MarkProcessing(s) \/ ListStaff(s) \/ ClearPayslips(s)
       \/ CreatePayslip(s) \/ ComputeDone(s)
       \/ FinalizePayrollRun(s) \/ MarkFinalized(s)
       \/ Fail(s)

Spec == Init /\ [][Next]_vars

-----------------------------------------------------------------------------
(* Properties *)

TypeOK ==
  /\ employer \in [Employees -> Companies \cup {None}]
  /\ numbered \in [Employees -> BOOLEAN]
  /\ company \in [Runs -> Companies \cup {None}]
  /\ covered \in [Runs -> BOOLEAN]
  /\ status \in [Runs -> {"draft", "processing", "finalized"}]
  /\ payslips \in [Runs -> [Employees -> Nat]]
  /\ call \in [Slots -> Call]
  /\ shared \subseteq Runs
  /\ \A s \in Slots :
       IF At(s, "idle") THEN call[s] = NoCall
                        ELSE call[s].run # None /\ company[call[s].run] # None

(* Tenant isolation: a run never holds a payslip of another company's
   employee, and never will by a computation under way. *)
OwnStaffOnly ==
  /\ \A r \in Runs, e \in Employees :
       payslips[r][e] > 0 => company[r] # None /\ employer[e] = company[r]
  /\ \A s \in Slots : \A e \in call[s].todo : employer[e] = company[call[s].run]

(* API.md: "blocked if any payslip has unresolved errors". *)
CleanRun(r) ==
  status[r] = "finalized" => \A e \in Employees : payslips[r][e] > 0 => ~HasErrors(r, e)

(* USER_MANUAL.md: computing "generates a payslip per active employee". *)
SinglePayslips(r) == \A e \in Employees : payslips[r][e] <= 1

(* API.md: "Finalize a run (immutable afterward)". *)
Untouched(r) ==
  status[r] = "finalized" => status'[r] = "finalized" /\ payslips'[r] = payslips[r]
FinalizedStays == [][\A r \in Runs : Untouched(r)]_vars

(* The same promises for the runs whose requests never overlapped: however
   computations fail half way, are repeated, and are mixed with work on other
   runs, such a run is finalized only clean, holds no employee twice, and is
   left alone once finalized. *)
CleanUnlessShared ==
  \A r \in Runs \ shared : CleanRun(r) /\ SinglePayslips(r)
UntouchedUnlessShared ==
  [][\A r \in Runs : r \notin shared' => Untouched(r)]_vars

-----------------------------------------------------------------------------
(* The inductive invariant: on a run that is not shared the one request in
   flight still finds what it read. *)
RequestHolds(s) ==
  ~At(s, "idle") /\ call[s].run \notin shared =>
    /\ \A t \in Slots : call[t].run = call[s].run => t = s
    /\ call[s].at \in Computing => status[call[s].run] # "finalized"
    /\ At(s, "paying") => \A e \in call[s].todo : payslips[call[s].run][e] = 0
    /\ At(s, "finalizing") => NoBlockingErrors(call[s].run)

IInv ==
  /\ TypeOK
  /\ OwnStaffOnly
  /\ CleanUnlessShared
  /\ \A s \in Slots : RequestHolds(s)
=============================================================================
