----------------------------- MODULE Compliance -----------------------------
(***************************************************************************)
(* The filing calendar of one company: ComplianceService, the queue its     *)
(* scans come from, and the two OrgService methods that ask for them.       *)
(*                                                                          *)
(* A scan reads the company's profile, then the deadlines there are, creates*)
(* the missing ones, looks for issues and recounts the rollups per agency,  *)
(* each a read followed by a write with nothing held in between.  Workers   *)
(* take scans from the queue; a request can run one at any moment.          *)
(*                                                                          *)
(* No statement of this code touches two companies, so one stands for all.  *)
(* A count stands for the rows of one deadline, of one kind of open issue   *)
(* and of one agency's rollup: no unique index covers any of them.  Due     *)
(* dates and what a rollup counts are left out.                             *)
(***************************************************************************)
EXTENDS Naturals, FiniteSets

CONSTANTS
  Issues,         \* checked for: vat_misclassification, duplicate_transaction
  MonthlyForms,   \* filed every month by a company with employees
  QuartersAhead,  \* 4 in the code
  MonthsAhead,    \* 12 in the code
  Attempts,       \* attempts of a job: 3 in the code
  Workers,        \* scans the queue's consumers run at a time
  Requests,       \* scans asked for by a request, run at a time
  Editors,        \* profile updates handled at a time
  Jobs,           \* bound: jobs enqueued
  FirstMonth,
  LastMonth,      \* bound: the clock
  None

ASSUME NumbersAssumption ==
  /\ FirstMonth \in Nat /\ LastMonth \in Nat /\ FirstMonth <= LastMonth
  /\ QuartersAhead \in Nat /\ MonthsAhead \in Nat
  /\ Attempts \in Nat \ {0}

ASSUME NamesAssumption ==
  /\ None \notin Jobs \cup {"vat", "non_vat"}
  /\ None \notin [existing : {"vat", "non_vat"}, wanted : {"vat", "non_vat"}]
  /\ Workers \cap Requests = {}

VARIABLES
  profile,    \* companies.vat_classification, None: not created
  staffed,    \* whether the company has active employees
  month,      \* the clock, in months
  edit,       \* edit[e]: the classification read and the one asked for
  events,     \* company.created and company.updated on their way to the queue
  job,        \* the jobs of the compliance-scan queue
  attempts,   \* attempts made of each
  scan,       \* the scans in flight
  deadlines,  \* how many rows of filing_deadlines have a key
  raised,     \* the issues there is a reason for
  open,       \* how many rows of flagged_issues are open
  rollups,    \* how many rows of compliance_status an agency has
  asked,      \* history: the month of the last change of profile
  overlapped  \* history: whether two scans were in flight at a time

company == <<profile, staffed, month, edit, asked>>
queue == <<events, job, attempts>>
results == <<deadlines, open, rollups>>
vars == <<company, queue, scan, results, raised, overlapped>>

-----------------------------------------------------------------------------
Classes == {"vat", "non_vat"}
IncomeTaxForm == "1701Q"
QuarterlyForms == {"2550Q", "2551Q", IncomeTaxForm}

AgencyOf(form) ==
  CASE form = "SSS_CONTRIBUTION" -> "sss"
    [] form = "PHILHEALTH_CONTRIBUTION" -> "philhealth"
    [] form = "PAGIBIG_CONTRIBUTION" -> "pagibig"
    [] OTHER -> "bir"
Agencies == {AgencyOf(f) : f \in QuarterlyForms \cup MonthlyForms}

(* A deadline's key: its form and the quarter or month it covers. *)
Quarter(m) == m \div 3
Quarters(m) == Quarter(m)..(Quarter(m) + QuartersAhead - 1)
Keys ==
  (QuarterlyForms \X (Quarter(FirstMonth)..(Quarter(LastMonth) + QuartersAhead - 1)))
    \cup (MonthlyForms \X (FirstMonth..(LastMonth + MonthsAhead - 1)))

SalesTaxForm(v) == IF v = "vat" THEN "2550Q" ELSE "2551Q"
Quarterly(v, m) == {SalesTaxForm(v), IncomeTaxForm} \X Quarters(m)
Monthly(m) == MonthlyForms \X (m..(m + MonthsAhead - 1))
Candidates(v, m) == Quarterly(v, m) \cup (IF staffed THEN Monthly(m) ELSE {})

Scanners == Workers \cup Requests
Stages == {"idle", "planning", "creating", "vat check", "vat flag", "duplicate check",
           "duplicate flag", "counting", "rolling up", "adding"}
Scan == [at : Stages, job : Jobs \cup {None}, class : Classes \cup {None},
         todo : SUBSET Keys, agencies : SUBSET Agencies, agency : Agencies \cup {None}]
NoScan == [at |-> "idle", job |-> None, class |-> None, todo |-> {},
           agencies |-> {}, agency |-> None]

At(s, stage) == scan[s].at = stage
Goes(s, stage) == scan' = [scan EXCEPT ![s].at = stage]
InFlight == {s \in Scanners : ~At(s, "idle")}

Init ==
  /\ profile = None /\ staffed = FALSE /\ month = FirstMonth
  /\ edit = [e \in Editors |-> None]
  /\ events = 0
  /\ job = [j \in Jobs |-> "none"]
  /\ attempts = [j \in Jobs |-> 0]
  /\ scan = [s \in Scanners |-> NoScan]
  /\ deadlines = [k \in Keys |-> 0]
  /\ raised = {}
  /\ open = [i \in Issues |-> 0]
  /\ rollups = [a \in Agencies |-> 0]
  /\ asked = FirstMonth
  /\ overlapped = FALSE

-----------------------------------------------------------------------------
(* The company, and the world around it *)

(* Bound: as many changes as there are jobs to follow them. *)
MayAsk == events < Cardinality({j \in Jobs : job[j] = "none"})

CreateCompany ==
  /\ MayAsk
  /\ profile = None
  /\ profile' \in Classes
  /\ events' = events + 1
  /\ asked' = month
  /\ UNCHANGED <<staffed, month, edit, job, attempts, scan, results, raised, overlapped>>

(* updateCompany reads the company, and an await later writes it. *)
UpdateCompanyRead(e) ==
  \E v \in Classes :
    /\ profile # None
    /\ edit[e] = None
    /\ edit' = [edit EXCEPT ![e] = [existing |-> profile, wanted |-> v]]
    /\ UNCHANGED <<profile, staffed, month, asked, queue, scan, results, raised, overlapped>>

\* mutant: only a company that registers for VAT is scanned again
RegistrationOnly(k) == k.wanted = "vat" /\ k.existing = "non_vat"

ClassChanged(k) == k.wanted # k.existing

UpdateCompany(e) ==
  /\ edit[e] # None
  /\ profile' = edit[e].wanted
  /\ IF ClassChanged(edit[e])
       THEN MayAsk /\ events' = events + 1 /\ asked' = month
       ELSE UNCHANGED <<events, asked>>
  /\ edit' = [edit EXCEPT ![e] = None]
  /\ UNCHANGED <<staffed, month, job, attempts, scan, results, raised, overlapped>>

(* PayrollService.createEmployee; no scan follows. *)
FirstEmployee ==
  /\ profile # None /\ ~staffed
  /\ staffed' = TRUE
  /\ UNCHANGED <<profile, month, edit, asked, queue, scan, results, raised, overlapped>>

(* Sales over the threshold are confirmed; a period gets a second payroll run. *)
RaiseIssue(i) ==
  /\ profile # None /\ i \notin raised
  /\ raised' = raised \cup {i}
  /\ UNCHANGED <<company, queue, scan, results, overlapped>>

(* updateIssueStatus: acknowledged, resolved or dismissed, the issue is no longer open. *)
CloseIssue(i) ==
  /\ open[i] > 0
  /\ open' = [open EXCEPT ![i] = @ - 1]
  /\ UNCHANGED <<company, queue, scan, deadlines, rollups, raised, overlapped>>

Tick ==
  /\ month < LastMonth
  /\ month' = month + 1
  /\ UNCHANGED <<profile, staffed, edit, asked, queue, scan, results, raised, overlapped>>

-----------------------------------------------------------------------------
(* The queue. External: BullMQ delivers a job to one worker at a time, and again
   after a failure or a worker's death until its attempts are used up. *)

(* handleCompanyCreated, handleCompanyUpdated *)
EnqueueComplianceScan(j) ==
  /\ events > 0
  /\ job[j] = "none"
  /\ events' = events - 1
  /\ job' = [job EXCEPT ![j] = "waiting"]
  /\ UNCHANGED <<company, attempts, scan, results, raised, overlapped>>

(* runComplianceScan: the company is read once. *)
Starts(s, j) ==
  /\ profile # None
  /\ At(s, "idle")
  /\ scan' = [scan EXCEPT ![s] = [NoScan EXCEPT !.at = "planning", !.job = j, !.class = profile]]
  /\ overlapped' = (overlapped \/ InFlight # {})

TakeJob(s) ==
  \E j \in Jobs :
    /\ job[j] = "waiting"
    /\ Starts(s, j)
    /\ job' = [job EXCEPT ![j] = "active"]
    /\ UNCHANGED <<company, events, attempts, results, raised>>

RequestScan(s) ==
  /\ Starts(s, None)
  /\ UNCHANGED <<company, queue, results, raised>>

\* mutant: a failed job is always tried again
AlwaysRetried(j) == TRUE

AttemptsLeft(j) == attempts[j] + 1 < Attempts

(* A query throws, or the process dies. *)
Fail(s) ==
  LET j == scan[s].job IN
  /\ ~At(s, "idle")
  /\ scan' = [scan EXCEPT ![s] = NoScan]
  /\ IF j = None
       THEN UNCHANGED <<job, attempts>>
       ELSE /\ job' = [job EXCEPT ![j] = IF AttemptsLeft(j) THEN "waiting" ELSE "failed"]
            /\ attempts' = [attempts EXCEPT ![j] = IF @ < Attempts THEN @ + 1 ELSE @]
  /\ UNCHANGED <<company, events, results, raised, overlapped>>

-----------------------------------------------------------------------------
(* The scan *)

\* mutant: every candidate is created
AllCandidates(v) == Candidates(v, month)

Missing(v) == {k \in Candidates(v, month) : deadlines[k] = 0}

(* generateFilingDeadlines: employees and existing deadlines are read ... *)
Plan(s) ==
  /\ At(s, "planning")
  /\ scan' = [scan EXCEPT ![s].at = "creating", ![s].todo = Missing(scan[s].class)]
  /\ UNCHANGED <<company, queue, results, raised, overlapped>>

(* ... and what they lacked is created at once. *)
CreateDeadlines(s) ==
  /\ At(s, "creating")
  /\ deadlines' = [k \in Keys |-> IF k \in scan[s].todo THEN deadlines[k] + 1 ELSE deadlines[k]]
  /\ scan' = [scan EXCEPT ![s].at = "vat check", ![s].todo = {}]
  /\ UNCHANGED <<company, queue, open, rollups, raised, overlapped>>

AlreadyFlagged(i) == open[i] > 0

CheckVatClassificationRisk(s) ==
  /\ At(s, "vat check")
  /\ IF /\ "vat_misclassification" \in raised
        /\ scan[s].class # "vat"
        /\ ~AlreadyFlagged("vat_misclassification")
       THEN Goes(s, "vat flag")
       ELSE Goes(s, "duplicate check")
  /\ UNCHANGED <<company, queue, results, raised, overlapped>>

CheckDuplicatePayrollRuns(s) ==
  /\ At(s, "duplicate check")
  /\ IF "duplicate_transaction" \in raised /\ ~AlreadyFlagged("duplicate_transaction")
       THEN Goes(s, "duplicate flag") ELSE Goes(s, "counting")
  /\ UNCHANGED <<company, queue, results, raised, overlapped>>

Flag(s, stage, issue, following) ==
  /\ At(s, stage) /\ issue \in Issues
  /\ open' = [open EXCEPT ![issue] = @ + 1]
  /\ Goes(s, following)
  /\ UNCHANGED <<company, queue, deadlines, rollups, raised, overlapped>>

FlagIssue(s) ==
  \/ Flag(s, "vat flag", "vat_misclassification", "duplicate check")
  \/ Flag(s, "duplicate flag", "duplicate_transaction", "counting")

(* recomputeComplianceStatus: the deadlines are read, and then each agency that
   has some gets its rollup, in turn. *)
CountDeadlines(s) ==
  /\ At(s, "counting")
  /\ scan' = [scan EXCEPT ![s].at = "rolling up",
                          ![s].agencies = {AgencyOf(k[1]) : k \in {q \in Keys : deadlines[q] > 0}}]
  /\ UNCHANGED <<company, queue, results, raised, overlapped>>

FindRollup(s) ==
  \E a \in scan[s].agencies :
    /\ At(s, "rolling up")
    /\ scan' = [scan EXCEPT ![s].at = IF rollups[a] > 0 THEN "rolling up" ELSE "adding",
                            ![s].agencies = @ \ {a},
                            ![s].agency = IF rollups[a] > 0 THEN None ELSE a]
    /\ UNCHANGED <<company, queue, results, raised, overlapped>>

CreateRollup(s) ==
  /\ At(s, "adding")
  /\ rollups' = [rollups EXCEPT ![scan[s].agency] = @ + 1]
  /\ scan' = [scan EXCEPT ![s].at = "rolling up", ![s].agency = None]
  /\ UNCHANGED <<company, queue, deadlines, open, raised, overlapped>>

ScanDone(s) ==
  /\ At(s, "rolling up")
  /\ scan[s].agencies = {}
  /\ scan' = [scan EXCEPT ![s] = NoScan]
  /\ job' = [j \in Jobs |-> IF j = scan[s].job THEN "done" ELSE job[j]]
  /\ UNCHANGED <<company, events, attempts, results, raised, overlapped>>

Advance(s) ==
  \/ Plan(s) \/ CreateDeadlines(s)
  \/ CheckVatClassificationRisk(s) \/ CheckDuplicatePayrollRuns(s) \/ FlagIssue(s)
  \/ CountDeadlines(s) \/ FindRollup(s) \/ CreateRollup(s)
  \/ ScanDone(s)

Next ==
  \/ CreateCompany \/ FirstEmployee \/ Tick
  \/ \E e \in Editors : UpdateCompanyRead(e) \/ UpdateCompany(e)
  \/ \E i \in Issues : RaiseIssue(i) \/ CloseIssue(i)
  \/ \E j \in Jobs : EnqueueComplianceScan(j)
  \/ \E s \in Workers : TakeJob(s)
  \/ \E s \in Requests : RequestScan(s)
  \/ \E s \in Scanners : Advance(s) \/ Fail(s)

(* A worker that is up keeps taking jobs and working on the one it has; nothing
   else is assumed to happen. *)
Fairness == \A s \in Workers : WF_vars(TakeJob(s) \/ Advance(s))

Spec == Init /\ [][Next]_vars /\ Fairness

-----------------------------------------------------------------------------
(* Properties *)

TypeOK ==
  /\ profile \in Classes \cup {None} /\ staffed \in BOOLEAN
  /\ month \in FirstMonth..LastMonth /\ asked \in FirstMonth..month
  /\ edit \in [Editors -> [existing : Classes, wanted : Classes] \cup {None}]
  /\ events \in Nat
  /\ job \in [Jobs -> {"none", "waiting", "active", "done", "failed"}]
  /\ attempts \in [Jobs -> 0..Attempts]
  /\ scan \in [Scanners -> Scan]
  /\ deadlines \in [Keys -> Nat] /\ open \in [Issues -> Nat] /\ rollups \in [Agencies -> Nat]
  /\ raised \subseteq Issues
  /\ overlapped \in BOOLEAN
  /\ \A j \in Jobs : job[j] = "active" <=> \E s \in Workers : scan[s].job = j

(* compliance.service.ts: "Idempotent: ... re-running the scan never creates
   duplicates". As long as no two scans overlapped, however often scans failed
   half way and were run again, no deadline, open issue or rollup is doubled. *)
OnceUnlessOverlapped ==
  /\ TypeOK
  /\ ~overlapped =>
       /\ \A k \in Keys : deadlines[k] <= 1
       /\ \A i \in Issues : open[i] <= 1
       /\ \A a \in Agencies : rollups[a] <= 1

(* API.md: "VAT classification change triggers a compliance re-scan". Once
   nothing is left to do and no job was given up, the calendar is complete for
   the present classification, as of some moment since it was last changed. *)
Quiet ==
  /\ events = 0 /\ InFlight = {} /\ \A e \in Editors : edit[e] = None
  /\ \A j \in Jobs : job[j] \in {"none", "done"}
Complete == \E m \in asked..month : \A k \in Quarterly(profile, m) : deadlines[k] > 0
CalendarFollowsProfile == Quiet /\ profile # None => Complete

-----------------------------------------------------------------------------
(* The inductive invariant: what a scan in flight may still rely on. *)

(* A scan is a worker's with its job, or a request's without one. *)
ScanShape(s) ==
  /\ s \in Requests \/ At(s, "idle") => scan[s].job = None
  /\ s \in Workers /\ ~At(s, "idle") => scan[s].job \in Jobs
  /\ ~At(s, "idle") => scan[s].class \in Classes
  /\ ~At(s, "creating") => scan[s].todo = {}
  /\ At(s, "adding") => scan[s].agency \in Agencies
  /\ At(s, "vat flag") => "vat_misclassification" \in Issues
  /\ At(s, "duplicate flag") => "duplicate_transaction" \in Issues

JobsApart ==
  \A s, t \in Workers : scan[s].job # None /\ scan[s].job = scan[t].job => s = t

(* What a scan is about to write was found missing, and still is. *)
StillMissing(s) ==
  /\ \A k \in scan[s].todo : deadlines[k] = 0
  /\ At(s, "vat flag") => open["vat_misclassification"] = 0
  /\ At(s, "duplicate flag") => open["duplicate_transaction"] = 0
  /\ At(s, "adding") => rollups[scan[s].agency] = 0

OneScan ==
  ~overlapped => /\ \A s, t \in InFlight : s = t
                 /\ \A s \in Scanners : StillMissing(s)

(* The safety invariant of the scans, inductive. *)
IInv ==
  /\ OnceUnlessOverlapped
  /\ \A s \in Scanners : ScanShape(s)
  /\ JobsApart /\ OneScan

(* The calendar will be complete for the present classification once what is
   under way has ended: it is complete, or a scan that was not given up is to
   come, or a worker's scan that read this classification is planning or about to
   create what is missing. *)
Planned(k, s) == deadlines[k] > 0 \/ k \in scan[s].todo
Covers(s) ==
  /\ scan[s].job # None /\ scan[s].class = profile
  /\ \/ At(s, "planning")
     \/ /\ At(s, "creating")
        /\ \E m \in asked..month : \A k \in Quarterly(profile, m) : Planned(k, s)
CalendarComes ==
  profile # None =>
    \/ Complete
    \/ events > 0
    \/ \E j \in Jobs : job[j] \in {"waiting", "failed"}
    \/ \E s \in Workers : Covers(s)

(* One update at a time compares with the classification there is. *)
EditsPresent == \A e \in Editors : edit[e] # None => edit[e].existing = profile
OneEditor == \A d, e \in Editors : d = e

(* Every enqueued scan is done or given up after its attempts, whatever fails. *)
JobsEnd == \A j \in Jobs : job[j] = "waiting" ~> job[j] \in {"done", "failed"}
=============================================================================
