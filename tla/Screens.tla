------------------------------ MODULE Screens -------------------------------
(***************************************************************************)
(* The pages of the dashboard. A page has panels; a panel loads its lists    *)
(* together when it is mounted, and a change made on a panel is sent, then   *)
(* patched into a list from the response or followed by a reload, or both.   *)
(* The content of a list is abstracted to the user's own changes it holds:   *)
(* which ones the server has, and which ones the page shows. A row that was  *)
(* changed comes back as the server had it when it stored the change, and    *)
(* replaces the row shown: `got` says which changes of the row are in it.    *)
(* Loads and changes overlap freely; the server answers in any order or not  *)
(* at all.                                                                   *)
(*                                                                           *)
(* A page that disables the row clicked last (busyId and its like) is one    *)
(* that does not: a click on another row, or its answer, enables it again.   *)
(***************************************************************************)
EXTENDS Naturals, Sequences, SequencesExt, FiniteSets, Functions

CONSTANTS
  Ids,      \* bound: changes made in all, and choices of the forms filter
  Agencies, \* values of the forms filter
  None

ASSUME IdsAssumption == Ids \subseteq Nat

\* A panel loads its lists at once when it is mounted ...
Mounts(lists) == [lists |-> lists, mounts |-> TRUE, settled |-> FALSE]
\* ... and shows what it can get ...
Settles(lists) == [Mounts(lists) EXCEPT !.settled = TRUE]
\* ... or waits until it is asked.
OnDemand(lists) == [Mounts(lists) EXCEPT !.mounts = FALSE]

\* The panels, by component. The rollup stands for the status and the deadlines, two
\* requests that a scan alters together.
UseMyCompanies == Mounts({"companies"})
PendingInvitations == Mounts({"invitations"})
PendingClientInvitations == Mounts({"client invitations"})
DashboardContent == Mounts({"company", "rollup", "issues"})
PayrollContent == Mounts({"employees", "runs"})
PayrollRunContent == Mounts({"run"})
TaxContent == Mounts({"computations"})
DocumentsContent == Mounts({"folders", "documents"})
DocumentRow == OnDemand({"versions"})
SettingsContent == Mounts({"company"})
BranchesSection == Mounts({"branches"})
RolesContent == Mounts({"staff"})
ReportsContent == Settles({"runs", "computations", "status"})
UseMyFirms == Mounts({"firms"})
PendingFirmInvitations == Mounts({"firm invitations"})
FirmDashboardContent == Mounts({"dashboard"})
FirmClientsContent == Mounts({"clients"})
AssignmentsContent == Mounts({"assignments", "firm staff", "catalog"})
FirmStaffContent == Mounts({"firm staff"})
FirmSettingsContent == Mounts({"firm"})
SecurityEventsSection == Mounts({"events"})
AuditLogsSection == OnDemand({"audit logs"})
FormsLibraryContent == Mounts({"forms"})
ProfileContent == Mounts({"sessions"})
NotificationsContent == Mounts({"notifications", "preferences"})

Panel ==
  [companies         |-> UseMyCompanies,
   invitations       |-> PendingInvitations,
   clientInvitations |-> PendingClientInvitations,
   overview          |-> DashboardContent,
   payroll           |-> PayrollContent,
   run               |-> PayrollRunContent,
   tax               |-> TaxContent,
   vault             |-> DocumentsContent,
   versions          |-> DocumentRow,
   profile           |-> SettingsContent,
   branches          |-> BranchesSection,
   roles             |-> RolesContent,
   reports           |-> ReportsContent,
   firms             |-> UseMyFirms,
   firmInvitations   |-> PendingFirmInvitations,
   firmOverview      |-> FirmDashboardContent,
   clients           |-> FirmClientsContent,
   assignments       |-> AssignmentsContent,
   firmStaff         |-> FirmStaffContent,
   firmProfile       |-> FirmSettingsContent,
   securityEvents    |-> SecurityEventsSection,
   auditLogs         |-> AuditLogsSection,
   forms             |-> FormsLibraryContent,
   devices           |-> ProfileContent,
   notices           |-> NotificationsContent]

\* The pages: panels mounted at the same time.
Pages ==
  {{"companies", "invitations", "clientInvitations"}, {"overview"}, {"payroll"}, {"run"}, {"tax"},
   {"vault", "versions"}, {"profile", "branches"}, {"roles"}, {"reports"},
   {"firms", "firmInvitations"}, {"firmOverview"}, {"clients"}, {"assignments"}, {"firmStaff"},
   {"firmProfile"}, {"securityEvents", "auditLogs"}, {"forms"}, {"devices"}, {"notices"}}

\* A change: the lists the server alters, those patched from the answer, and the panels
\* loaded again. A patch takes the answer's row, or adds or removes a row of its own.
Do(touches, patches, reloads) ==
  [touches |-> touches, patches |-> patches, reloads |-> reloads,
   replaces |-> FALSE, waits |-> FALSE]
\* A row can be changed any number of times, from buttons that stay enabled ...
RowButton(list) == [Do({list}, {list}, {}) EXCEPT !.replaces = TRUE]
\* ... or from a form that waits for its answer: the one row of its list.
SaveForm(list) == [RowButton(list) EXCEPT !.waits = TRUE]
RemoveButton(list) == Do({list}, {list}, {})

\* The changes, by component and handler.
CreateCompanyForm == Do({"companies"}, {}, {"companies"})
AcceptInvitation ==
  Do({"invitations", "companies"}, {"invitations"}, {"companies"})
RespondToClientInvitation ==
  Do({"client invitations", "companies"}, {"client invitations"}, {"companies"})
Scan == Do({"rollup", "issues"}, {}, {"overview"})
IssueStatus == RowButton("issues")
AddEmployeeForm == Do({"employees"}, {}, {"payroll"})
CreateRunForm == Do({"runs"}, {}, {"payroll"})
ComputeOrFinalize == Do({"run"}, {}, {"run"})
ComputeTaxForm == Do({"computations"}, {}, {"tax"})
ConfirmTax == RowButton("computations")
NewFolderForm == Do({"folders"}, {}, {"vault"})
UploadForm == Do({"documents"}, {}, {"vault"})
UploadVersion == Do({"documents", "versions"}, {}, {"versions"})
CompanyProfileForm == SaveForm("company")
AddBranchForm == Do({"branches"}, {}, {"branches"})
ToggleStatus == RowButton("branches")
InviteStaffForm == Do({"staff"}, {}, {"roles"})
RevokeStaff == RowButton("staff")
CreateFirmForm == Do({"firms"}, {}, {"firms"})
AcceptFirmInvitation ==
  Do({"firm invitations", "firms"}, {"firm invitations"}, {"firms"})
RemoveClient == RemoveButton("clients")
CreateClientForm == Do({"clients"}, {}, {"clients"})
InviteExistingCompanyForm == Do({}, {}, {})
AssignmentRow == Do({"assignments"}, {}, {"assignments"})
AssignStaffForm == Do({"assignments"}, {}, {"assignments"})
InviteFirmStaffForm == Do({"firm staff"}, {}, {"firmStaff"})
RevokeOrChangeRole == RowButton("firm staff")
SaveFirm == SaveForm("firm")
RevokeSession == RemoveButton("sessions")
TogglePreference == RowButton("preferences")

Offers ==
  [companies         |-> {CreateCompanyForm},
   invitations       |-> {AcceptInvitation},
   clientInvitations |-> {RespondToClientInvitation},
   overview          |-> {Scan, IssueStatus},
   payroll           |-> {AddEmployeeForm, CreateRunForm},
   run               |-> {ComputeOrFinalize},
   tax               |-> {ComputeTaxForm, ConfirmTax},
   vault             |-> {NewFolderForm, UploadForm},
   versions          |-> {UploadVersion},
   profile           |-> {CompanyProfileForm},
   branches          |-> {AddBranchForm, ToggleStatus},
   roles             |-> {InviteStaffForm, RevokeStaff},
   reports           |-> {},
   firms             |-> {CreateFirmForm},
   firmInvitations   |-> {AcceptFirmInvitation},
   firmOverview      |-> {},
   clients           |-> {RemoveClient, CreateClientForm, InviteExistingCompanyForm},
   assignments       |-> {AssignmentRow, AssignStaffForm},
   firmStaff         |-> {InviteFirmStaffForm, RevokeOrChangeRole},
   firmProfile       |-> {SaveFirm},
   securityEvents    |-> {},
   auditLogs         |-> {},
   forms             |-> {},
   devices           |-> {RevokeSession},
   notices           |-> {TogglePreference}]

VARIABLES
  page,     \* the panels of the page that is open
  stored,   \* stored[l]: the changes the server's list holds
  shown,    \* shown[l]: those the page shows
  loads,    \* loads[p]: the loads under way, in the order begun
  loading,  \* loading[p]: isLoading
  problem,  \* problem[p]: the last load or change ended in an error
  change,   \* change[i]: the changes made
  agency,   \* the forms filter chosen
  filtered, \* the filter of the forms shown
  raced,    \* history: changes answered while a load of a list they touch was under way
  missed,   \* history: changes whose reload failed
  overtaken, \* history: changes answered before an older one of their row
  crossed,  \* history: two loads of the forms overlapped
  blanked   \* history: the request for a run's details failed

vars == <<page, stored, shown, loads, loading, problem, change, agency, filtered, raced,
          missed, overtaken, crossed, blanked>>

\* The lists the page shows.
Lists == UNION {Panel[p].lists : p \in page}
Unmade == [stage |-> "none"]

-----------------------------------------------------------------------------
(* Loads. `has` is what came back so far, `lost` the lists that failed. *)

Load(filter, after) ==
  [has |-> [l \in {} |-> {}], lost |-> {}, filter |-> filter, after |-> after]

Begin(ps, filter, after) ==
  /\ loads' = [p \in page |-> IF p \in ps THEN Append(loads[p], Load(filter, after)) ELSE loads[p]]
  /\ loading' = [p \in page |-> loading[p] \/ p \in ps]

ServeList(p, k, l) ==
  /\ k \in DOMAIN loads[p] /\ l \in Panel[p].lists \ (DOMAIN loads[p][k].has \cup loads[p][k].lost)
  /\ loads' = [loads EXCEPT ![p][k].has = [m \in DOMAIN @ \cup {l} |->
                                             IF m = l THEN stored[l] ELSE @[m]]]
  /\ UNCHANGED <<page, stored, shown, loading, problem, change, agency, filtered, raced,
                 missed, overtaken, crossed, blanked>>

Ends(p, k) == loads' = [loads EXCEPT ![p] = RemoveAt(@, k)]

Finally(p) == loading' = [loading EXCEPT ![p] = FALSE]

\* Every list came, or with allSettled failed: they are shown.
LoadShown(p, k) ==
  /\ k \in DOMAIN loads[p]
  /\ LET d == loads[p][k] IN
     /\ Panel[p].lists = DOMAIN d.has \cup d.lost
     /\ shown' = [l \in Lists |-> IF l \in DOMAIN d.has THEN d.has[l] ELSE shown[l]]
     /\ filtered' = IF p = "forms" THEN d.filter ELSE filtered
  /\ problem' = [problem EXCEPT ![p] = FALSE]
  /\ Finally(p) /\ Ends(p, k)
  /\ UNCHANGED <<page, stored, change, agency, raced, missed, overtaken, crossed, blanked>>

\* Promise.all: the first list that fails ends the load, and nothing is shown of it.
LoadFails(p, k) ==
  /\ k \in DOMAIN loads[p] /\ ~Panel[p].settled /\ Panel[p].lists # DOMAIN loads[p][k].has
  /\ problem' = [problem EXCEPT ![p] = TRUE]
  /\ Finally(p) /\ Ends(p, k)
  /\ missed' = missed \cup loads[p][k].after
  /\ UNCHANGED <<page, stored, shown, change, agency, filtered, raced, overtaken, crossed,
                 blanked>>

\* Promise.allSettled: the other lists are still shown.
ListFails(p, k, l) ==
  /\ k \in DOMAIN loads[p] /\ Panel[p].settled
  /\ l \in Panel[p].lists \ (DOMAIN loads[p][k].has \cup loads[p][k].lost)
  /\ loads' = [loads EXCEPT ![p][k].lost = @ \cup {l}]
  /\ UNCHANGED <<page, stored, shown, loading, problem, change, agency, filtered, raced,
                 missed, overtaken, crossed, blanked>>

\* The details of the finalized runs are asked for outside any try: the load is abandoned.
DetailsFail(k) ==
  /\ k \in DOMAIN loads["reports"]
  /\ LET d == loads["reports"][k] IN
     "runs" \in DOMAIN d.has /\ Panel["reports"].lists = DOMAIN d.has \cup d.lost
  /\ Ends("reports", k)
  /\ blanked' = TRUE
  /\ UNCHANGED <<page, stored, shown, loading, problem, change, agency, filtered, raced,
                 missed, overtaken, crossed>>

-----------------------------------------------------------------------------
(* Changes, and what else makes a panel load. *)

Next1 == CHOOSE i \in Ids : change[i] = Unmade /\ \A j \in Ids : j < i => change[j] # Unmade
MayAct == \E i \in Ids : change[i] = Unmade

\* `got` is what the answer's row has, once the change is stored.
Change(stage, p, c, row) == [stage |-> stage, on |-> p, does |-> c, row |-> row, got |-> {}]

In(i, stage) == change[i].stage = stage
UnderWay(i) == In(i, "sent") \/ In(i, "stored")
Does(c) == {i \in Ids : change[i] # Unmade /\ change[i].does = c}
OfRow(i) == {j \in Does(change[i].does) : change[j].row = change[i].row}

\* The rows c may be about, each named by the first change made of it.
Rows(c) ==
  LET known == {change[i].row : i \in Does(c)}
  IN  CASE c.waits /\ known # {} -> known
        [] c.replaces -> known \cup {Next1}
        [] OTHER -> {Next1}

Make(p, c) ==
  /\ p \in page /\ MayAct /\ c \in Offers[p]
  /\ c.waits => \A i \in Does(c) : ~UnderWay(i)
  /\ \E row \in Rows(c) : change' = [change EXCEPT ![Next1] = Change("sent", p, c, row)]
  /\ UNCHANGED <<page, stored, shown, loads, loading, problem, agency, filtered, raced,
                 missed, overtaken, crossed, blanked>>

Commit(i) ==
  /\ In(i, "sent")
  /\ LET c == change[i].does
         before == {j \in OfRow(i) : \A l \in c.patches \cap Lists : j \in stored[l]}
     IN  /\ stored' = [l \in Lists |-> IF l \in c.touches THEN stored[l] \cup {i} ELSE stored[l]]
         /\ change' = [change EXCEPT ![i] = [@ EXCEPT !.stage = "stored", !.got = before \cup {i}]]
  /\ UNCHANGED <<page, shown, loads, loading, problem, agency, filtered, raced, missed,
                 overtaken, crossed, blanked>>

\* Refused, or the request or its answer is lost: the handler shows an error.
ChangeFails(i) ==
  /\ UnderWay(i)
  /\ change' = [change EXCEPT ![i].stage = "failed"]
  /\ problem' = [problem EXCEPT ![change[i].on] = TRUE]
  /\ UNCHANGED <<page, stored, shown, loads, loading, agency, filtered, raced, missed,
                 overtaken, crossed, blanked>>

\* mutant: the page that lists what was accepted is not reloaded
OwnPanelOnly(c, p) == c.reloads \cap {p}
\* The reloads that follow a change: of its panel, or by the callback its parent gave.
Reloads(c, p) == c.reloads

ChangeAnswered(i) ==
  /\ In(i, "stored")
  /\ LET c == change[i].does  p == change[i].on  got == change[i].got IN
     /\ shown' = [l \in Lists |-> IF l \in c.patches THEN (shown[l] \ OfRow(i)) \cup got
                                                    ELSE shown[l]]
     /\ overtaken' = overtaken \cup {j \in OfRow(i) \ got : In(j, "done")}
     /\ Begin(Reloads(c, p), agency, {i})
     /\ raced' = IF \E q \in page : loads[q] # <<>> /\ Panel[q].lists \cap c.touches # {}
                 THEN raced \cup {i} ELSE raced
  /\ change' = [change EXCEPT ![i].stage = "done"]
  /\ UNCHANGED <<page, stored, problem, agency, filtered, missed, crossed, blanked>>

\* The filter of the forms library: each choice starts a load.
Choose(a) ==
  /\ "forms" \in page /\ a # agency /\ MayAct
  /\ change' = [change EXCEPT ![Next1] = Change("done", "forms", Do({}, {}, {}), Next1)]
  /\ agency' = a
  /\ Begin({"forms"}, a, {})
  /\ crossed' = (crossed \/ loads["forms"] # <<>>)
  /\ UNCHANGED <<page, stored, shown, problem, filtered, raced, missed, overtaken,
                 blanked>>

\* A panel that loads on demand: the versions of a document, the audit log of a company.
Open(p) ==
  /\ p \in page /\ ~Panel[p].mounts /\ ~loading[p] /\ MayAct
  /\ change' = [change EXCEPT ![Next1] = Change("done", p, Do({}, {}, {}), Next1)]
  /\ Begin({p}, agency, {})
  /\ UNCHANGED <<page, stored, shown, problem, agency, filtered, raced, missed, overtaken,
                 crossed, blanked>>

-----------------------------------------------------------------------------
Init ==
  /\ page \in Pages
  /\ stored = [l \in Lists |-> {}] /\ shown = stored
  /\ agency = None /\ filtered = None
  /\ loads = [p \in page |-> IF p \in page /\ Panel[p].mounts THEN <<Load(None, {})>> ELSE <<>>]
  /\ loading = [p \in page |-> p \in page /\ Panel[p].mounts]
  /\ problem = [p \in page |-> FALSE]
  /\ change = [i \in Ids |-> Unmade]
  /\ raced = {} /\ missed = {} /\ overtaken = {} /\ crossed = FALSE /\ blanked = FALSE

LoadStep(p) ==
  \E k \in DOMAIN loads[p] :
    \/ LoadShown(p, k) \/ LoadFails(p, k) \/ (p = "reports" /\ DetailsFail(k))
    \/ \E l \in Panel[p].lists : ServeList(p, k, l) \/ ListFails(p, k, l)

Next ==
  \/ \E p \in page : LoadStep(p) \/ Open(p) \/ \E c \in Offers[p] : Make(p, c)
  \/ \E i \in Ids : Commit(i) \/ ChangeFails(i) \/ ChangeAnswered(i)
  \/ \E a \in Agencies : Choose(a)

\* A request is answered or given up, and the page handles what comes.
Fairness == WF_vars(\E p \in page : LoadStep(p))

Spec == Init /\ [][Next]_vars /\ Fairness

-----------------------------------------------------------------------------
Settled == /\ \A p \in page : loads[p] = <<>>
           /\ \A i \in Ids : ~UnderWay(i)

(* Once nothing is under way the page shows every change the user made on    *)
(* it, in every list it touched, with three exceptions: a load was under way *)
(* when its answer came; its reload failed; or the answer to an older change *)
(* of the same row came after its own, and put the older row back. One       *)
(* handler forgets a list: uploading a version leaves the row of the         *)
(* document as it was.                                                       *)
OwnChangesShown ==
  Settled => \A i \in Ids \ (raced \cup missed \cup overtaken) : In(i, "done") =>
    \A l \in change[i].does.touches \cap Lists :
      i \in shown[l] \/ (change[i].on = "versions" /\ l = "documents")

(* The forms shown are those of the agency chosen last, or an error is       *)
(* shown, unless two loads overlapped: nothing stops the older answer from   *)
(* coming last.                                                              *)
FormsMatchFilter ==
  "forms" \in page =>
    (loads["forms"] = <<>> /\ ~crossed => filtered = agency \/ problem["forms"])

(* A page shows what its user did and chose, and no change the server does   *)
(* not have.                                                                 *)
PageFollowsUser ==
  /\ OwnChangesShown /\ FormsMatchFilter
  /\ \A l \in Lists : shown[l] \subseteq stored[l]

(* Every panel gets past its skeleton, but for the reports after the details *)
(* of a run could not be had.                                                *)
SkeletonsEnd == []<>(\A p \in page : loading[p] => p = "reports" /\ blanked)

-----------------------------------------------------------------------------
(* The invariant that PageFollowsUser needs. *)

Nothing == Do({}, {}, {})
Loads == [has : UNION {[S -> SUBSET Ids] : S \in SUBSET Lists}, lost : SUBSET Lists,
          filter : Agencies \cup {None}, after : SUBSET Ids]
Changes == [stage : {"sent", "stored", "failed", "done"}, on : page,
            does : (UNION {Offers[p] : p \in page}) \cup {Nothing}, row : Ids,
            got : SUBSET Ids]
Under(p) == {loads[p][k] : k \in DOMAIN loads[p]}

(* A load of panel p brings list l, or the panel shows an error. *)
Reads(p, l) == l \in Panel[p].lists /\ ~Panel[p].settled

MadeOK ==
  /\ DOMAIN change = Ids
  /\ \A i \in Ids : change[i] # Unmade =>
       change[i] \in Changes /\ change[i].does \in Offers[change[i].on] \cup {Nothing}

TypeOK ==
  /\ page \in Pages
  /\ stored \in [Lists -> SUBSET Ids] /\ shown \in [Lists -> SUBSET Ids]
  /\ loads \in [page -> Seq(Loads)] /\ problem \in [page -> BOOLEAN]
  /\ MadeOK
  /\ agency \in Agencies \cup {None} /\ filtered \in Agencies \cup {None}

(* A load brings what the server had, and only loads that settle lose a list. *)
LoadsOK ==
  \A p \in page : \A d \in Under(p) :
    /\ DOMAIN d.has \subseteq Panel[p].lists
    /\ \A l \in DOMAIN d.has : d.has[l] \subseteq stored[l]
    /\ d.lost # {} => Panel[p].settled

(* What was answered is stored, and so is what the answer has, and what is shown. *)
StoredOK ==
  /\ \A i \in Ids : In(i, "stored") \/ In(i, "done") =>
       \A l \in change[i].does.touches \cap Lists : i \in stored[l]
  /\ \A i \in Ids : In(i, "stored") =>
       /\ i \in change[i].got
       /\ \A l \in change[i].does.patches \cap Lists : change[i].got \subseteq stored[l]
  /\ \A l \in Lists : shown[l] \subseteq stored[l]

(* Where a change is shown, or will be when the reload after it ends: no load  *)
(* under way brings a list from before it.                                   *)
Reaches(i, l) ==
  /\ \A p \in page : \A d \in Under(p) : l \in DOMAIN d.has => i \in d.has[l]
  /\ \/ i \in shown[l]
     \/ \E p \in page : Reads(p, l) /\ \E d \in Under(p) : d.after = {i}

Followed(i) ==
  In(i, "done") =>
    \A l \in change[i].does.touches \cap Lists :
      Reaches(i, l) \/ (change[i].on = "versions" /\ l = "documents")

OwnOK == \A i \in Ids \ (raced \cup missed \cup overtaken) : Followed(i)

FormsOK ==
  "forms" \in page /\ ~crossed =>
    \/ loads["forms"] = <<>> /\ (filtered = agency \/ problem["forms"])
    \/ Len(loads["forms"]) = 1 /\ loads["forms"][1].filter = agency

IInv == TypeOK /\ LoadsOK /\ StoredOK /\ OwnOK /\ FormsOK
=============================================================================
