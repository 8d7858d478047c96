------------------------------ MODULE WebProofs -----------------------------
(* Proofs about the dashboard's pages, the tab's session and the assistant's *)
(* page, for every bound on what the user does.                              *)
EXTENDS MCWeb, NaturalsInduction, WellFoundedInduction, SequenceTheorems, TLAPS

(***************************************************************************)
(* The pages: Screens                                                       *)
(***************************************************************************)

(* A handler patches or loads again every list its change alters, but for one. *)
Covers(c, p, pg) ==
  /\ c.patches \subseteq c.touches /\ c.reloads \subseteq pg
  /\ \A l \in c.touches :
       \/ l \in c.patches \/ (p = "versions" /\ l = "documents")
       \/ \E q \in c.reloads : Reads(q, l)

(* The tables of Screens, entry by entry. *)
LEMMA OffersAre ==
  /\ Offers["companies"] = {CreateCompanyForm}
  /\ Offers["invitations"] = {AcceptInvitation}
  /\ Offers["clientInvitations"] = {RespondToClientInvitation}
  /\ Offers["overview"] = {Scan, IssueStatus}
  /\ Offers["payroll"] = {AddEmployeeForm, CreateRunForm}
  /\ Offers["run"] = {ComputeOrFinalize}
  /\ Offers["tax"] = {ComputeTaxForm, ConfirmTax}
  /\ Offers["vault"] = {NewFolderForm, UploadForm}
  /\ Offers["versions"] = {UploadVersion}
  /\ Offers["profile"] = {CompanyProfileForm}
  /\ Offers["branches"] = {AddBranchForm, ToggleStatus}
  /\ Offers["roles"] = {InviteStaffForm, RevokeStaff}
  /\ Offers["reports"] = {}
  /\ Offers["firms"] = {CreateFirmForm}
  /\ Offers["firmInvitations"] = {AcceptFirmInvitation}
  /\ Offers["firmOverview"] = {}
  /\ Offers["clients"] = {RemoveClient, CreateClientForm, InviteExistingCompanyForm}
  /\ Offers["assignments"] = {AssignmentRow, AssignStaffForm}
  /\ Offers["firmStaff"] = {InviteFirmStaffForm, RevokeOrChangeRole}
  /\ Offers["firmProfile"] = {SaveFirm}
  /\ Offers["securityEvents"] = {}
  /\ Offers["auditLogs"] = {}
  /\ Offers["forms"] = {}
  /\ Offers["devices"] = {RevokeSession}
  /\ Offers["notices"] = {TogglePreference}
BY DEF Offers

LEMMA ReloadsRead ==
  /\ Reads("assignments", "assignments")
  /\ Reads("branches", "branches")
  /\ Reads("clients", "clients")
  /\ Reads("companies", "companies")
  /\ Reads("firmStaff", "firm staff")
  /\ Reads("firms", "firms")
  /\ Reads("overview", "issues") /\ Reads("overview", "rollup")
  /\ Reads("payroll", "employees") /\ Reads("payroll", "runs")
  /\ Reads("roles", "staff")
  /\ Reads("run", "run")
  /\ Reads("tax", "computations")
  /\ Reads("vault", "documents") /\ Reads("vault", "folders")
  /\ Reads("versions", "versions")
BY DEF Reads, Panel, Mounts, OnDemand, AssignmentsContent, BranchesSection, FirmClientsContent,
       UseMyCompanies, FirmStaffContent, UseMyFirms, DashboardContent, PayrollContent,
       RolesContent, PayrollRunContent, TaxContent, DocumentsContent, DocumentRow

(* A button or a form of a row alters its list, and patches it from the answer. *)
LEMMA ButtonsAre ==
  ASSUME NEW list, NEW c \in {RowButton(list), SaveForm(list), RemoveButton(list)}
  PROVE  c.touches = {list} /\ c.patches = {list} /\ c.reloads = {}
<1> DEFINE d == Do({list}, {list}, {})
           e == [d EXCEPT !.replaces = TRUE]
           f == [e EXCEPT !.waits = TRUE]
<1>1. /\ d.touches = {list} /\ d.patches = {list} /\ d.reloads = {}
      /\ DOMAIN d = {"touches", "patches", "reloads", "replaces", "waits"}
  BY DEF Do
<1> HIDE DEF d
<1>2. /\ e.touches = {list} /\ e.patches = {list} /\ e.reloads = {}
      /\ DOMAIN e = {"touches", "patches", "reloads", "replaces", "waits"}
  BY <1>1
<1> HIDE DEF e
<1>3. f.touches = {list} /\ f.patches = {list} /\ f.reloads = {}
  BY <1>2
<1> HIDE DEF f
<1>4. RowButton(list) = e /\ SaveForm(list) = f /\ RemoveButton(list) = d
  BY DEF RowButton, SaveForm, RemoveButton, d, e, f
<1>. QED
  BY <1>1, <1>2, <1>3, <1>4

LEMMA HandlersCover ==
  ASSUME NEW pg \in Pages, NEW p \in pg, NEW c \in Offers[p]
  PROVE  Covers(c, p, pg)
<1>1. CASE pg = {"companies", "invitations", "clientInvitations"}
  <2>1. Covers(CreateCompanyForm, "companies", {"companies", "invitations", "clientInvitations"})
    BY ReloadsRead DEF Covers, CreateCompanyForm, Do
  <2>2. Covers(AcceptInvitation, "invitations", {"companies", "invitations", "clientInvitations"})
    BY ReloadsRead DEF Covers, AcceptInvitation, Do
  <2>3. Covers(RespondToClientInvitation, "clientInvitations",
               {"companies", "invitations", "clientInvitations"})
    BY ReloadsRead DEF Covers, RespondToClientInvitation, Do
  <2>. QED
    BY <1>1, OffersAre, <2>1, <2>2, <2>3
<1>2. CASE pg = {"overview"}
  <2>1. Covers(Scan, "overview", {"overview"})
    BY ReloadsRead DEF Covers, Scan, Do
  <2>2. Covers(IssueStatus, "overview", {"overview"})
    BY ReloadsRead, ButtonsAre DEF Covers, IssueStatus
  <2>. QED
    BY <1>2, OffersAre, <2>1, <2>2
<1>3. CASE pg = {"payroll"}
  <2>1. Covers(AddEmployeeForm, "payroll", {"payroll"})
    BY ReloadsRead DEF Covers, AddEmployeeForm, Do
  <2>2. Covers(CreateRunForm, "payroll", {"payroll"})
    BY ReloadsRead DEF Covers, CreateRunForm, Do
  <2>. QED
    BY <1>3, OffersAre, <2>1, <2>2
<1>4. CASE pg = {"run"}
  <2>1. Covers(ComputeOrFinalize, "run", {"run"})
    BY ReloadsRead DEF Covers, ComputeOrFinalize, Do
  <2>. QED
    BY <1>4, OffersAre, <2>1
<1>5. CASE pg = {"tax"}
  <2>1. Covers(ComputeTaxForm, "tax", {"tax"})
    BY ReloadsRead DEF Covers, ComputeTaxForm, Do
  <2>2. Covers(ConfirmTax, "tax", {"tax"})
    BY ReloadsRead, ButtonsAre DEF Covers, ConfirmTax
  <2>. QED
    BY <1>5, OffersAre, <2>1, <2>2
<1>6. CASE pg = {"vault", "versions"}
  <2>1. Covers(NewFolderForm, "vault", {"vault", "versions"})
    BY ReloadsRead DEF Covers, NewFolderForm, Do
  <2>2. Covers(UploadForm, "vault", {"vault", "versions"})
    BY ReloadsRead DEF Covers, UploadForm, Do
  <2>3. Covers(UploadVersion, "versions", {"vault", "versions"})
    BY ReloadsRead DEF Covers, UploadVersion, Do
  <2>. QED
    BY <1>6, OffersAre, <2>1, <2>2, <2>3
<1>7. CASE pg = {"profile", "branches"}
  <2>1. Covers(CompanyProfileForm, "profile", {"profile", "branches"})
    BY ReloadsRead, ButtonsAre DEF Covers, CompanyProfileForm
  <2>2. Covers(AddBranchForm, "branches", {"profile", "branches"})
    BY ReloadsRead DEF Covers, AddBranchForm, Do
  <2>3. Covers(ToggleStatus, "branches", {"profile", "branches"})
    BY ReloadsRead, ButtonsAre DEF Covers, ToggleStatus
  <2>. QED
    BY <1>7, OffersAre, <2>1, <2>2, <2>3
<1>8. CASE pg = {"roles"}
  <2>1. Covers(InviteStaffForm, "roles", {"roles"})
    BY ReloadsRead DEF Covers, InviteStaffForm, Do
  <2>2. Covers(RevokeStaff, "roles", {"roles"})
    BY ReloadsRead, ButtonsAre DEF Covers, RevokeStaff
  <2>. QED
    BY <1>8, OffersAre, <2>1, <2>2
<1>9. CASE pg = {"reports"}
  BY <1>9, OffersAre
<1>10. CASE pg = {"firms", "firmInvitations"}
  <2>1. Covers(CreateFirmForm, "firms", {"firms", "firmInvitations"})
    BY ReloadsRead DEF Covers, CreateFirmForm, Do
  <2>2. Covers(AcceptFirmInvitation, "firmInvitations", {"firms", "firmInvitations"})
    BY ReloadsRead DEF Covers, AcceptFirmInvitation, Do
  <2>. QED
    BY <1>10, OffersAre, <2>1, <2>2
<1>11. CASE pg = {"firmOverview"}
  BY <1>11, OffersAre
<1>12. CASE pg = {"clients"}
  <2>1. Covers(RemoveClient, "clients", {"clients"})
    BY ReloadsRead, ButtonsAre DEF Covers, RemoveClient
  <2>2. Covers(CreateClientForm, "clients", {"clients"})
    BY ReloadsRead DEF Covers, CreateClientForm, Do
  <2>3. Covers(InviteExistingCompanyForm, "clients", {"clients"})
    BY ReloadsRead DEF Covers, InviteExistingCompanyForm, Do
  <2>. QED
    BY <1>12, OffersAre, <2>1, <2>2, <2>3
<1>13. CASE pg = {"assignments"}
  <2>1. Covers(AssignmentRow, "assignments", {"assignments"})
    BY ReloadsRead DEF Covers, AssignmentRow, Do
  <2>2. Covers(AssignStaffForm, "assignments", {"assignments"})
    BY ReloadsRead DEF Covers, AssignStaffForm, Do
  <2>. QED
    BY <1>13, OffersAre, <2>1, <2>2
<1>14. CASE pg = {"firmStaff"}
  <2>1. Covers(InviteFirmStaffForm, "firmStaff", {"firmStaff"})
    BY ReloadsRead DEF Covers, InviteFirmStaffForm, Do
  <2>2. Covers(RevokeOrChangeRole, "firmStaff", {"firmStaff"})
    BY ReloadsRead, ButtonsAre DEF Covers, RevokeOrChangeRole
  <2>. QED
    BY <1>14, OffersAre, <2>1, <2>2
<1>15. CASE pg = {"firmProfile"}
  <2>1. Covers(SaveFirm, "firmProfile", {"firmProfile"})
    BY ReloadsRead, ButtonsAre DEF Covers, SaveFirm
  <2>. QED
    BY <1>15, OffersAre, <2>1
<1>16. CASE pg = {"securityEvents", "auditLogs"}
  BY <1>16, OffersAre
<1>17. CASE pg = {"forms"}
  BY <1>17, OffersAre
<1>18. CASE pg = {"devices"}
  <2>1. Covers(RevokeSession, "devices", {"devices"})
    BY ReloadsRead, ButtonsAre DEF Covers, RevokeSession
  <2>. QED
    BY <1>18, OffersAre, <2>1
<1>19. CASE pg = {"notices"}
  <2>1. Covers(TogglePreference, "notices", {"notices"})
    BY ReloadsRead, ButtonsAre DEF Covers, TogglePreference
  <2>. QED
    BY <1>19, OffersAre, <2>1
<1>. QED
  BY <1>1, <1>2, <1>3, <1>4, <1>5, <1>6, <1>7, <1>8, <1>9, <1>10, <1>11, <1>12, <1>13, <1>14,
     <1>15, <1>16, <1>17, <1>18, <1>19 DEF Pages

(***************************************************************************)
(* The pages                                                                *)
(***************************************************************************)

LEMMA LeastId ==
  ASSUME NEW S \in SUBSET Nat, S # {}
  PROVE  \E i \in S : \A n \in S : i <= n
<1>1. PICK i \in S : \A n \in S : <<n, i>> \notin OpToRel(<, Nat)
  BY NatLessThanWellFounded, WFMin
<1>2. \A n \in S : ~(n < i)
  BY <1>1 DEF OpToRel
<1>. QED
  BY <1>2

(* The change made next was not made yet. *)
LEMMA Next1Is == MayAct => Next1 \in Ids /\ change[Next1] = Unmade
<1>. SUFFICES ASSUME MayAct PROVE Next1 \in Ids /\ change[Next1] = Unmade
  OBVIOUS
<1> DEFINE S == {i \in Ids : change[i] = Unmade}
<1>1. S \in SUBSET Nat /\ S # {}
  BY IdsAssumption DEF MayAct
<1>2. PICK n \in S : \A j \in S : n <= j
  BY <1>1, LeastId
<1>3. n \in Ids /\ change[n] = Unmade /\ \A j \in Ids : j < n => change[j] # Unmade
  BY <1>1, <1>2, IdsAssumption
<1>. QED
  BY <1>3 DEF Next1

(* What a sequence holds after one of its entries is added, replaced or taken out. *)
LEMMA AppendedRange ==
  ASSUME NEW S, NEW s \in Seq(S), NEW x \in S
  PROVE  LET e == Append(s, x) IN
         /\ e \in Seq(S) /\ Len(e) = Len(s) + 1
         /\ {e[k] : k \in DOMAIN e} = {s[k] : k \in DOMAIN s} \cup {x}
<1> DEFINE e == Append(s, x)
<1>1. /\ e \in Seq(S) /\ Len(e) = Len(s) + 1 /\ Len(s) \in Nat
      /\ \A k \in 1..Len(s) : e[k] = s[k]
      /\ e[Len(s) + 1] = x
  OBVIOUS
<1>2. DOMAIN e = 1..(Len(s) + 1) /\ DOMAIN s = 1..Len(s)
  BY <1>1
<1> HIDE DEF e
<1>3. \A k \in DOMAIN e : k \in DOMAIN s \/ k = Len(s) + 1
  BY <1>1, <1>2
<1>4. \A k \in DOMAIN s : k \in DOMAIN e
  BY <1>1, <1>2
<1>5. Len(s) + 1 \in DOMAIN e
  BY <1>1, <1>2
<1>6. {e[k] : k \in DOMAIN e} = {s[k] : k \in DOMAIN s} \cup {x}
  BY <1>1, <1>2, <1>3, <1>4, <1>5
<1>. QED
  BY <1>1, <1>6 DEF e

LEMMA ReplacedRange ==
  ASSUME NEW S, NEW s \in Seq(S), NEW k \in DOMAIN s, NEW x \in S
  PROVE  LET e == [s EXCEPT ![k] = x] IN
         /\ e \in Seq(S) /\ Len(e) = Len(s) /\ DOMAIN e = DOMAIN s /\ e[k] = x
         /\ \A j \in DOMAIN s : j # k => e[j] = s[j]
<1> DEFINE e == [s EXCEPT ![k] = x]
<1>1. s \in [1..Len(s) -> S] /\ Len(s) \in Nat /\ k \in 1..Len(s)
  OBVIOUS
<1>2. /\ e \in [1..Len(s) -> S] /\ DOMAIN e = DOMAIN s /\ e[k] = x
      /\ \A j \in DOMAIN s : j # k => e[j] = s[j]
  BY <1>1
<1> HIDE DEF e
<1>3. e \in Seq(S) /\ Len(e) = Len(s)
  BY <1>1, <1>2
<1>. QED
  BY <1>2, <1>3 DEF e

LEMMA RemovedRange ==
  ASSUME NEW S, NEW s \in Seq(S), NEW k \in DOMAIN s
  PROVE  LET e == RemoveAt(s, k) IN
         /\ e \in Seq(S) /\ Len(e) = Len(s) - 1
         /\ {e[j] : j \in DOMAIN e} \subseteq {s[j] : j \in DOMAIN s}
         /\ {s[j] : j \in DOMAIN s} \subseteq {e[j] : j \in DOMAIN e} \cup {s[k]}
<1> DEFINE a == SubSeq(s, 1, k - 1)
           b == SubSeq(s, k + 1, Len(s))
           e == a \o b
           n == Len(s)
<1>1. n \in Nat /\ k \in 1..n /\ DOMAIN s = 1..n
  OBVIOUS
<1>2. /\ a \in Seq(S) /\ Len(a) = k - 1
      /\ \A j \in 1..(k - 1) : a[j] = s[j]
  BY <1>1
<1>3. /\ b \in Seq(S) /\ Len(b) = n - k
      /\ \A j \in 1..(n - k) : b[j] = s[k + j]
  BY <1>1
<1> HIDE DEF a, b
<1>4. /\ e \in Seq(S) /\ Len(e) = n - 1
      /\ \A j \in 1..(k - 1) : e[j] = s[j]
      /\ \A j \in k..(n - 1) : e[j] = s[j + 1]
  <2>1. /\ e \in Seq(S) /\ Len(e) = Len(a) + Len(b)
        /\ \A j \in 1..Len(a) + Len(b) : e[j] = IF j <= Len(a) THEN a[j] ELSE b[j - Len(a)]
    <3>1. a \in Seq(S) /\ b \in Seq(S)
      BY <1>2, <1>3
    <3>. QED
      BY <3>1, ConcatProperties
  <2> HIDE DEF e
  <2>2. Len(e) = n - 1
    BY <1>1, <1>2, <1>3, <2>1
  <2>3. ASSUME NEW j \in 1..(k - 1) PROVE e[j] = s[j]
    BY <1>1, <1>2, <2>1, <2>2
  <2>4. ASSUME NEW j \in k..(n - 1) PROVE e[j] = s[j + 1]
    <3>1. j \in 1..Len(e) /\ ~(j <= Len(a)) /\ j - Len(a) = j - k + 1
      BY <1>1, <1>2, <2>2
    <3>2. j - k + 1 \in 1..(n - k) /\ k + (j - k + 1) = j + 1
      BY <1>1
    <3>. QED
      BY <1>3, <2>1, <3>1, <3>2
  <2>. QED
    BY <2>1, <2>2, <2>3, <2>4
<1> HIDE DEF e
<1>5. DOMAIN e = 1..(n - 1)
  BY <1>4
<1>6. \A j \in DOMAIN e : \E m \in DOMAIN s : e[j] = s[m]
  <2>. SUFFICES ASSUME NEW j \in DOMAIN e PROVE \E m \in DOMAIN s : e[j] = s[m]
    OBVIOUS
  <2>1. CASE j < k
    BY <1>1, <1>4, <1>5, <2>1, SMTT(40)
  <2>2. CASE j >= k
    BY <1>1, <1>4, <1>5, <2>2, SMTT(40)
  <2>. QED
    BY <1>1, <1>5, <2>1, <2>2
<1>7. \A m \in DOMAIN s : m # k => \E j \in DOMAIN e : e[j] = s[m]
  <2>. SUFFICES ASSUME NEW m \in DOMAIN s, m # k PROVE \E j \in DOMAIN e : e[j] = s[m]
    OBVIOUS
  <2>1. CASE m < k
    BY <1>1, <1>4, <1>5, <2>1
  <2>2. CASE m > k
    <3>1. m - 1 \in k..(n - 1) /\ m - 1 \in 1..(n - 1) /\ (m - 1) + 1 = m
      BY <1>1, <2>2
    <3>. QED
      BY <1>4, <1>5, <3>1
  <2>. QED
    BY <1>1, <2>1, <2>2
<1>8. RemoveAt(s, k) = e
  BY DEF RemoveAt, e, a, b
<1>. QED
  BY <1>4, <1>6, <1>7, <1>8

(* The page that is open stays. *)
LEMMA SamePage ==
  ASSUME page' = page
  PROVE  Lists' = Lists /\ Loads' = Loads /\ Changes' = Changes
BY DEF Lists, Loads, Changes

(* The forms library is a page of its own, where no change is offered; the reports settle. *)
LEMMA FormsAlone == page \in Pages /\ "forms" \in page => page = {"forms"}
BY DEF Pages

LEMMA PanelsAre ==
  /\ Panel["forms"].mounts /\ ~Panel["forms"].settled
  /\ Panel["reports"].settled
BY DEF Panel, FormsLibraryContent, ReportsContent, Mounts, Settles

LEMMA LoadIs ==
  ASSUME NEW f \in Agencies \cup {None}, NEW after \in SUBSET Ids
  PROVE  /\ Load(f, after) \in Loads
         /\ DOMAIN Load(f, after).has = {} /\ Load(f, after).lost = {}
         /\ Load(f, after).filter = f /\ Load(f, after).after = after
<1> DEFINE e == [l \in {} |-> {}]
<1>1. e \in [{} -> SUBSET Ids] /\ {} \in SUBSET Lists /\ DOMAIN e = {}
  OBVIOUS
<1> HIDE DEF e
<1>2. e \in UNION {[S -> SUBSET Ids] : S \in SUBSET Lists}
  BY <1>1
<1>3. Load(f, after) = [has |-> e, lost |-> {}, filter |-> f, after |-> after]
  BY DEF Load, e
<1>. QED
  BY <1>1, <1>2, <1>3 DEF Loads

LEMMA PartsOf ==
  ASSUME NEW d \in Loads
  PROVE  /\ d = [has |-> d.has, lost |-> d.lost, filter |-> d.filter, after |-> d.after]
         /\ d.lost \in SUBSET Lists /\ d.filter \in Agencies \cup {None} /\ d.after \in SUBSET Ids
         /\ DOMAIN d.has \in SUBSET Lists /\ d.has \in [DOMAIN d.has -> SUBSET Ids]
<1> DEFINE H == UNION {[S -> SUBSET Ids] : S \in SUBSET Lists}
<1>1. \A h \in H : DOMAIN h \in SUBSET Lists /\ h \in [DOMAIN h -> SUBSET Ids]
  OBVIOUS
<1>2. Loads = [has : H, lost : SUBSET Lists, filter : Agencies \cup {None}, after : SUBSET Ids]
  BY DEF Loads
<1> HIDE DEF H
<1>. QED
  BY <1>1, <1>2

LEMMA LoadOf ==
  ASSUME TypeOK, NEW p \in page, NEW k \in DOMAIN loads[p]
  PROVE  loads[p] \in Seq(Loads) /\ loads[p][k] \in Loads /\ loads[p][k] \in Under(p)
<1> DEFINE L == Loads
<1>1. loads[p] \in Seq(L)
  BY DEF TypeOK
<1> HIDE DEF L
<1>2. loads[p][k] \in L
  BY <1>1, ElementOfSeq
<1>. QED
  BY <1>1, <1>2 DEF Under, L

(* What a step that starts, answers or ends a load does to the loads under way. *)
Started(ps, f, after) ==
  /\ loads' \in [page -> Seq(Loads)]
  /\ \A q \in page \ ps : loads'[q] = loads[q]
  /\ \A q \in page \cap ps : loads'[q] = Append(loads[q], Load(f, after))
  /\ \A q \in page : /\ Under(q) \subseteq Under(q)'
                     /\ Under(q)' \subseteq Under(q) \cup {Load(f, after)}
                     /\ q \in ps => Load(f, after) \in Under(q)'

LEMMA BeginIs ==
  ASSUME TypeOK, page' = page, NEW ps, NEW f \in Agencies \cup {None},
         NEW after \in SUBSET Ids, Begin(ps, f, after)
  PROVE  Started(ps, f, after)
<1> DEFINE L == Loads
           d == Load(f, after)
<1>1. d \in L /\ loads \in [page -> Seq(L)]
  BY LoadIs DEF TypeOK
<1>2. loads' = [q \in page |-> IF q \in ps THEN Append(loads[q], d) ELSE loads[q]]
  BY DEF Begin
<1> HIDE DEF L, d
<1>3. ASSUME NEW q \in page, q \in ps
      PROVE  /\ loads'[q] \in Seq(L) /\ loads'[q] = Append(loads[q], d)
             /\ Under(q)' = Under(q) \cup {d}
  <2>1. loads[q] \in Seq(L) /\ loads'[q] = Append(loads[q], d)
    BY <1>1, <1>2, <1>3
  <2>2. /\ loads'[q] \in Seq(L)
        /\ {loads'[q][k] : k \in DOMAIN loads'[q]}
             = {loads[q][k] : k \in DOMAIN loads[q]} \cup {d}
    BY <2>1, <1>1, AppendedRange
  <2>. QED
    BY <2>1, <2>2 DEF Under
<1>4. ASSUME NEW q \in page, q \notin ps
      PROVE  loads'[q] \in Seq(L) /\ loads'[q] = loads[q] /\ Under(q)' = Under(q)
  BY <1>1, <1>2, <1>4 DEF Under
<1>5. loads' \in [page -> Seq(L)]
  BY <1>2, <1>3, <1>4
<1>. QED
  BY <1>3, <1>4, <1>5 DEF Started, L, d

Ended(p, k) ==
  /\ loads' \in [page -> Seq(Loads)]
  /\ Len(loads'[p]) = Len(loads[p]) - 1
  /\ \A q \in page : q # p => loads'[q] = loads[q] /\ Under(q)' = Under(q)
  /\ Under(p)' \subseteq Under(p)
  /\ Under(p) \subseteq Under(p)' \cup {loads[p][k]}

LEMMA EndsIs ==
  ASSUME TypeOK, page' = page, NEW p \in page, NEW k \in DOMAIN loads[p], Ends(p, k)
  PROVE  Ended(p, k)
<1> DEFINE L == Loads
           s == loads[p]
           e == RemoveAt(s, k)
<1>1. loads \in [page -> Seq(L)] /\ s \in Seq(L) /\ k \in DOMAIN s
  BY DEF TypeOK
<1>2. loads' = [loads EXCEPT ![p] = e]
  BY DEF Ends
<1>3. loads'[p] = e /\ \A q \in page : q # p => loads'[q] = loads[q]
  BY <1>1, <1>2
<1> HIDE DEF L
<1>4. /\ e \in Seq(L) /\ Len(e) = Len(s) - 1
      /\ {e[j] : j \in DOMAIN e} \subseteq {s[j] : j \in DOMAIN s}
      /\ {s[j] : j \in DOMAIN s} \subseteq {e[j] : j \in DOMAIN e} \cup {s[k]}
  <2> HIDE DEF s
  <2>. QED
    BY <1>1, RemovedRange
<1>5. loads' \in [page -> Seq(L)]
  BY <1>1, <1>2, <1>4
<1>6. Under(p)' = {e[j] : j \in DOMAIN e} /\ Under(p) = {s[j] : j \in DOMAIN s}
  BY <1>3 DEF Under
<1> HIDE DEF s, e
<1>7. Len(loads'[p]) = Len(loads[p]) - 1 /\ s[k] = loads[p][k]
  BY <1>3, <1>4 DEF s
<1>8. \A q \in page : q # p => loads'[q] = loads[q] /\ Under(q)' = Under(q)
  BY <1>3 DEF Under
<1>9. Under(p)' \subseteq Under(p) /\ Under(p) \subseteq Under(p)' \cup {loads[p][k]}
  BY <1>4, <1>6, <1>7
<1>. QED
  BY <1>5, <1>7, <1>8, <1>9 DEF Ended, L

Altered(p, k, d) ==
  /\ loads' \in [page -> Seq(Loads)]
  /\ \A q \in page : q # p => loads'[q] = loads[q] /\ Under(q)' = Under(q)
  /\ Len(loads'[p]) = Len(loads[p]) /\ loads'[p][k] = d
  /\ d \in Under(p)'
  /\ Under(p)' \subseteq Under(p) \cup {d}
  /\ Under(p) \subseteq Under(p)' \cup {loads[p][k]}

LEMMA AltersIs ==
  ASSUME TypeOK, page' = page, NEW p \in page, NEW k \in DOMAIN loads[p], NEW d \in Loads,
         loads' = [loads EXCEPT ![p] = [loads[p] EXCEPT ![k] = d]]
  PROVE  Altered(p, k, d)
<1> DEFINE L == Loads
           s == loads[p]
           e == [s EXCEPT ![k] = d]
<1>1. loads \in [page -> Seq(L)] /\ s \in Seq(L) /\ d \in L /\ k \in DOMAIN s
  BY DEF TypeOK
<1>2. loads'[p] = e /\ \A q \in page : q # p => loads'[q] = loads[q]
  BY <1>1
<1> HIDE DEF L
<1>3. /\ e \in Seq(L) /\ Len(e) = Len(s) /\ DOMAIN e = DOMAIN s /\ e[k] = d
      /\ \A j \in DOMAIN s : j # k => e[j] = s[j]
  BY <1>1, ReplacedRange
<1>4. loads' \in [page -> Seq(L)]
  BY <1>1, <1>3
<1> HIDE DEF s, e
<1>5. /\ d \in {e[j] : j \in DOMAIN e}
      /\ {e[j] : j \in DOMAIN e} \subseteq {s[j] : j \in DOMAIN s} \cup {d}
      /\ {s[j] : j \in DOMAIN s} \subseteq {e[j] : j \in DOMAIN e} \cup {s[k]}
  BY <1>1, <1>3
<1>6. Under(p)' = {e[j] : j \in DOMAIN e} /\ Under(p) = {s[j] : j \in DOMAIN s}
  BY <1>2 DEF Under, s
<1>7. \A q \in page : q # p => loads'[q] = loads[q] /\ Under(q)' = Under(q)
  BY <1>2 DEF Under
<1>8. Len(loads'[p]) = Len(loads[p]) /\ loads'[p][k] = d
  BY <1>2, <1>3 DEF s
<1>9. /\ d \in Under(p)' /\ Under(p)' \subseteq Under(p) \cup {d}
      /\ Under(p) \subseteq Under(p)' \cup {loads[p][k]}
  BY <1>5, <1>6 DEF s
<1>. QED
  BY <1>4, <1>7, <1>8, <1>9 DEF Altered, L

(* What a step does to the changes. *)
Set(i, r) ==
  /\ MadeOK' /\ change'[i] = r
  /\ \A j \in Ids : j # i => change'[j] = change[j]

LEMMA ChangeIs ==
  ASSUME TypeOK, page' = page, NEW i \in Ids, NEW r \in Changes,
         r.does \in Offers[r.on] \cup {Nothing}, change' = [change EXCEPT ![i] = r]
  PROVE  Set(i, r)
<1>1. Changes' = Changes
  BY SamePage
<1>2. DOMAIN change = Ids /\ DOMAIN change' = Ids /\ change'[i] = r
      /\ \A j \in Ids : j # i => change'[j] = change[j]
  BY DEF TypeOK, MadeOK
<1>3. \A j \in Ids : change'[j] # Unmade =>
        change'[j] \in Changes /\ change'[j].does \in Offers[change'[j].on] \cup {Nothing}
  BY <1>2 DEF TypeOK, MadeOK
<1>. QED
  BY <1>1, <1>2, <1>3 DEF Set, MadeOK, Unmade, Nothing, Do

(* A change that was made, and what it does. *)
LEMMA MadeIs ==
  ASSUME TypeOK, NEW i \in Ids, change[i].stage # "none"
  PROVE  /\ change[i] \in Changes /\ change[i].on \in page
         /\ change[i].does \in Offers[change[i].on] \cup {Nothing}
         /\ Covers(change[i].does, change[i].on, page)
<1>1. change[i] # Unmade
  BY DEF Unmade
<1>2. /\ change[i] \in Changes
      /\ change[i].does \in Offers[change[i].on] \cup {Nothing}
  BY <1>1 DEF TypeOK, MadeOK
<1>3. change[i].on \in page
  BY <1>2 DEF Changes
<1>4. CASE change[i].does = Nothing
  BY <1>2, <1>3, <1>4 DEF Covers, Nothing, Do
<1>5. CASE change[i].does \in Offers[change[i].on]
  BY <1>2, <1>3, <1>5, HandlersCover DEF TypeOK
<1>. QED
  BY <1>2, <1>3, <1>4, <1>5

LEMMA StageIs ==
  ASSUME TypeOK, page' = page, NEW i \in Ids, change[i].stage # "none",
         NEW s \in {"sent", "stored", "failed", "done"},
         change' = [change EXCEPT ![i].stage = s]
  PROVE  /\ Set(i, [change[i] EXCEPT !.stage = s])
         /\ change'[i].stage = s /\ change'[i].on = change[i].on
         /\ change'[i].does = change[i].does
<1> DEFINE r == [change[i] EXCEPT !.stage = s]
           D == (UNION {Offers[p] : p \in page}) \cup {Nothing}
<1>1. change[i] \in Changes /\ change[i].does \in Offers[change[i].on] \cup {Nothing}
  BY MadeIs
<1>2. Changes = [stage : {"sent", "stored", "failed", "done"}, on : page, does : D, row : Ids,
                 got : SUBSET Ids]
  BY DEF Changes
<1> HIDE DEF D
<1>3. r \in Changes /\ r.stage = s /\ r.on = change[i].on /\ r.does = change[i].does
  BY <1>1, <1>2
<1>4. change' = [change EXCEPT ![i] = r]
  OBVIOUS
<1> HIDE DEF r
<1>5. Set(i, r)
  BY <1>1, <1>3, <1>4, ChangeIs
<1>. QED
  BY <1>3, <1>5 DEF Set, r

(***************************************************************************)
(* What a step keeps                                                        *)
(***************************************************************************)

(* Loads that bring no more than they did keep their bounds, as lists only grow. *)
LEMMA LoadsKept ==
  ASSUME LoadsOK, page' = page, TypeOK,
         \A l \in Lists : stored[l] \subseteq stored'[l],
         \A p \in page : \A d \in Under(p)' :
           d \in Under(p) \/ (DOMAIN d.has = {} /\ d.lost = {})
  PROVE  LoadsOK'
<1>. SUFFICES ASSUME NEW p \in page, NEW d \in Under(p)'
              PROVE  /\ DOMAIN d.has \subseteq Panel[p].lists
                     /\ \A l \in DOMAIN d.has : d.has[l] \subseteq stored'[l]
                     /\ d.lost # {} => Panel[p].settled
  BY DEF LoadsOK
<1>1. CASE d \in Under(p)
  <2>1. /\ DOMAIN d.has \subseteq Panel[p].lists /\ (d.lost # {} => Panel[p].settled)
        /\ \A l \in DOMAIN d.has : d.has[l] \subseteq stored[l]
    BY <1>1 DEF LoadsOK
  <2>2. \A l \in DOMAIN d.has : l \in Lists
    BY <2>1 DEF Lists
  <2>. QED
    BY <2>1, <2>2
<1>2. CASE DOMAIN d.has = {} /\ d.lost = {}
  BY <1>2
<1>. QED
  BY <1>1, <1>2

(* Where a change reached, it still does, when no load that lacks it came to be under way, *)
(* no list lost it, and the load after it still is. *)
LEMMA ReachKept ==
  ASSUME page' = page, NEW i \in Ids, NEW l \in Lists, Reaches(i, l),
         i \in shown[l] => i \in shown'[l],
         \A p \in page : \A d \in Under(p)' :
           d \in Under(p) \/ l \notin DOMAIN d.has \/ i \in d.has[l],
         \A p \in page : \A d \in Under(p) : Reads(p, l) /\ d.after = {i} =>
           i \in shown'[l] \/ \E e \in Under(p)' : e.after = {i}
  PROVE  Reaches(i, l)'
<1>1. \A p \in page : \A d \in Under(p)' : l \in DOMAIN d.has => i \in d.has[l]
  BY DEF Reaches
<1>2. i \in shown'[l] \/ \E p \in page : Reads(p, l) /\ \E d \in Under(p)' : d.after = {i}
  BY DEF Reaches
<1>3. \A p : Reads(p, l)' <=> Reads(p, l)
  BY DEF Reads
<1>. QED
  BY <1>1, <1>2, <1>3 DEF Reaches

LEMMA FollowedKept ==
  ASSUME page' = page, NEW i \in Ids, In(i, "done")' => Followed(i),
         In(i, "done")' => change'[i] = change[i],
         \A l \in Lists : In(i, "done") /\ l \in change[i].does.touches /\ Reaches(i, l)
                            => Reaches(i, l)'
  PROVE  Followed(i)'
<1>1. Lists' = Lists
  BY SamePage
<1>. QED
  BY <1>1 DEF Followed, In

(* The same, when no load is begun, answered or ended. *)
LEMMA SameReach ==
  ASSUME page' = page, loads' = loads, NEW i \in Ids, NEW l \in Lists, Reaches(i, l),
         i \in shown[l] => i \in shown'[l]
  PROVE  Reaches(i, l)'
<1>1. \A p \in page : Under(p)' = Under(p)
  BY DEF Under
<1>. QED
  BY <1>1, ReachKept

(***************************************************************************)
(* The steps                                                                *)
(***************************************************************************)

LEMMA InitOK == Init => IInv
<1>. SUFFICES ASSUME Init PROVE IInv
  OBVIOUS
<1> DEFINE d == Load(None, {})
           L == Loads
<1>1. d \in L /\ DOMAIN d.has = {} /\ d.lost = {} /\ d.filter = None
  BY LoadIs
<1>2. loads = [p \in page |-> IF p \in page /\ Panel[p].mounts THEN <<d>> ELSE <<>>]
  BY DEF Init
<1> HIDE DEF d, L
<1>3. \A p \in page : loads[p] = <<d>> \/ loads[p] = <<>>
  BY <1>2
<1>4. \A p \in page : Under(p) \subseteq {d}
  BY <1>3 DEF Under
<1>5. TypeOK
  <2>1. loads \in [page -> Seq(L)]
    <3>1. <<d>> \in Seq(L) /\ <<>> \in Seq(L)
      BY <1>1
    <3>. QED
      BY <1>2, <3>1
  <2>2. MadeOK
    BY DEF Init, MadeOK
  <2>3. /\ stored \in [Lists -> SUBSET Ids] /\ shown \in [Lists -> SUBSET Ids]
        /\ problem \in [page -> BOOLEAN] /\ page \in Pages
        /\ agency \in Agencies \cup {None} /\ filtered \in Agencies \cup {None}
    BY DEF Init
  <2>. QED
    BY <2>1, <2>2, <2>3 DEF TypeOK, L
<1>6. LoadsOK
  BY <1>1, <1>4 DEF LoadsOK
<1>7. StoredOK /\ OwnOK
  BY DEF Init, StoredOK, OwnOK, Followed, In, Unmade
<1>8. FormsOK
  <2>. SUFFICES ASSUME "forms" \in page
                PROVE  \/ loads["forms"] = <<>> /\ filtered = agency
                       \/ Len(loads["forms"]) = 1 /\ loads["forms"][1].filter = agency
    BY DEF FormsOK
  <2>. QED
    BY <1>1, <1>3 DEF Init
<1>. QED
  BY <1>5, <1>6, <1>7, <1>8 DEF IInv

LEMMA SameOK == IInv /\ UNCHANGED vars => IInv'
<1>. SUFFICES ASSUME IInv, UNCHANGED vars PROVE IInv'
  OBVIOUS
<1>1. /\ page' = page /\ stored' = stored /\ shown' = shown /\ loads' = loads
      /\ problem' = problem /\ change' = change /\ agency' = agency /\ filtered' = filtered
      /\ raced' = raced /\ missed' = missed /\ overtaken' = overtaken /\ crossed' = crossed
  BY DEF vars
<1>2. Lists' = Lists /\ Loads' = Loads /\ Changes' = Changes
  BY <1>1, SamePage
<1>3. \A p : Under(p)' = Under(p)
  BY <1>1 DEF Under
<1>4. TypeOK'
  BY <1>1, <1>2 DEF IInv, TypeOK, MadeOK
<1>5. LoadsOK'
  BY <1>1, <1>3 DEF IInv, LoadsOK
<1>6. StoredOK'
  BY <1>1, <1>2 DEF IInv, StoredOK, In
<1>7. OwnOK'
  <2>1. \A i \in Ids, l \in Lists : Reaches(i, l) => Reaches(i, l)'
    BY <1>1, SameReach
  <2>. QED
    BY <1>1, <2>1, FollowedKept DEF IInv, OwnOK, In
<1>8. FormsOK'
  BY <1>1 DEF IInv, FormsOK
<1>. QED
  BY <1>4, <1>5, <1>6, <1>7, <1>8 DEF IInv

(* A row is named by a change made of it. *)
LEMMA RowsAreIds ==
  ASSUME TypeOK, Next1 \in Ids, NEW c
  PROVE  Rows(c) \subseteq Ids
<1>1. \A i \in Does(c) : change[i].row \in Ids
  BY DEF TypeOK, MadeOK, Does, Changes
<1>. QED
  BY <1>1 DEF Rows

LEMMA MakeOK ==
  ASSUME IInv, NEW p \in page, NEW c, Make(p, c)
  PROVE  IInv'
<1> DEFINE n == Next1
<1>0. PICK row \in Rows(c) : change' = [change EXCEPT ![Next1] = Change("sent", p, c, row)]
  BY DEF Make
<1> DEFINE r == Change("sent", p, c, row)
<1>1. /\ page' = page /\ stored' = stored /\ shown' = shown /\ loads' = loads
      /\ problem' = problem /\ agency' = agency /\ filtered' = filtered
      /\ raced' = raced /\ missed' = missed /\ overtaken' = overtaken /\ crossed' = crossed
      /\ change' = [change EXCEPT ![n] = r] /\ c \in Offers[p]
  BY <1>0 DEF Make
<1>2. n \in Ids /\ change[n] = Unmade
  BY Next1Is DEF Make
<1>3. r \in Changes /\ r.does \in Offers[r.on] \cup {Nothing} /\ r.stage = "sent"
  <2>1. row \in Ids
    BY <1>2, RowsAreIds DEF IInv
  <2>. QED
    BY <1>1, <2>1 DEF Changes, Change
<1> HIDE DEF n
<1>4. Set(n, r)
  <2> HIDE DEF r
  <2>. QED
    BY <1>1, <1>2, <1>3, ChangeIs DEF IInv
<1> HIDE DEF r
<1>5. change'[n].stage = "sent"
  BY <1>3, <1>4 DEF Set
<1>6. \A i \in Ids : i # n => change'[i] = change[i]
  BY <1>4 DEF Set
<1>7. Lists' = Lists /\ Loads' = Loads
  BY <1>1, SamePage
<1>8. TypeOK'
  BY <1>1, <1>4, <1>7 DEF IInv, TypeOK, Set
<1>9. LoadsOK'
  BY <1>1 DEF IInv, LoadsOK, Under
<1>10. StoredOK'
  BY <1>1, <1>5, <1>6, <1>7 DEF IInv, StoredOK, In
<1>11. OwnOK'
  <2>1. \A i \in Ids, l \in Lists : Reaches(i, l) => Reaches(i, l)'
    BY <1>1, SameReach
  <2>2. \A i \in Ids : In(i, "done")' => change'[i] = change[i]
    BY <1>5, <1>6 DEF In
  <2>. QED
    BY <1>1, <2>1, <2>2, FollowedKept DEF IInv, OwnOK
<1>12. FormsOK'
  BY <1>1 DEF IInv, FormsOK
<1>. QED
  BY <1>8, <1>9, <1>10, <1>11, <1>12 DEF IInv

(* A change that is stored: its row as the server has it goes with it. *)
LEMMA GotIs ==
  ASSUME TypeOK, page' = page, NEW i \in Ids, change[i].stage # "none", NEW S \in SUBSET Ids,
         change' = [change EXCEPT ![i] = [@ EXCEPT !.stage = "stored", !.got = S]]
  PROVE  /\ MadeOK' /\ change'[i].stage = "stored" /\ change'[i].does = change[i].does
         /\ change'[i].got = S
         /\ \A j \in Ids : j # i => change'[j] = change[j]
<1> DEFINE r == [change[i] EXCEPT !.stage = "stored", !.got = S]
           D == (UNION {Offers[p] : p \in page}) \cup {Nothing}
<1>1. change[i] \in Changes /\ change[i].does \in Offers[change[i].on] \cup {Nothing}
  BY MadeIs
<1>2. Changes = [stage : {"sent", "stored", "failed", "done"}, on : page, does : D, row : Ids,
                 got : SUBSET Ids]
  BY DEF Changes
<1> HIDE DEF D
<1>3. /\ r \in Changes /\ r.stage = "stored" /\ r.on = change[i].on
      /\ r.does = change[i].does /\ r.got = S
  BY <1>1, <1>2
<1>4. change' = [change EXCEPT ![i] = r]
  OBVIOUS
<1> HIDE DEF r
<1>5. Set(i, r)
  BY <1>1, <1>3, <1>4, ChangeIs
<1>. QED
  BY <1>3, <1>5 DEF Set

LEMMA CommitOK ==
  ASSUME IInv, NEW i \in Ids, Commit(i)
  PROVE  IInv'
<1> DEFINE c == change[i].does
           before == {j \in OfRow(i) : \A l \in c.patches \cap Lists : j \in stored[l]}
           S == before \cup {i}
<1>1. /\ page' = page /\ shown' = shown /\ loads' = loads
      /\ problem' = problem /\ agency' = agency /\ filtered' = filtered
      /\ raced' = raced /\ missed' = missed /\ overtaken' = overtaken /\ crossed' = crossed
      /\ change' = [change EXCEPT ![i] = [@ EXCEPT !.stage = "stored", !.got = S]]
      /\ change[i].stage = "sent"
      /\ stored' = [l \in Lists |-> IF l \in c.touches THEN stored[l] \cup {i} ELSE stored[l]]
  BY DEF Commit, In
<1>2. /\ MadeOK' /\ change'[i].stage = "stored" /\ change'[i].does = c
      /\ change'[i].got = S
      /\ \A j \in Ids : j # i => change'[j] = change[j]
  <2>1. S \in SUBSET Ids
    BY DEF OfRow, Does
  <2> HIDE DEF S
  <2>. QED
    BY <1>1, <2>1, GotIs DEF IInv
<1>3. Lists' = Lists /\ Loads' = Loads
  BY <1>1, SamePage
<1>4. /\ stored' \in [Lists -> SUBSET Ids]
      /\ \A l \in Lists : stored[l] \subseteq stored'[l]
      /\ \A l \in Lists : l \in c.touches => i \in stored'[l]
  BY <1>1 DEF IInv, TypeOK
<1>5. TypeOK'
  BY <1>1, <1>2, <1>3, <1>4 DEF IInv, TypeOK
<1>6. LoadsOK'
  <2>1. \A p \in page : \A d \in Under(p)' : d \in Under(p)
    BY <1>1 DEF Under
  <2>. QED
    BY <1>1, <1>4, <2>1, LoadsKept DEF IInv
<1>7. StoredOK'
  <2>1. ASSUME NEW j \in Ids, In(j, "stored")' \/ In(j, "done")', NEW l \in Lists,
               l \in change'[j].does.touches
        PROVE  j \in stored'[l]
    BY <1>2, <1>4, <2>1 DEF IInv, StoredOK, In
  <2>2. \A l \in Lists : shown'[l] \subseteq stored'[l]
    BY <1>1, <1>4 DEF IInv, StoredOK
  <2>3. i \in S /\ \A l \in c.patches \cap Lists : S \subseteq stored'[l]
    <3>1. c.patches \subseteq c.touches
      BY <1>1, MadeIs DEF IInv, Covers
    <3>. QED
      BY <1>4, <3>1
  <2> HIDE DEF S
  <2>4. ASSUME NEW j \in Ids, In(j, "stored")'
        PROVE  /\ j \in change'[j].got
               /\ \A l \in change'[j].does.patches \cap Lists : change'[j].got \subseteq stored'[l]
    <3>1. CASE j = i
      BY <1>2, <2>3, <3>1
    <3>2. CASE j # i
      BY <1>2, <1>4, <2>4, <3>2 DEF IInv, StoredOK, In
    <3>. QED
      BY <3>1, <3>2
  <2>. QED
    BY <1>3, <2>1, <2>2, <2>4 DEF StoredOK
<1>8. OwnOK'
  <2>1. \A j \in Ids, l \in Lists : Reaches(j, l) => Reaches(j, l)'
    BY <1>1, SameReach
  <2>2. \A j \in Ids : In(j, "done")' => change'[j] = change[j]
    BY <1>2 DEF In
  <2>. QED
    BY <1>1, <2>1, <2>2, FollowedKept DEF IInv, OwnOK
<1>9. FormsOK'
  BY <1>1 DEF IInv, FormsOK
<1>. QED
  BY <1>5, <1>6, <1>7, <1>8, <1>9 DEF IInv

LEMMA ChangeFailsOK ==
  ASSUME IInv, NEW i \in Ids, ChangeFails(i)
  PROVE  IInv'
<1>1. /\ page' = page /\ stored' = stored /\ shown' = shown /\ loads' = loads
      /\ agency' = agency /\ filtered' = filtered
      /\ raced' = raced /\ missed' = missed /\ overtaken' = overtaken /\ crossed' = crossed
      /\ change' = [change EXCEPT ![i].stage = "failed"] /\ change[i].stage # "none"
      /\ problem' = [problem EXCEPT ![change[i].on] = TRUE]
  BY DEF ChangeFails, UnderWay, In
<1>2. /\ MadeOK' /\ change'[i].stage = "failed"
      /\ \A j \in Ids : j # i => change'[j] = change[j]
  BY <1>1, StageIs DEF IInv, Set
<1>3. Lists' = Lists /\ Loads' = Loads
  BY <1>1, SamePage
<1>4. /\ problem' \in [page -> BOOLEAN]
      /\ \A p \in page : problem[p] => problem'[p]
  BY <1>1 DEF IInv, TypeOK
<1>5. TypeOK'
  BY <1>1, <1>2, <1>3, <1>4 DEF IInv, TypeOK
<1>6. LoadsOK'
  BY <1>1 DEF IInv, LoadsOK, Under
<1>7. StoredOK'
  BY <1>1, <1>2, <1>3 DEF IInv, StoredOK, In
<1>8. OwnOK'
  <2>1. \A j \in Ids, l \in Lists : Reaches(j, l) => Reaches(j, l)'
    BY <1>1, SameReach
  <2>2. \A j \in Ids : In(j, "done")' => change'[j] = change[j]
    BY <1>2 DEF In
  <2>. QED
    BY <1>1, <2>1, <2>2, FollowedKept DEF IInv, OwnOK
<1>9. FormsOK'
  BY <1>1, <1>4 DEF IInv, FormsOK
<1>. QED
  BY <1>5, <1>6, <1>7, <1>8, <1>9 DEF IInv

(* A change is answered: it is patched in, and the reloads begin after it. *)
LEMMA ChangeAnsweredOK ==
  ASSUME IInv, NEW i \in Ids, ChangeAnswered(i)
  PROVE  IInv'
<1> DEFINE c == change[i].does
           p == change[i].on
           got == change[i].got
           after == {i}
<1>1. /\ page' = page /\ stored' = stored /\ problem' = problem
      /\ agency' = agency /\ filtered' = filtered
      /\ missed' = missed /\ crossed' = crossed
      /\ change' = [change EXCEPT ![i].stage = "done"] /\ change[i].stage = "stored"
      /\ shown' = [l \in Lists |-> IF l \in c.patches THEN (shown[l] \ OfRow(i)) \cup got
                                                            ELSE shown[l]]
      /\ overtaken' = overtaken \cup {j \in OfRow(i) \ got : In(j, "done")}
      /\ Begin(c.reloads, agency, after)
      /\ raced' = IF \E q \in page : loads[q] # <<>> /\ Panel[q].lists \cap c.touches # {}
                  THEN raced \cup {i} ELSE raced
  BY DEF ChangeAnswered, Reloads, In
<1>2. /\ MadeOK' /\ change'[i].stage = "done" /\ change'[i].on = change[i].on
      /\ change'[i].does = change[i].does
      /\ \A j \in Ids : j # i => change'[j] = change[j]
  BY <1>1, StageIs DEF IInv, Set
<1>3. Lists' = Lists /\ Loads' = Loads
  BY <1>1, SamePage
<1>4. c \in Offers[p] \cup {Nothing} /\ p \in page /\ Covers(c, p, page)
  BY <1>1, MadeIs DEF IInv
<1>5. page \in Pages /\ agency \in Agencies \cup {None}
  BY DEF IInv, TypeOK
<1> DEFINE d == Load(agency, after)
<1>6. DOMAIN d.has = {} /\ d.lost = {} /\ d.after = after
  BY <1>5, LoadIs
<1>7. Started(c.reloads, agency, after)
  BY <1>1, <1>5, BeginIs DEF IInv
<1>8. /\ \A l \in c.touches \cap Lists : i \in stored[l]
      /\ i \in got /\ \A l \in c.patches \cap Lists : got \subseteq stored[l]
  BY <1>1 DEF IInv, StoredOK, In
<1>9. /\ shown' \in [Lists -> SUBSET Ids]
      /\ \A l \in Lists, j \in Ids \ overtaken' : In(j, "done") /\ j \in shown[l] => j \in shown'[l]
      /\ \A l \in Lists : shown'[l] \subseteq stored[l]
      /\ \A l \in Lists : l \in c.patches => i \in shown'[l]
  <2>1. c.patches \subseteq c.touches
    BY <1>4 DEF Covers
  <2>2. ASSUME NEW l \in Lists, l \in c.patches
        PROVE  /\ shown'[l] = (shown[l] \ OfRow(i)) \cup got
               /\ shown'[l] \in SUBSET Ids /\ shown'[l] \subseteq stored[l]
               /\ i \in shown'[l]
    BY <1>1, <1>8, <2>2 DEF IInv, TypeOK, StoredOK
  <2>3. ASSUME NEW l \in Lists, l \notin c.patches
        PROVE  shown'[l] = shown[l] /\ shown'[l] \in SUBSET Ids /\ shown'[l] \subseteq stored[l]
    BY <1>1, <2>3 DEF IInv, TypeOK, StoredOK
  <2>4. ASSUME NEW l \in Lists, NEW j \in Ids \ overtaken', In(j, "done"), j \in shown[l]
        PROVE  j \in shown'[l]
    <3>1. j \notin OfRow(i) \ got
      BY <1>1, <2>4
    <3>. QED
      BY <2>2, <2>3, <2>4, <3>1
  <2>5. shown' = [l \in Lists |-> shown'[l]]
    BY <1>1
  <2>. QED
    BY <2>2, <2>3, <2>4, <2>5
<1>10. \A q \in page : /\ Under(q) \subseteq Under(q)' /\ Under(q)' \subseteq Under(q) \cup {d}
                       /\ q \in c.reloads => d \in Under(q)'
  BY <1>7 DEF Started
<1>11. TypeOK'
  <2>1. loads' \in [page -> Seq(Loads)]
    BY <1>7 DEF Started
  <2>. QED
    BY <1>1, <1>2, <1>3, <1>9, <2>1 DEF IInv, TypeOK
<1> HIDE DEF d
<1>12. LoadsOK'
  BY <1>1, <1>6, <1>10, LoadsKept DEF IInv
<1>13. StoredOK'
  <2>1. ASSUME NEW j \in Ids, In(j, "stored")' \/ In(j, "done")', NEW l \in Lists,
               l \in change'[j].does.touches
        PROVE  j \in stored[l]
    BY <1>2, <1>8, <2>1 DEF IInv, StoredOK, In
  <2>2. ASSUME NEW j \in Ids, In(j, "stored")'
        PROVE  /\ j \in change'[j].got
               /\ \A l \in change'[j].does.patches \cap Lists : change'[j].got \subseteq stored[l]
    BY <1>2, <2>2 DEF IInv, StoredOK, In
  <2>. QED
    BY <1>1, <1>3, <1>9, <2>1, <2>2 DEF StoredOK
<1>14. ASSUME NEW j \in Ids \ (raced \cup missed \cup overtaken'), j # i
       PROVE  Followed(j)'
  <2>1. ASSUME In(j, "done"), NEW l \in Lists, Reaches(j, l) PROVE Reaches(j, l)'
    <3>1. \A q \in page : \A e \in Under(q)' :
            e \in Under(q) \/ l \notin DOMAIN e.has \/ j \in e.has[l]
      BY <1>6, <1>10
    <3>2. \A q \in page : \A e \in Under(q) : e \in Under(q)'
      BY <1>10
    <3>. QED
      BY <1>1, <1>9, <2>1, <3>1, <3>2, ReachKept
  <2>2. j \notin overtaken
    BY <1>1, <1>14
  <2>. QED
    BY <1>1, <1>2, <1>14, <2>1, <2>2, FollowedKept DEF IInv, OwnOK, In
<1>15. ASSUME i \notin raced'
       PROVE  Followed(i)'
  <2>1. \A q \in page : loads[q] = <<>> \/ Panel[q].lists \cap c.touches = {}
    BY <1>1, <1>15
  <2>2. ASSUME NEW l \in Lists, l \in c.touches, ~(p = "versions" /\ l = "documents")
        PROVE  Reaches(i, l)'
    <3>1. ASSUME NEW q \in page, NEW e \in Under(q)', l \in DOMAIN e.has PROVE FALSE
      <4>1. e \in Under(q)
        BY <1>6, <1>10, <3>1
      <4>2. loads[q] # <<>> /\ DOMAIN e.has \subseteq Panel[q].lists
        BY <4>1 DEF Under, IInv, LoadsOK
      <4>. QED
        BY <2>1, <2>2, <3>1, <4>2
    <3>2. l \in c.patches \/ \E q \in c.reloads : Reads(q, l)
      BY <1>4, <2>2 DEF Covers
    <3>3. c.reloads \subseteq page
      BY <1>4 DEF Covers
    <3>4. i \in shown'[l] \/ \E q \in page : Reads(q, l) /\ \E e \in Under(q)' : e.after = {i}
      BY <1>6, <1>9, <1>10, <3>2, <3>3
    <3>5. \A q : Reads(q, l)' <=> Reads(q, l)
      BY DEF Reads
    <3>. QED
      BY <1>1, <3>1, <3>4, <3>5 DEF Reaches
  <2>. QED
    BY <1>2, <1>3, <2>2 DEF Followed
<1>16. OwnOK'
  <2>1. raced \subseteq raced'
    BY <1>1
  <2>. QED
    BY <1>1, <1>14, <1>15, <2>1 DEF OwnOK
<1>17. FormsOK'
  <2>. SUFFICES ASSUME "forms" \in page, FormsOK PROVE FormsOK'
    BY <1>1 DEF IInv, FormsOK
  <2>1. p = "forms"
    BY <1>4, <1>5, FormsAlone
  <2>2. c = Nothing
    BY <1>4, <2>1, OffersAre
  <2>3. "forms" \notin c.reloads
    BY <2>2 DEF Nothing, Do
  <2>4. loads'["forms"] = loads["forms"]
    BY <1>7, <2>3 DEF Started
  <2>. QED
    BY <1>1, <2>4 DEF FormsOK
<1>. QED
  BY <1>11, <1>12, <1>13, <1>16, <1>17 DEF IInv

LEMMA NothingMade ==
  ASSUME NEW q \in page, NEW n \in Ids
  PROVE  Change("done", q, Nothing, n) \in Changes
<1> DEFINE D == (UNION {Offers[p] : p \in page}) \cup {Nothing}
<1>1. Changes = [stage : {"sent", "stored", "failed", "done"}, on : page, does : D, row : Ids,
                 got : SUBSET Ids]
  BY DEF Changes
<1>2. Nothing \in D
  OBVIOUS
<1> HIDE DEF D
<1>. QED
  BY <1>1, <1>2 DEF Change

(* A load the user asked for: no change is made. *)
LEMMA AskedOK ==
  ASSUME IInv, page' = page, stored' = stored, shown' = shown, raced' = raced,
         missed' = missed, overtaken' = overtaken, problem' = problem, filtered' = filtered,
         NEW p \in page, NEW f \in Agencies \cup {None}, agency' = f,
         Begin({p}, f, {}), MayAct,
         change' = [change EXCEPT ![Next1] = Change("done", p, Nothing, Next1)]
  PROVE  TypeOK' /\ LoadsOK' /\ StoredOK' /\ OwnOK' /\ Started({p}, f, {})
<1> DEFINE r == Change("done", p, Nothing, Next1)
           none == {}
<1>1. none \in SUBSET Ids /\ none = {}
  OBVIOUS
<1>2. PICK n \in Ids : change[n] = Unmade /\ change' = [change EXCEPT ![n] = r]
  BY Next1Is
<1>3. r \in Changes /\ r.does \in Offers[r.on] \cup {Nothing}
  <2>1. Next1 \in Ids
    BY Next1Is
  <2>. QED
    BY <2>1, NothingMade DEF Change
<1>4. MadeOK' /\ change'[n] = r /\ \A j \in Ids : j # n => change'[j] = change[j]
  <2> HIDE DEF r
  <2>. QED
    BY <1>2, <1>3, ChangeIs DEF IInv, Set
<1>5. Lists' = Lists /\ Loads' = Loads
  BY SamePage
<1>6. Started({p}, f, {})
  <2>1. Begin({p}, f, none)
    BY <1>1
  <2> HIDE DEF none
  <2>2. Started({p}, f, none)
    BY <1>1, <2>1, BeginIs DEF IInv
  <2>. QED
    BY <1>1, <2>2
<1> DEFINE d == Load(f, {})
<1>7. DOMAIN d.has = {} /\ d.lost = {}
  BY LoadIs
<1>8. \A q \in page : Under(q) \subseteq Under(q)' /\ Under(q)' \subseteq Under(q) \cup {d}
  BY <1>6 DEF Started
<1>9. TypeOK'
  <2>1. loads' \in [page -> Seq(Loads)]
    BY <1>6 DEF Started
  <2>. QED
    BY <1>4, <1>5, <2>1 DEF IInv, TypeOK
<1> HIDE DEF d
<1>10. LoadsOK'
  BY <1>7, <1>8, LoadsKept DEF IInv
<1>11. r.does.touches = {} /\ r.stage = "done"
  BY DEF Nothing, Do, Change
<1> HIDE DEF r
<1>12. StoredOK'
  BY <1>4, <1>5, <1>11 DEF IInv, StoredOK, In
<1>13. OwnOK'
  <2>1. ASSUME NEW i \in Ids, NEW l \in Lists, Reaches(i, l) PROVE Reaches(i, l)'
    <3>1. \A q \in page : \A e \in Under(q)' :
            e \in Under(q) \/ l \notin DOMAIN e.has \/ i \in e.has[l]
      BY <1>7, <1>8
    <3>2. \A q \in page : \A e \in Under(q) : e \in Under(q)'
      BY <1>8
    <3>. QED
      BY <2>1, <3>1, <3>2, ReachKept
  <2>2. Followed(n)'
    BY <1>4, <1>11 DEF Followed
  <2>3. ASSUME NEW i \in Ids \ (raced \cup missed \cup overtaken), i # n PROVE Followed(i)'
    BY <1>4, <2>1, <2>3, FollowedKept DEF IInv, OwnOK, In
  <2>. QED
    BY <2>2, <2>3 DEF OwnOK
<1>. QED
  BY <1>6, <1>9, <1>10, <1>12, <1>13

LEMMA ChooseOK ==
  ASSUME IInv, NEW a \in Agencies, Choose(a)
  PROVE  IInv'
<1>1. /\ page' = page /\ stored' = stored /\ shown' = shown /\ raced' = raced
      /\ missed' = missed /\ overtaken' = overtaken /\ problem' = problem
      /\ filtered' = filtered
      /\ "forms" \in page /\ agency' = a /\ Begin({"forms"}, a, {}) /\ MayAct
      /\ change' = [change EXCEPT
           ![Next1] = Change("done", "forms", Nothing, Next1)]
      /\ crossed' = (crossed \/ loads["forms"] # <<>>)
  BY DEF Choose, Nothing
<1>2. TypeOK' /\ LoadsOK' /\ StoredOK' /\ OwnOK' /\ Started({"forms"}, a, {})
  BY <1>1, AskedOK
<1>3. FormsOK'
  <2>. SUFFICES ASSUME loads["forms"] = <<>>
                PROVE  Len(loads'["forms"]) = 1 /\ loads'["forms"][1].filter = a
    BY <1>1 DEF FormsOK
  <2> DEFINE d == Load(a, {})
  <2>1. loads'["forms"] = Append(<<>>, d)
    BY <1>1, <1>2 DEF Started
  <2>2. d.filter = a
    BY LoadIs
  <2> HIDE DEF d
  <2>. QED
    BY <2>1, <2>2
<1>. QED
  BY <1>2, <1>3 DEF IInv

LEMMA OpenOK ==
  ASSUME IInv, NEW p \in page, Open(p)
  PROVE  IInv'
<1>1. /\ page' = page /\ stored' = stored /\ shown' = shown /\ raced' = raced
      /\ missed' = missed /\ overtaken' = overtaken /\ problem' = problem
      /\ filtered' = filtered
      /\ agency' = agency /\ crossed' = crossed /\ Begin({p}, agency, {}) /\ MayAct
      /\ change' = [change EXCEPT ![Next1] = Change("done", p, Nothing, Next1)]
      /\ p # "forms"
  BY PanelsAre DEF Open, Nothing
<1>2. agency \in Agencies \cup {None}
  BY DEF IInv, TypeOK
<1>3. TypeOK' /\ LoadsOK' /\ StoredOK' /\ OwnOK' /\ Started({p}, agency, {})
  BY <1>1, <1>2, AskedOK
<1>4. FormsOK'
  <2>1. "forms" \notin page
    BY <1>1, FormsAlone DEF IInv, TypeOK
  <2>. QED
    BY <1>1, <2>1 DEF FormsOK
<1>. QED
  BY <1>3, <1>4 DEF IInv

(* A load ends. *)
LEMMA EndedLoads ==
  ASSUME IInv, page' = page, stored' = stored, NEW p \in page, NEW k \in DOMAIN loads[p],
         Ended(p, k)
  PROVE  LoadsOK'
<1>1. \A q \in page : \A d \in Under(q)' : d \in Under(q)
  BY DEF Ended
<1>. QED
  BY <1>1, LoadsKept DEF IInv

LEMMA EndedReach ==
  ASSUME IInv, page' = page, NEW p \in page, NEW k \in DOMAIN loads[p], Ended(p, k),
         NEW i \in Ids, NEW l \in Lists, Reaches(i, l),
         i \in shown[l] => i \in shown'[l],
         Reads(p, l) /\ loads[p][k].after = {i} => i \in shown'[l]
  PROVE  Reaches(i, l)'
<1>1. \A q \in page : \A d \in Under(q)' : d \in Under(q)
  BY DEF Ended
<1>2. \A q \in page : \A d \in Under(q) : d \in Under(q)' \/ (q = p /\ d = loads[p][k])
  BY DEF Ended
<1>. QED
  BY <1>1, <1>2, ReachKept

(* The forms library had at most the one load. *)
LEMMA EndedForms ==
  ASSUME IInv, "forms" \in page, ~crossed, NEW k \in DOMAIN loads["forms"], Ended("forms", k)
  PROVE  loads'["forms"] = <<>> /\ loads["forms"][k].filter = agency
<1> DEFINE L == Loads
<1>1. loads["forms"] \in Seq(L) /\ loads'["forms"] \in Seq(L)
  BY DEF IInv, TypeOK, Ended
<1> HIDE DEF L
<1>2. Len(loads["forms"]) = 1 /\ loads["forms"][1].filter = agency
  BY <1>1 DEF IInv, FormsOK
<1>3. k = 1
  BY <1>1, <1>2
<1>4. Len(loads'["forms"]) = 0
  BY <1>2 DEF Ended
<1>. QED
  BY <1>1, <1>2, <1>3, <1>4

LEMMA LoadShownOK ==
  ASSUME IInv, NEW p \in page, NEW k \in DOMAIN loads[p], LoadShown(p, k)
  PROVE  IInv'
<1> DEFINE d == loads[p][k]
<1>1. /\ page' = page /\ stored' = stored /\ change' = change /\ agency' = agency
      /\ raced' = raced /\ missed' = missed /\ overtaken' = overtaken /\ crossed' = crossed
      /\ Panel[p].lists = DOMAIN d.has \cup d.lost
      /\ shown' = [l \in Lists |-> IF l \in DOMAIN d.has THEN d.has[l] ELSE shown[l]]
      /\ filtered' = IF p = "forms" THEN d.filter ELSE filtered
      /\ problem' = [problem EXCEPT ![p] = FALSE] /\ Ends(p, k)
  BY DEF LoadShown
<1>2. Ended(p, k)
  BY <1>1, EndsIs DEF IInv
<1>3. d \in Loads /\ d \in Under(p)
  BY LoadOf DEF IInv
<1>4. d.filter \in Agencies \cup {None} /\ d.has \in [DOMAIN d.has -> SUBSET Ids]
  BY <1>3, PartsOf
<1>5. /\ DOMAIN d.has \subseteq Panel[p].lists
      /\ \A l \in DOMAIN d.has : d.has[l] \subseteq stored[l]
      /\ d.lost # {} => Panel[p].settled
  BY <1>3 DEF IInv, LoadsOK
<1> HIDE DEF d
<1>6. Lists' = Lists /\ Loads' = Loads
  BY <1>1, SamePage
<1>7. /\ shown' \in [Lists -> SUBSET Ids]
      /\ \A l \in Lists : shown'[l] \subseteq stored[l]
      /\ \A l \in Lists : l \in DOMAIN d.has => shown'[l] = d.has[l]
      /\ \A l \in Lists : l \notin DOMAIN d.has => shown'[l] = shown[l]
  BY <1>1, <1>4, <1>5 DEF IInv, TypeOK, StoredOK
<1>8. TypeOK'
  <2>1. loads' \in [page -> Seq(Loads)]
    BY <1>2 DEF Ended
  <2>2. problem' \in [page -> BOOLEAN] /\ filtered' \in Agencies \cup {None}
    BY <1>1, <1>4 DEF IInv, TypeOK
  <2>3. MadeOK'
    BY <1>1, SamePage DEF IInv, TypeOK, MadeOK
  <2>. QED
    BY <1>1, <1>6, <1>7, <2>1, <2>2, <2>3 DEF IInv, TypeOK
<1>9. LoadsOK'
  BY <1>1, <1>2, EndedLoads
<1>10. StoredOK'
  BY <1>1, <1>6, <1>7 DEF IInv, StoredOK, In
<1>11. OwnOK'
  <2>1. ASSUME NEW i \in Ids, NEW l \in Lists, Reaches(i, l) PROVE Reaches(i, l)'
    <3>1. i \in shown[l] => i \in shown'[l]
      BY <1>3, <1>7, <2>1 DEF Reaches
    <3>2. Reads(p, l) /\ d.after = {i} => i \in shown'[l]
      <4>1. Reads(p, l) => l \in DOMAIN d.has
        BY <1>1, <1>5 DEF Reads
      <4>. QED
        BY <1>3, <1>7, <2>1, <4>1 DEF Reaches
    <3>. QED
      BY <1>1, <1>2, <2>1, <3>1, <3>2, EndedReach DEF d
  <2>. QED
    BY <1>1, <2>1, FollowedKept DEF IInv, OwnOK, In
<1>12. FormsOK'
  <2>. SUFFICES ASSUME "forms" \in page, ~crossed
                PROVE  loads'["forms"] = <<>> /\ filtered' = agency
    BY <1>1 DEF FormsOK
  <2>1. p = "forms"
    BY FormsAlone DEF IInv, TypeOK
  <2>. QED
    BY <1>1, <1>2, <2>1, EndedForms DEF d
<1>. QED
  BY <1>8, <1>9, <1>10, <1>11, <1>12 DEF IInv

LEMMA LoadFailsOK ==
  ASSUME IInv, NEW p \in page, NEW k \in DOMAIN loads[p], LoadFails(p, k)
  PROVE  IInv'
<1> DEFINE d == loads[p][k]
<1>1. /\ page' = page /\ stored' = stored /\ shown' = shown /\ change' = change
      /\ agency' = agency /\ filtered' = filtered
      /\ raced' = raced /\ missed' = missed \cup d.after /\ overtaken' = overtaken
      /\ crossed' = crossed
      /\ problem' = [problem EXCEPT ![p] = TRUE] /\ Ends(p, k)
  BY DEF LoadFails
<1>2. Ended(p, k)
  BY <1>1, EndsIs DEF IInv
<1> HIDE DEF d
<1>3. Lists' = Lists /\ Loads' = Loads /\ Changes' = Changes
  BY <1>1, SamePage
<1>4. problem' \in [page -> BOOLEAN] /\ problem'[p] = TRUE
  BY <1>1 DEF IInv, TypeOK
<1>5. TypeOK'
  <2>1. loads' \in [page -> Seq(Loads)]
    BY <1>2 DEF Ended
  <2>. QED
    BY <1>1, <1>3, <1>4, <2>1 DEF IInv, TypeOK, MadeOK
<1>6. LoadsOK'
  BY <1>1, <1>2, EndedLoads
<1>7. StoredOK'
  BY <1>1, <1>3 DEF IInv, StoredOK, In
<1>8. OwnOK'
  <2>1. ASSUME NEW i \in Ids \ (raced' \cup missed' \cup overtaken') PROVE Followed(i)'
    <3>1. i \notin raced \cup missed \cup overtaken /\ d.after # {i}
      BY <1>1, <2>1
    <3>2. ASSUME NEW l \in Lists, Reaches(i, l) PROVE Reaches(i, l)'
      BY <1>1, <1>2, <3>1, <3>2, EndedReach DEF d
    <3>. QED
      BY <1>1, <3>1, <3>2, FollowedKept DEF IInv, OwnOK, In
  <2>. QED
    BY <2>1 DEF OwnOK
<1>9. FormsOK'
  <2>. SUFFICES ASSUME "forms" \in page, ~crossed
                PROVE  loads'["forms"] = <<>> /\ problem'["forms"]
    BY <1>1 DEF FormsOK
  <2>1. p = "forms"
    BY FormsAlone DEF IInv, TypeOK
  <2>. QED
    BY <1>2, <1>4, <2>1, EndedForms
<1>. QED
  BY <1>5, <1>6, <1>7, <1>8, <1>9 DEF IInv

LEMMA DetailsFailOK ==
  ASSUME IInv, "reports" \in page, NEW k \in DOMAIN loads["reports"], DetailsFail(k)
  PROVE  IInv'
<1>1. /\ page' = page /\ stored' = stored /\ shown' = shown /\ change' = change
      /\ agency' = agency /\ filtered' = filtered /\ problem' = problem
      /\ raced' = raced /\ missed' = missed /\ overtaken' = overtaken
      /\ crossed' = crossed /\ Ends("reports", k)
  BY DEF DetailsFail
<1>2. Ended("reports", k)
  BY <1>1, EndsIs DEF IInv
<1>3. Lists' = Lists /\ Loads' = Loads /\ Changes' = Changes
  BY <1>1, SamePage
<1>4. TypeOK'
  <2>1. loads' \in [page -> Seq(Loads)]
    BY <1>2 DEF Ended
  <2>. QED
    BY <1>1, <1>3, <2>1 DEF IInv, TypeOK, MadeOK
<1>5. LoadsOK'
  BY <1>1, <1>2, EndedLoads
<1>6. StoredOK'
  BY <1>1, <1>3 DEF IInv, StoredOK, In
<1>7. OwnOK'
  <2>1. ASSUME NEW i \in Ids, NEW l \in Lists, Reaches(i, l) PROVE Reaches(i, l)'
    <3>1. ~Reads("reports", l)
      BY PanelsAre DEF Reads
    <3>. QED
      BY <1>1, <1>2, <2>1, <3>1, EndedReach
  <2>. QED
    BY <1>1, <2>1, FollowedKept DEF IInv, OwnOK, In
<1>8. FormsOK'
  <2>1. "forms" \notin page
    BY FormsAlone DEF IInv, TypeOK
  <2>. QED
    BY <1>1, <2>1 DEF FormsOK
<1>. QED
  BY <1>4, <1>5, <1>6, <1>7, <1>8 DEF IInv

(* An entry is altered, and keeps what it filters and follows. *)
LEMMA AlteredForms ==
  ASSUME IInv, page' = page, crossed' = crossed, filtered' = filtered, agency' = agency,
         problem' = problem, NEW p \in page, NEW k \in DOMAIN loads[p], NEW d \in Loads,
         Altered(p, k, d), d.filter = loads[p][k].filter
  PROVE  FormsOK'
<1>. SUFFICES ASSUME "forms" \in page, ~crossed, p = "forms" PROVE FormsOK'
  <2>1. "forms" \in page => p = "forms"
    BY FormsAlone DEF IInv, TypeOK
  <2>. QED
    BY <2>1 DEF FormsOK
<1> DEFINE L == Loads
<1>1. loads["forms"] \in Seq(L)
  BY DEF IInv, TypeOK
<1> HIDE DEF L
<1>2. Len(loads["forms"]) = 1 /\ loads["forms"][1].filter = agency
  BY <1>1 DEF IInv, FormsOK
<1>3. k = 1
  BY <1>1, <1>2
<1>4. Len(loads'["forms"]) = 1 /\ loads'["forms"][1].filter = agency
  BY <1>2, <1>3 DEF Altered
<1>. QED
  BY <1>4 DEF FormsOK

LEMMA AlteredReach ==
  ASSUME IInv, page' = page, shown' = shown, NEW p \in page, NEW k \in DOMAIN loads[p],
         NEW d \in Loads, Altered(p, k, d), d.after = loads[p][k].after,
         NEW i \in Ids, NEW l \in Lists, Reaches(i, l), l \in DOMAIN d.has => i \in d.has[l]
  PROVE  Reaches(i, l)'
<1>1. \A q \in page : \A e \in Under(q)' : e \in Under(q) \/ e = d
  BY DEF Altered
<1>2. \A q \in page : \A e \in Under(q) :
        e \in Under(q)' \/ (q = p /\ e = loads[p][k])
  BY DEF Altered
<1>3. d \in Under(p)'
  BY DEF Altered
<1>4. \A q \in page : \A e \in Under(q) : e.after = {i} => \E g \in Under(q)' : g.after = {i}
  BY <1>2, <1>3
<1>. QED
  BY <1>1, <1>4, ReachKept

LEMMA AlteredLoads ==
  ASSUME IInv, page' = page, stored' = stored, NEW p \in page, NEW k \in DOMAIN loads[p],
         NEW d \in Loads, Altered(p, k, d),
         DOMAIN d.has \subseteq Panel[p].lists,
         \A l \in DOMAIN d.has : d.has[l] \subseteq stored[l],
         d.lost # {} => Panel[p].settled
  PROVE  LoadsOK'
<1>1. \A q \in page : \A e \in Under(q)' : e \in Under(q) \/ (q = p /\ e = d)
  BY DEF Altered
<1>2. ASSUME NEW q \in page, NEW e \in Under(q)'
      PROVE  /\ DOMAIN e.has \subseteq Panel[q].lists
             /\ \A l \in DOMAIN e.has : e.has[l] \subseteq stored[l]
             /\ e.lost # {} => Panel[q].settled
  BY <1>1 DEF IInv, LoadsOK
<1>. QED
  BY <1>2 DEF LoadsOK

LEMMA ServeListOK ==
  ASSUME IInv, NEW p \in page, NEW k \in DOMAIN loads[p], NEW l, ServeList(p, k, l)
  PROVE  IInv'
<1> DEFINE d == loads[p][k]
           old == d.has
           new == [m \in DOMAIN old \cup {l} |-> IF m = l THEN stored[l] ELSE old[m]]
           e == [d EXCEPT !.has = new]
<1>1. /\ page' = page /\ stored' = stored /\ shown' = shown /\ change' = change
      /\ agency' = agency /\ filtered' = filtered /\ problem' = problem
      /\ raced' = raced /\ missed' = missed /\ overtaken' = overtaken /\ crossed' = crossed
      /\ loads' = [loads EXCEPT ![p][k].has = new] /\ l \in Panel[p].lists
  BY DEF ServeList
<1>2. d \in Loads /\ d \in Under(p)
  BY LoadOf DEF IInv
<1>3. /\ loads' = [loads EXCEPT ![p] = [loads[p] EXCEPT ![k] = e]]
  BY <1>1
<1>4. l \in Lists
  BY <1>1 DEF Lists
<1>5. /\ DOMAIN d.has \subseteq Panel[p].lists
      /\ \A m \in DOMAIN d.has : d.has[m] \subseteq stored[m]
      /\ d.lost # {} => Panel[p].settled
  BY <1>2 DEF IInv, LoadsOK
<1>6. /\ d = [has |-> d.has, lost |-> d.lost, filter |-> d.filter, after |-> d.after]
      /\ d.lost \in SUBSET Lists /\ d.filter \in Agencies \cup {None} /\ d.after \in SUBSET Ids
      /\ DOMAIN d.has \in SUBSET Lists /\ d.has \in [DOMAIN d.has -> SUBSET Ids]
  BY <1>2, PartsOf
<1> HIDE DEF d
<1>7. stored[l] \in SUBSET Ids
  BY <1>4 DEF IInv, TypeOK
<1>8. /\ DOMAIN new = DOMAIN old \cup {l} /\ new \in [DOMAIN old \cup {l} -> SUBSET Ids]
      /\ new[l] = stored[l] /\ \A m \in DOMAIN old : m # l => new[m] = old[m]
  BY <1>6, <1>7
<1> HIDE DEF new
<1>9. e = [has |-> new, lost |-> d.lost, filter |-> d.filter, after |-> d.after]
  BY <1>6
<1>10. e \in Loads
  <2>1. DOMAIN old \cup {l} \in SUBSET Lists
    BY <1>4, <1>6
  <2>2. new \in UNION {[S -> SUBSET Ids] : S \in SUBSET Lists}
    BY <1>8, <2>1
  <2>. QED
    BY <1>6, <1>9, <2>2 DEF Loads
<1>11. e.has = new /\ e.lost = d.lost /\ e.filter = d.filter /\ e.after = d.after
  BY <1>9
<1> HIDE DEF e
<1>12. Altered(p, k, e)
  BY <1>1, <1>3, <1>10, AltersIs DEF IInv
<1>13. Lists' = Lists /\ Loads' = Loads /\ Changes' = Changes
  BY <1>1, SamePage
<1>14. TypeOK'
  <2>1. loads' \in [page -> Seq(Loads)]
    BY <1>12 DEF Altered
  <2>. QED
    BY <1>1, <1>13, <2>1 DEF IInv, TypeOK, MadeOK
<1>15. LoadsOK'
  <2>1. /\ DOMAIN e.has \subseteq Panel[p].lists
        /\ \A m \in DOMAIN e.has : e.has[m] \subseteq stored[m]
        /\ e.lost # {} => Panel[p].settled
    BY <1>1, <1>5, <1>8, <1>11
  <2>. QED
    BY <1>1, <1>10, <1>12, <2>1, AlteredLoads
<1>16. StoredOK'
  BY <1>1, <1>13 DEF IInv, StoredOK, In
<1>17. OwnOK'
  <2>1. ASSUME NEW i \in Ids, NEW m \in Lists, In(i, "done"), m \in change[i].does.touches,
               Reaches(i, m)
        PROVE  Reaches(i, m)'
    <3>1. i \in stored[m]
      BY <2>1 DEF IInv, StoredOK
    <3>2. m \in DOMAIN old => i \in old[m]
      BY <1>2, <2>1 DEF Reaches
    <3>3. m \in DOMAIN e.has => i \in e.has[m]
      BY <1>8, <1>11, <3>1, <3>2
    <3>. QED
      BY <1>1, <1>10, <1>11, <1>12, <2>1, <3>3, AlteredReach DEF d
  <2>. QED
    BY <1>1, <2>1, FollowedKept DEF IInv, OwnOK, In
<1>18. FormsOK'
  BY <1>1, <1>10, <1>11, <1>12, AlteredForms DEF d
<1>. QED
  BY <1>14, <1>15, <1>16, <1>17, <1>18 DEF IInv

LEMMA ListFailsOK ==
  ASSUME IInv, NEW p \in page, NEW k \in DOMAIN loads[p], NEW l, ListFails(p, k, l)
  PROVE  IInv'
<1> DEFINE d == loads[p][k]
           new == d.lost \cup {l}
           e == [d EXCEPT !.lost = new]
<1>1. /\ page' = page /\ stored' = stored /\ shown' = shown /\ change' = change
      /\ agency' = agency /\ filtered' = filtered /\ problem' = problem
      /\ raced' = raced /\ missed' = missed /\ overtaken' = overtaken /\ crossed' = crossed
      /\ loads' = [loads EXCEPT ![p][k].lost = new] /\ l \in Panel[p].lists /\ Panel[p].settled
  BY DEF ListFails
<1>2. d \in Loads /\ d \in Under(p)
  BY LoadOf DEF IInv
<1>3. /\ loads' = [loads EXCEPT ![p] = [loads[p] EXCEPT ![k] = e]]
  BY <1>1
<1>4. l \in Lists
  BY <1>1 DEF Lists
<1>5. /\ DOMAIN d.has \subseteq Panel[p].lists
      /\ \A m \in DOMAIN d.has : d.has[m] \subseteq stored[m]
  BY <1>2 DEF IInv, LoadsOK
<1>6. /\ d = [has |-> d.has, lost |-> d.lost, filter |-> d.filter, after |-> d.after]
      /\ d.lost \in SUBSET Lists
  BY <1>2, PartsOf
<1> DEFINE H == UNION {[S -> SUBSET Ids] : S \in SUBSET Lists}
<1>7. Loads = [has : H, lost : SUBSET Lists, filter : Agencies \cup {None}, after : SUBSET Ids]
  BY DEF Loads
<1>8. new \in SUBSET Lists
  BY <1>4, <1>6
<1> HIDE DEF d, H, new
<1>9. e \in Loads /\ e.has = d.has /\ e.lost = new /\ e.filter = d.filter /\ e.after = d.after
  BY <1>2, <1>6, <1>7, <1>8
<1> HIDE DEF e
<1>10. Altered(p, k, e)
  BY <1>1, <1>3, <1>9, AltersIs DEF IInv
<1>11. Lists' = Lists /\ Loads' = Loads /\ Changes' = Changes
  BY <1>1, SamePage
<1>12. TypeOK'
  <2>1. loads' \in [page -> Seq(Loads)]
    BY <1>10 DEF Altered
  <2>. QED
    BY <1>1, <1>11, <2>1 DEF IInv, TypeOK, MadeOK
<1>13. LoadsOK'
  BY <1>1, <1>5, <1>9, <1>10, AlteredLoads
<1>14. StoredOK'
  BY <1>1, <1>11 DEF IInv, StoredOK, In
<1>15. OwnOK'
  <2>1. ASSUME NEW i \in Ids, NEW m \in Lists, Reaches(i, m) PROVE Reaches(i, m)'
    <3>1. m \in DOMAIN e.has => i \in e.has[m]
      BY <1>2, <1>9, <2>1 DEF Reaches
    <3>. QED
      BY <1>1, <1>9, <1>10, <2>1, <3>1, AlteredReach DEF d
  <2>. QED
    BY <1>1, <2>1, FollowedKept DEF IInv, OwnOK, In
<1>16. FormsOK'
  BY <1>1, <1>9, <1>10, AlteredForms DEF d
<1>. QED
  BY <1>12, <1>13, <1>14, <1>15, <1>16 DEF IInv

(* A step of a page keeps its invariant. *)
LEMMA StepOK == IInv /\ [Next]_vars => IInv'
<1>. SUFFICES ASSUME IInv, [Next]_vars PROVE IInv'
  OBVIOUS
<1>1. CASE UNCHANGED vars
  BY <1>1, SameOK
<1>2. ASSUME NEW p \in page, LoadStep(p) PROVE IInv'
  <2>. PICK k \in DOMAIN loads[p] :
         \/ LoadShown(p, k) \/ LoadFails(p, k) \/ (p = "reports" /\ DetailsFail(k))
         \/ \E l \in Panel[p].lists : ServeList(p, k, l) \/ ListFails(p, k, l)
    BY <1>2 DEF LoadStep
  <2>. QED
    BY LoadShownOK, LoadFailsOK, DetailsFailOK, ServeListOK, ListFailsOK
<1>3. ASSUME NEW p \in page, Open(p) \/ \E c \in Offers[p] : Make(p, c) PROVE IInv'
  BY <1>3, OpenOK, MakeOK
<1>4. ASSUME NEW i \in Ids, Commit(i) \/ ChangeFails(i) \/ ChangeAnswered(i) PROVE IInv'
  BY <1>4, CommitOK, ChangeFailsOK, ChangeAnsweredOK
<1>5. ASSUME NEW a \in Agencies, Choose(a) PROVE IInv'
  BY <1>5, ChooseOK
<1>. QED
  BY <1>1, <1>2, <1>3, <1>4, <1>5 DEF Next

LEMMA ShowsIt == IInv => PageFollowsUser
<1>. SUFFICES ASSUME IInv PROVE PageFollowsUser
  OBVIOUS
<1>1. ASSUME Settled, NEW i \in Ids \ (raced \cup missed \cup overtaken), In(i, "done"),
             NEW l \in change[i].does.touches \cap Lists
      PROVE  i \in shown[l] \/ (change[i].on = "versions" /\ l = "documents")
  <2>1. \A p \in page : Under(p) = {}
    BY <1>1 DEF Settled, Under
  <2>. QED
    BY <1>1, <2>1 DEF IInv, OwnOK, Followed, Reaches
<1>2. OwnChangesShown
  BY <1>1 DEF OwnChangesShown
<1>3. FormsMatchFilter
  BY DEF IInv, FormsOK, FormsMatchFilter
<1>. QED
  BY <1>2, <1>3 DEF PageFollowsUser, IInv, StoredOK

(* What a page shows is what its user did and chose there, for every page of the dashboard, *)
(* however its loads and its changes overlap, once nothing is under way. *)
THEOREM PagesFollowTheirUser == Spec => []PageFollowsUser
<1>. QED
  BY InitOK, StepOK, ShowsIt, PTL DEF Spec

(***************************************************************************)
(* The tab's session: WebSession, as Tab                                    *)
(***************************************************************************)

Replied(c, status, row) == [c EXCEPT !.stage = "answered", !.status = status, !.row = row]
Waited(c) == [c EXCEPT !.stage = "waiting"]

(* What each kind of new request or changed request has in its fields. *)
Keeps(x, c) ==
  /\ x \in Tab!Calls /\ x # Tab!Idle
  /\ x.flow = c.flow /\ x.ask = c.ask /\ x.as = c.as /\ x.right = c.right
IsReply(x, c, status, row) ==
  /\ Keeps(x, c) /\ x.bearer = c.bearer /\ x.skip = c.skip
  /\ x.stage = "answered" /\ x.status = status /\ x.row = row
IsWait(x, c) ==
  /\ Keeps(x, c) /\ x.bearer = c.bearer /\ x.skip = c.skip
  /\ x.stage = "waiting" /\ x.status = c.status /\ x.row = c.row
IsRetry(x, c, t) ==
  /\ Keeps(x, c) /\ x.bearer = t /\ x.skip
  /\ x.stage = "sent" /\ x.status = c.status /\ x.row = c.row
IsNew(x, flow, ask, bearer) ==
  /\ x \in Tab!Calls /\ x # Tab!Idle /\ x.flow = flow /\ x.ask = ask /\ x.bearer = bearer
  /\ ~x.skip /\ x.stage = "sent" /\ x.status = 0

LEMMA IdleIsNoCall == /\ Tab!Idle.flow = "idle" /\ Tab!Idle \notin Tab!Calls
                      /\ \A c \in Tab!Calls : c # Tab!Idle
BY DEF Tab!Idle, Tab!Calls, Tab!Signing

LEMMA SentIs ==
  ASSUME cookie \in Nat, NEW f \in Tab!Signing \cup {"page"}, NEW b \in Nat,
         NEW a \in {"refresh", "me", "login", "logout", "list"}
  PROVE  IsNew(Tab!Sent(f, a, b), f, a, b)
<1> DEFINE x == Tab!Sent(f, a, b)
<1>1. /\ x \in Tab!Calls /\ x.flow = f /\ x.ask = a /\ x.bearer = b /\ ~x.skip
      /\ x.stage = "sent" /\ x.status = 0
  BY DEF Tab!Sent, Tab!Calls
<1> HIDE DEF x
<1>2. IsNew(x, f, a, b)
  BY <1>1, IdleIsNoCall DEF IsNew
<1>. QED
  BY <1>2 DEF x

LEMMA RepliedIs ==
  ASSUME NEW c \in Tab!Calls, NEW st \in {0, 200, 401}, NEW r \in Nat
  PROVE  IsReply(Replied(c, st, r), c, st, r)
<1> DEFINE x1 == [c EXCEPT !.stage = "answered"]
           x2 == [x1 EXCEPT !.status = st]
           x3 == [x2 EXCEPT !.row = r]
<1>1. /\ x1 \in Tab!Calls /\ x1.flow = c.flow /\ x1.ask = c.ask /\ x1.bearer = c.bearer
      /\ x1.skip = c.skip /\ x1.as = c.as /\ x1.right = c.right /\ x1.stage = "answered"
  BY DEF Tab!Calls
<1> HIDE DEF x1
<1>2. /\ x2 \in Tab!Calls /\ x2.flow = x1.flow /\ x2.ask = x1.ask /\ x2.bearer = x1.bearer
      /\ x2.skip = x1.skip /\ x2.as = x1.as /\ x2.right = x1.right /\ x2.stage = x1.stage
      /\ x2.status = st
  BY <1>1 DEF Tab!Calls
<1> HIDE DEF x2
<1>3. /\ x3 \in Tab!Calls /\ x3.flow = x2.flow /\ x3.ask = x2.ask /\ x3.bearer = x2.bearer
      /\ x3.skip = x2.skip /\ x3.as = x2.as /\ x3.right = x2.right /\ x3.stage = x2.stage
      /\ x3.status = x2.status /\ x3.row = r
  BY <1>2 DEF Tab!Calls
<1> HIDE DEF x3
<1>4. Replied(c, st, r) = x3
  BY DEF Replied, x1, x2, x3
<1>. QED
  BY <1>1, <1>2, <1>3, <1>4, IdleIsNoCall DEF IsReply, Keeps

LEMMA WaitedIs ==
  ASSUME NEW c \in Tab!Calls
  PROVE  IsWait(Waited(c), c)
BY IdleIsNoCall DEF Waited, Tab!Calls, IsWait, Keeps

(* The retry is sent with the cookie of then. *)
LEMMA AgainIs ==
  ASSUME NEW c \in Tab!Calls, NEW t \in Nat, cookie' \in Nat
  PROVE  IsRetry(Tab!Again(c, t), c, t)
<1> DEFINE h == cookie'
           x1 == [c EXCEPT !.bearer = t]
           x2 == [x1 EXCEPT !.skip = TRUE]
           x3 == [x2 EXCEPT !.holds = h]
           x4 == [x3 EXCEPT !.stage = "sent"]
<1>1. /\ x1 \in Tab!Calls /\ x1.flow = c.flow /\ x1.ask = c.ask /\ x1.bearer = t
      /\ x1.as = c.as /\ x1.right = c.right /\ x1.status = c.status /\ x1.row = c.row
  BY DEF Tab!Calls
<1> HIDE DEF x1
<1>2. /\ x2 \in Tab!Calls /\ x2.flow = x1.flow /\ x2.ask = x1.ask /\ x2.bearer = x1.bearer
      /\ x2.as = x1.as /\ x2.right = x1.right /\ x2.status = x1.status /\ x2.row = x1.row
      /\ x2.skip = TRUE
  BY <1>1, ZenonT(60) DEF Tab!Calls
<1> HIDE DEF x2
<1>0. h \in Nat
  OBVIOUS
<1> HIDE DEF h
<1>3. /\ x3 \in Tab!Calls /\ x3.flow = x2.flow /\ x3.ask = x2.ask /\ x3.bearer = x2.bearer
      /\ x3.as = x2.as /\ x3.right = x2.right /\ x3.status = x2.status /\ x3.row = x2.row
      /\ x3.skip = TRUE
  BY <1>0, <1>2 DEF Tab!Calls
<1> HIDE DEF x3
<1>4. /\ x4 \in Tab!Calls /\ x4.flow = x3.flow /\ x4.ask = x3.ask /\ x4.bearer = x3.bearer
      /\ x4.as = x3.as /\ x4.right = x3.right /\ x4.status = x3.status /\ x4.row = x3.row
      /\ x4.skip = TRUE /\ x4.stage = "sent"
  BY <1>3 DEF Tab!Calls
<1> HIDE DEF x4
<1>5. Tab!Again(c, t) = x4
  BY DEF Tab!Again, h, x1, x2, x3, x4
<1>. QED
  BY <1>1, <1>2, <1>3, <1>4, <1>5, IdleIsNoCall DEF IsRetry, Keeps

(* A slot set anew. *)
LEMMA SlotSet ==
  ASSUME DOMAIN call = Slots, NEW s \in Slots, NEW x, call' = [call EXCEPT ![s] = x]
  PROVE  /\ DOMAIN call' = Slots
         /\ \A t \in Slots : call'[t] = IF t = s THEN x ELSE call[t]
OBVIOUS

(* The rows of sessions stay: their users do, and no dead one lives again. *)
Grows ==
  /\ sessions' \in Seq([user : Users, live : BOOLEAN])
  /\ Len(sessions') \in Nat /\ Len(sessions) <= Len(sessions')
  /\ \A n \in Tab!Rows : /\ sessions'[n].user = sessions[n].user
                         /\ sessions'[n].live => sessions[n].live

LEMMA SameGrows ==
  ASSUME Tab!TypeOK, sessions' = sessions PROVE Grows
BY DEF Tab!TypeOK, Grows, Tab!Rows

LEMMA RowsGrow ==
  ASSUME Tab!TypeOK, Grows
  PROVE  /\ Tab!Rows \subseteq Tab!Rows' /\ 0..Len(sessions) \subseteq 0..Len(sessions')
         /\ Tab!Rows' = 1..Len(sessions')
         /\ \A m, n : Tab!SameUser(m, n) => Tab!SameUser(m, n)'
         /\ cookie' = cookie /\ Tab!CookieLives' => Tab!CookieLives
<1>1. Len(sessions) \in Nat /\ Len(sessions') \in Nat /\ Len(sessions) <= Len(sessions')
  BY DEF Tab!TypeOK, Grows
<1>2. Tab!Rows \subseteq Tab!Rows' /\ 0..Len(sessions) \subseteq 0..Len(sessions')
  BY <1>1 DEF Tab!Rows
<1>3. Tab!Rows' = 1..Len(sessions')
  BY DEF Tab!Rows
<1>4. \A n \in Tab!Rows : sessions'[n].user = sessions[n].user
  BY DEF Grows
<1>5. \A n \in Tab!Rows : sessions'[n].live => sessions[n].live
  BY DEF Grows
<1>6. \A m, n : Tab!SameUser(m, n) => Tab!SameUser(m, n)'
  BY <1>2, <1>4 DEF Tab!SameUser
<1>7. cookie # 0 => cookie \in Tab!Rows
  BY <1>1 DEF Tab!TypeOK, Tab!Rows
<1>8. cookie' = cookie /\ Tab!CookieLives' => Tab!CookieLives
  BY <1>7, <1>5 DEF Tab!CookieLives
<1>. QED
  BY <1>2, <1>3, <1>6, <1>8

(* What stays of the calls when one slot is set. *)
LEMMA OneSlotFits ==
  ASSUME Tab!TypeOK, Tab!CallsFit, Grows, NEW s \in Slots, NEW x, call' = [call EXCEPT ![s] = x],
         x # Tab!Idle => Tab!CallOK(x),
         /\ x # Tab!Idle /\ x.ask \in {"login", "me"} /\ x.stage = "answered" /\ x.status = 200
         => x.row \in Tab!Rows'
  PROVE  Tab!CallsFit'
<1>1. /\ DOMAIN call' = Slots
      /\ \A t \in Slots : call'[t] = IF t = s THEN x ELSE call[t]
  BY SlotSet DEF Tab!CallsFit
<1>2. Tab!Rows \subseteq Tab!Rows'
  BY RowsGrow
<1>. QED
  BY <1>1, <1>2 DEF Tab!CallsFit, Tab!Busy

(* What stays of Shape when only the calls change. *)
LEMMA ShapeStays ==
  ASSUME Tab!Shape, Tab!CallsFit',
         UNCHANGED <<sessions, failures, mistyped, cookie, token, refresh>>
  PROVE  Tab!Shape'
BY DEF Tab!Shape, Tab!RefreshFits

LEMMA CallFacts ==
  ASSUME Tab!IInv, NEW s \in Slots, Tab!Busy(s)
  PROVE  Tab!TypeOK /\ Tab!Shape /\ Tab!Counted /\ Tab!CallsFit /\ call[s] \in Tab!Calls
           /\ Tab!CallOK(call[s])
BY DEF Tab!IInv, Tab!Base, Tab!Shape, Tab!CallsFit, Tab!CallOK

LEMMA CookieRow ==
  ASSUME Tab!TypeOK, Grows, cookie # 0 PROVE sessions'[cookie].user = sessions[cookie].user
<1>1. Len(sessions) \in Nat /\ cookie \in 0..Len(sessions)
  BY DEF Tab!TypeOK
<1>2. cookie \in Tab!Rows
  BY <1>1 DEF Tab!Rows
<1>3. \A n \in Tab!Rows : sessions'[n].user = sessions[n].user
  BY DEF Grows
<1>. QED
  BY <1>2, <1>3

LEMMA RowIs ==
  ASSUME Tab!TypeOK, NEW n \in Tab!Rows
  PROVE  sessions[n] \in [user : Users, live : BOOLEAN] /\ sessions[n].user \in Users
<1> DEFINE row == [user : Users, live : BOOLEAN]
<1>1. sessions \in Seq(row) /\ n \in 1..Len(sessions)
  BY DEF Tab!TypeOK, Tab!Rows
<1> HIDE DEF row
<1>2. sessions[n] \in row
  BY <1>1
<1>. QED
  BY <1>2 DEF row

Row == [user : Users, live : BOOLEAN]

LEMMA AppendGrows ==
  ASSUME Tab!TypeOK, NEW r \in Row, sessions' = Append(sessions, r)
  PROVE  /\ Grows /\ Tab!Rows' = 1..(Len(sessions) + 1) /\ Len(sessions') = Len(sessions) + 1
         /\ sessions'[Len(sessions) + 1] = r
<1>1. sessions \in Seq(Row)
  BY DEF Tab!TypeOK, Row
<1>2. /\ sessions' \in Seq(Row) /\ Len(sessions') = Len(sessions) + 1 /\ Len(sessions) \in Nat
      /\ sessions'[Len(sessions) + 1] = r
      /\ \A n \in 1..Len(sessions) : sessions'[n] = sessions[n]
  BY <1>1
<1>. QED
  BY <1>2 DEF Grows, Tab!Rows, Row

(* What is asked, by whom. *)
LEMMA AskFlow ==
  ASSUME NEW c, Tab!CallOK(c)
  PROVE  /\ c.flow = "page" <=> c.ask = "list"
         /\ c.flow = "logout" <=> c.ask = "logout"
         /\ c.ask = "login" => c.flow = "login"
         /\ c.ask = "refresh" => c.flow = "boot"
         /\ c.flow \in Tab!Signing <=> c.ask # "list"
         /\ c.flow = "login" => c.ask \in {"login", "me"}
BY DEF Tab!CallOK, Tab!Calls, Tab!Asks, Tab!Signing

LEMMA ServeDataKeeps ==
  ASSUME Tab!IInv, NEW s \in Slots, Tab!ServeData(s) PROVE Tab!IInv'
<1> DEFINE c == call[s]
           ok == c.bearer \in Tab!Rows \ lapsed
           st == IF ok THEN 200 ELSE 401
           r == IF ok THEN c.bearer ELSE 0
           x == Replied(c, st, r)
<1>1. /\ Tab!Busy(s) /\ c.stage = "sent" /\ c.ask \in {"me", "list"}
      /\ call' = [call EXCEPT ![s] = x]
      /\ UNCHANGED <<sessions, lapsed, failures, cookie, token, refresh, user, isLoading, acts,
                     mistyped, loggedOut, turned, faulted, overlapped>>
  BY DEF Tab!ServeData, Tab!IsSent, Tab!Answered, Replied
<1>2. Tab!TypeOK /\ Tab!Shape /\ Tab!Counted /\ c \in Tab!Calls /\ Tab!CallOK(c)
  BY <1>1 DEF Tab!IInv, Tab!Base, Tab!Shape, Tab!CallsFit, Tab!CallOK
<1>3. /\ x \in Tab!Calls /\ x.flow = c.flow /\ x.ask = c.ask /\ x.bearer = c.bearer
      /\ x.skip = c.skip /\ x.stage = "answered" /\ x # Tab!Idle
      /\ IF ok THEN x.status = 200 /\ x.row = c.bearer ELSE x.status = 401 /\ x.row = 0
  <2>1. st \in {0, 200, 401} /\ r \in Nat
    BY <1>2 DEF Tab!Calls
  <2> HIDE DEF st, r
  <2>2. IsReply(x, c, st, r)
    BY <1>2, <2>1, RepliedIs
  <2> HIDE DEF x
  <2>. QED
    BY <2>2 DEF st, r, IsReply, Keeps
<1> HIDE DEF x
<1>4. \A t \in Slots : call'[t] = IF t = s THEN x ELSE call[t]
  BY <1>1, <1>2, SlotSet DEF Tab!Shape, Tab!CallsFit
<1>5. Tab!Rows' = Tab!Rows /\ Grows
  BY <1>1, <1>2, SameGrows DEF Tab!Rows
<1>6. Tab!TypeOK'
  BY <1>1, <1>2, <1>3, <1>4, <1>5 DEF Tab!TypeOK, Tab!Waiting, Tab!Busy
<1>7. Tab!Shape'
  <2>1. Tab!CallOK(x)
    BY <1>1, <1>2, <1>3 DEF Tab!CallOK
  <2>2. x.status = 200 => x.row \in Tab!Rows'
    BY <1>3, <1>5
  <2>3. Tab!CallsFit'
    BY <1>1, <1>2, <1>5, <2>1, <2>2, OneSlotFits DEF Tab!Shape
  <2>. QED
    BY <1>1, <1>2, <2>3, ShapeStays
<1>8. Tab!Counted'
  BY <1>1, <1>2, <1>3, <1>4 DEF Tab!Counted, Tab!CountedTwiceAtMost, Tab!Busy
<1>9. ASSUME Tab!Orderly PROVE Tab!Orderly'
  <2>1. Tab!OneAtATime'
    BY <1>1, <1>3, <1>4, <1>9 DEF Tab!Orderly, Tab!OneAtATime
  <2>2. Tab!RefreshOK'
    BY <1>1, <1>9 DEF Tab!Orderly, Tab!RefreshOK, Tab!SameUser, Tab!Rows, Tab!CookieLives
  <2>3. Tab!Profiling' = Tab!Profiling
    BY <1>1, <1>3, <1>4 DEF Tab!Profiling
  <2>4. Tab!CookieIsShown'
    BY <1>1, <1>3, <1>4, <1>5, <1>9, <2>3 DEF Tab!Orderly, Tab!CookieIsShown, Tab!Busy,
       Tab!SameUser, Tab!Rows
  <2>5. Tab!RetriesAreFresh'
    BY <1>1, <1>3, <1>4, <1>5, <1>9 DEF Tab!Orderly, Tab!RetriesAreFresh, Tab!Busy
  <2>6. Tab!NobodyOut'
    BY <1>1, <1>9, <2>3 DEF Tab!Orderly, Tab!NobodyOut, Tab!RequireAuth, Tab!CookieLives
  <2>. QED
    BY <2>1, <2>2, <2>4, <2>5, <2>6 DEF Tab!Orderly
<1>. QED
  BY <1>1, <1>6, <1>7, <1>8, <1>9 DEF Tab!IInv, Tab!Base
LEMMA SubmitLoginKeeps ==
  ASSUME Tab!IInv, NEW s \in Slots, NEW u \in Users, NEW right \in BOOLEAN,
         Tab!SubmitLogin(s, u, right)
  PROVE  Tab!IInv'
<1> DEFINE x0 == Tab!Sent("login", "login", token)
           x1 == [x0 EXCEPT !.as = u]
           x == [x1 EXCEPT !.right = right]
<1>1. /\ ~Tab!Busy(s) /\ \A t \in Slots : call[t].flow # "login"
      /\ acts < MaxActs /\ acts' = acts + 1
      /\ call' = [call EXCEPT ![s] = x]
      /\ mistyped' = IF right THEN mistyped ELSE [mistyped EXCEPT ![u] = @ + 1]
      /\ overlapped' = (overlapped \/ Tab!Unsettled)
      /\ UNCHANGED <<sessions, lapsed, failures, cookie, token, refresh, user, isLoading,
                     loggedOut, turned, faulted>>
  BY DEF Tab!SubmitLogin, Tab!IsFree, Tab!Acts
<1>2. Tab!TypeOK /\ Tab!Shape /\ Tab!Counted
  BY DEF Tab!IInv, Tab!Base
<1>3. /\ x \in Tab!Calls /\ x # Tab!Idle /\ x.flow = "login" /\ x.ask = "login" /\ ~x.skip
      /\ x.stage = "sent" /\ x.as = u /\ x.right = right
  <2>1. IsNew(x0, "login", "login", token)
    BY <1>2, SentIs DEF Tab!TypeOK, Tab!Signing
  <2> HIDE DEF x0
  <2>2. /\ x1 \in Tab!Calls /\ x1.flow = "login" /\ x1.ask = "login" /\ x1.skip = FALSE
        /\ x1.stage = "sent" /\ x1.as = u
    BY <2>1 DEF IsNew, Tab!Calls
  <2> HIDE DEF x1
  <2>3. /\ x \in Tab!Calls /\ x.flow = "login" /\ x.ask = "login" /\ x.skip = FALSE
        /\ x.stage = "sent" /\ x.as = u /\ x.right = right
    BY <2>2 DEF Tab!Calls
  <2> HIDE DEF x
  <2>. QED
    BY <2>3, IdleIsNoCall
<1> HIDE DEF x
<1>4. \A t \in Slots : call'[t] = IF t = s THEN x ELSE call[t]
  BY <1>1, <1>2, SlotSet DEF Tab!Shape, Tab!CallsFit
<1>5. Tab!Rows' = Tab!Rows /\ Grows
  BY <1>1, <1>2, SameGrows DEF Tab!Rows
<1>6. Tab!TypeOK'
  BY <1>1, <1>2, <1>3, <1>4, <1>5, WebAssumption DEF Tab!TypeOK, Tab!Waiting, Tab!Busy
<1>7. Tab!Shape'
  <2>1. Tab!CallOK(x)
    BY <1>3 DEF Tab!CallOK, Tab!Asks
  <2>2. Tab!CallsFit'
    BY <1>1, <1>2, <1>3, <1>5, <2>1, OneSlotFits DEF Tab!Shape
  <2>3. mistyped' \in [Users -> Nat]
    BY <1>1, <1>2 DEF Tab!Shape
  <2>. QED
    BY <1>1, <1>2, <2>2, <2>3 DEF Tab!Shape, Tab!RefreshFits
<1>8. Tab!Counted'
  <2>1. \A v \in Users : failures[v] \in Nat /\ mistyped[v] \in Nat /\ failures'[v] = failures[v]
    BY <1>1, <1>2 DEF Tab!Shape
  <2>2. \A v \in Users : mistyped'[v] \in Nat /\ mistyped[v] <= mistyped'[v]
    BY <1>1, <1>2, <2>1 DEF Tab!Shape
  <2>3. ~right => mistyped'[u] = mistyped[u] + 1
    BY <1>1, <1>2 DEF Tab!Shape
  <2>4. Tab!CountedTwiceAtMost'
    BY <1>2, <2>1, <2>2 DEF Tab!Counted, Tab!CountedTwiceAtMost
  <2>5. Tab!Left(x) = 2
    BY <1>3 DEF Tab!Left
  <2>6. ~right => failures'[u] + Tab!Left(x) <= 2 * mistyped'[u]
    BY <1>2, <2>1, <2>3, <2>5 DEF Tab!Counted, Tab!CountedTwiceAtMost
  <2>7. \A t \in Slots : Tab!Busy(t) => call[t].ask # "login"
    BY <1>1, <1>2, AskFlow DEF Tab!Shape, Tab!CallsFit
  <2>. QED
    BY <1>1, <1>3, <1>4, <2>4, <2>6, <2>7 DEF Tab!Counted, Tab!Busy
<1>9. ASSUME ~overlapped', Tab!Orderly PROVE Tab!Orderly'
  <2>1. refresh = None /\ \A t \in Slots : call[t].flow \notin Tab!Signing
    BY <1>1, <1>9 DEF Tab!Unsettled, Tab!Signing
  <2>2. Tab!OneAtATime'
    BY <1>1, <1>4, <2>1 DEF Tab!OneAtATime
  <2>3. Tab!RefreshOK'
    BY <1>1, <2>1 DEF Tab!RefreshOK
  <2>4. ~Tab!Profiling /\ ~Tab!Profiling'
    BY <1>1, <1>3, <1>4 DEF Tab!Profiling
  <2>5. Tab!CookieIsShown'
    BY <1>1, <1>3, <1>4, <1>5, <1>9, <2>4 DEF Tab!Orderly, Tab!CookieIsShown, Tab!Busy,
       Tab!SameUser, Tab!Rows
  <2>6. Tab!RetriesAreFresh'
    BY <1>1, <1>3, <1>4, <1>5, <1>9 DEF Tab!Orderly, Tab!RetriesAreFresh, Tab!Busy
  <2>7. Tab!NobodyOut'
    BY <1>1, <1>9, <2>4 DEF Tab!Orderly, Tab!NobodyOut, Tab!RequireAuth, Tab!CookieLives
  <2>. QED
    BY <2>2, <2>3, <2>5, <2>6, <2>7 DEF Tab!Orderly
<1>. QED
  BY <1>1, <1>6, <1>7, <1>8, <1>9 DEF Tab!IInv, Tab!Base

LEMMA ClickLogoutKeeps == ASSUME Tab!IInv, NEW s \in Slots, Tab!ClickLogout(s) PROVE Tab!IInv'
<1> DEFINE x == Tab!Sent("logout", "logout", token)
<1>1. /\ ~Tab!Busy(s) /\ acts < MaxActs /\ acts' = acts + 1
      /\ call' = [call EXCEPT ![s] = x]
      /\ overlapped' = (overlapped \/ Tab!Unsettled)
      /\ UNCHANGED <<sessions, lapsed, failures, cookie, token, refresh, user, isLoading,
                     mistyped, loggedOut, turned, faulted>>
  BY DEF Tab!ClickLogout, Tab!IsFree, Tab!Acts
<1>2. Tab!TypeOK /\ Tab!Shape /\ Tab!Counted
  BY DEF Tab!IInv, Tab!Base
<1>3. /\ x \in Tab!Calls /\ x # Tab!Idle /\ x.flow = "logout" /\ x.ask = "logout" /\ ~x.skip
      /\ x.stage = "sent" /\ x.status = 0
  <2>1. IsNew(x, "logout", "logout", token)
    BY <1>2, SentIs DEF Tab!TypeOK, Tab!Signing
  <2> HIDE DEF x
  <2>. QED
    BY <2>1 DEF IsNew
<1> HIDE DEF x
<1>4. \A t \in Slots : call'[t] = IF t = s THEN x ELSE call[t]
  BY <1>1, <1>2, SlotSet DEF Tab!Shape, Tab!CallsFit
<1>5. Tab!Rows' = Tab!Rows /\ Grows
  BY <1>1, <1>2, SameGrows DEF Tab!Rows
<1>6. Tab!TypeOK'
  BY <1>1, <1>2, <1>3, <1>4, <1>5, WebAssumption DEF Tab!TypeOK, Tab!Waiting, Tab!Busy
<1>7. Tab!Shape'
  <2>1. Tab!CallOK(x)
    BY <1>3 DEF Tab!CallOK, Tab!Asks
  <2>2. Tab!CallsFit'
    BY <1>1, <1>2, <1>3, <1>5, <2>1, OneSlotFits DEF Tab!Shape
  <2>. QED
    BY <1>1, <1>2, <2>2, ShapeStays
<1>8. Tab!Counted'
  BY <1>1, <1>2, <1>3, <1>4 DEF Tab!Counted, Tab!CountedTwiceAtMost, Tab!Busy
<1>9. ASSUME ~overlapped', Tab!Orderly PROVE Tab!Orderly'
  <2>1. refresh = None /\ \A t \in Slots : call[t].flow \notin Tab!Signing
    BY <1>1, <1>9 DEF Tab!Unsettled, Tab!Signing
  <2>2. Tab!OneAtATime'
    BY <1>1, <1>4, <2>1 DEF Tab!OneAtATime
  <2>3. Tab!RefreshOK'
    BY <1>1, <1>9 DEF Tab!Orderly, Tab!RefreshOK, Tab!SameUser, Tab!Rows, Tab!CookieLives
  <2>4. Tab!Profiling' = Tab!Profiling
    BY <1>1, <1>3, <1>4, IdleIsNoCall DEF Tab!Profiling, Tab!Busy
  <2>5. Tab!CookieIsShown'
    BY <1>1, <1>3, <1>4, <1>5, <1>9, <2>4 DEF Tab!Orderly, Tab!CookieIsShown, Tab!Busy,
       Tab!SameUser, Tab!Rows
  <2>6. Tab!RetriesAreFresh'
    BY <1>1, <1>3, <1>4, <1>5, <1>9 DEF Tab!Orderly, Tab!RetriesAreFresh, Tab!Busy
  <2>7. Tab!NobodyOut'
    BY <1>1, <1>9, <2>4 DEF Tab!Orderly, Tab!NobodyOut, Tab!RequireAuth, Tab!CookieLives
  <2>. QED
    BY <2>2, <2>3, <2>5, <2>6, <2>7 DEF Tab!Orderly
<1>. QED
  BY <1>1, <1>6, <1>7, <1>8, <1>9 DEF Tab!IInv, Tab!Base

LEMMA AskKeeps == ASSUME Tab!IInv, NEW s \in Slots, Tab!Ask(s) PROVE Tab!IInv'
<1> DEFINE x == Tab!Sent("page", "list", token)
<1>1. /\ ~Tab!Busy(s) /\ acts < MaxActs /\ acts' = acts + 1
      /\ call' = [call EXCEPT ![s] = x]
      /\ overlapped' = overlapped
      /\ UNCHANGED <<sessions, lapsed, failures, cookie, token, refresh, user, isLoading,
                     mistyped, loggedOut, turned, faulted>>
  BY DEF Tab!Ask, Tab!IsFree, Tab!Acts
<1>2. Tab!TypeOK /\ Tab!Shape /\ Tab!Counted
  BY DEF Tab!IInv, Tab!Base
<1>3. /\ x \in Tab!Calls /\ x # Tab!Idle /\ x.flow = "page" /\ x.ask = "list" /\ ~x.skip
      /\ x.stage = "sent" /\ x.status = 0
  <2>1. IsNew(x, "page", "list", token)
    BY <1>2, SentIs DEF Tab!TypeOK, Tab!Signing
  <2> HIDE DEF x
  <2>. QED
    BY <2>1 DEF IsNew
<1> HIDE DEF x
<1>4. \A t \in Slots : call'[t] = IF t = s THEN x ELSE call[t]
  BY <1>1, <1>2, SlotSet DEF Tab!Shape, Tab!CallsFit
<1>5. Tab!Rows' = Tab!Rows /\ Grows
  BY <1>1, <1>2, SameGrows DEF Tab!Rows
<1>6. Tab!TypeOK'
  BY <1>1, <1>2, <1>3, <1>4, <1>5, WebAssumption DEF Tab!TypeOK, Tab!Waiting, Tab!Busy
<1>7. Tab!Shape'
  <2>1. Tab!CallOK(x)
    BY <1>3 DEF Tab!CallOK, Tab!Asks
  <2>2. Tab!CallsFit'
    BY <1>1, <1>2, <1>3, <1>5, <2>1, OneSlotFits DEF Tab!Shape
  <2>. QED
    BY <1>1, <1>2, <2>2, ShapeStays
<1>8. Tab!Counted'
  BY <1>1, <1>2, <1>3, <1>4 DEF Tab!Counted, Tab!CountedTwiceAtMost, Tab!Busy
<1>9. ASSUME ~overlapped', Tab!Orderly PROVE Tab!Orderly'
  <2>1. x.flow \notin Tab!Signing
    BY <1>3 DEF Tab!Signing
  <2>2. Tab!OneAtATime'
    BY <1>1, <1>4, <1>9, <2>1 DEF Tab!Orderly, Tab!OneAtATime
  <2>3. Tab!RefreshOK'
    BY <1>1, <1>9 DEF Tab!Orderly, Tab!RefreshOK, Tab!SameUser, Tab!Rows, Tab!CookieLives
  <2>4. Tab!Profiling' = Tab!Profiling
    BY <1>1, <1>3, <1>4, IdleIsNoCall DEF Tab!Profiling, Tab!Busy
  <2>5. Tab!CookieIsShown'
    BY <1>1, <1>3, <1>4, <1>5, <1>9, <2>4 DEF Tab!Orderly, Tab!CookieIsShown, Tab!Busy,
       Tab!SameUser, Tab!Rows
  <2>6. Tab!RetriesAreFresh'
    BY <1>1, <1>3, <1>4, <1>5, <1>9 DEF Tab!Orderly, Tab!RetriesAreFresh, Tab!Busy
  <2>7. Tab!NobodyOut'
    BY <1>1, <1>9, <2>4 DEF Tab!Orderly, Tab!NobodyOut, Tab!RequireAuth, Tab!CookieLives
  <2>. QED
    BY <2>2, <2>3, <2>5, <2>6, <2>7 DEF Tab!Orderly
<1>. QED
  BY <1>1, <1>6, <1>7, <1>8, <1>9 DEF Tab!IInv, Tab!Base

LEMMA ReceiveListKeeps == ASSUME Tab!IInv, NEW s \in Slots, Tab!ReceiveList(s) PROVE Tab!IInv'
<1> DEFINE c == call[s]
<1>1. /\ Tab!Busy(s) /\ c.stage = "answered" /\ c.ask = "list"
      /\ call' = [call EXCEPT ![s] = Tab!Idle]
      /\ UNCHANGED <<sessions, lapsed, failures, cookie, token, refresh, user, isLoading, acts,
                     mistyped, loggedOut, turned, faulted, overlapped>>
  BY DEF Tab!ReceiveList, Tab!IsAnswered
<1>2. Tab!TypeOK /\ Tab!Shape /\ Tab!Counted /\ c \in Tab!Calls /\ Tab!CallOK(c)
  BY <1>1, CallFacts
<1>4. \A t \in Slots : call'[t] = IF t = s THEN Tab!Idle ELSE call[t]
  BY <1>1, <1>2, SlotSet DEF Tab!Shape, Tab!CallsFit
<1>5. Tab!Rows' = Tab!Rows /\ Grows
  BY <1>1, <1>2, SameGrows DEF Tab!Rows
<1>6. Tab!TypeOK'
  BY <1>1, <1>2, <1>4, <1>5 DEF Tab!TypeOK, Tab!Waiting, Tab!Busy
<1>7. Tab!Shape'
  <2>1. Tab!CallsFit'
    BY <1>1, <1>2, <1>5, OneSlotFits DEF Tab!Shape
  <2>. QED
    BY <1>1, <1>2, <2>1 DEF Tab!Shape, Tab!RefreshFits
<1>8. Tab!Counted'
  BY <1>1, <1>2, <1>4, IdleIsNoCall DEF Tab!Counted, Tab!CountedTwiceAtMost, Tab!Busy
<1>9. ASSUME Tab!Orderly PROVE Tab!Orderly'
  <2>1. Tab!OneAtATime'
    BY <1>1, <1>4, <1>9, IdleIsNoCall DEF Tab!Orderly, Tab!OneAtATime, Tab!Signing
  <2>2. Tab!RefreshOK'
    BY <1>1, <1>9 DEF Tab!Orderly, Tab!RefreshOK, Tab!SameUser, Tab!Rows, Tab!CookieLives
  <2>3. Tab!Profiling' = Tab!Profiling
    BY <1>1, <1>4, IdleIsNoCall DEF Tab!Profiling
  <2>4. Tab!CookieIsShown'
    BY <1>1, <1>4, <1>5, <1>9, <2>3 DEF Tab!Orderly, Tab!CookieIsShown, Tab!Busy, Tab!SameUser,
       Tab!Rows
  <2>5. Tab!RetriesAreFresh'
    BY <1>1, <1>4, <1>5, <1>9 DEF Tab!Orderly, Tab!RetriesAreFresh, Tab!Busy
  <2>6. Tab!NobodyOut'
    BY <1>1, <1>9, <2>3 DEF Tab!Orderly, Tab!NobodyOut, Tab!RequireAuth, Tab!CookieLives
  <2>. QED
    BY <2>1, <2>2, <2>4, <2>5, <2>6 DEF Tab!Orderly
<1>. QED
  BY <1>1, <1>6, <1>7, <1>8, <1>9 DEF Tab!IInv, Tab!Base

LEMMA ReceiveProfileKeeps == ASSUME Tab!IInv, NEW s \in Slots, Tab!ReceiveProfile(s) PROVE Tab!IInv'
<1> DEFINE c == call[s]
<1>1. /\ Tab!Busy(s) /\ c.stage = "answered" /\ c.ask = "me" /\ c.status = 200
      /\ user' = sessions[c.row].user
      /\ isLoading' = (isLoading /\ c.flow # "boot")
      /\ call' = [call EXCEPT ![s] = Tab!Idle]
      /\ UNCHANGED <<sessions, lapsed, failures, cookie, token, refresh, acts, mistyped, loggedOut,
                     turned, faulted, overlapped>>
  BY DEF Tab!ReceiveProfile, Tab!IsAnswered
<1>2. Tab!TypeOK /\ Tab!Shape /\ Tab!Counted /\ c \in Tab!Calls /\ Tab!CallOK(c)
  BY <1>1, CallFacts
<1>4. \A t \in Slots : call'[t] = IF t = s THEN Tab!Idle ELSE call[t]
  BY <1>1, <1>2, SlotSet DEF Tab!Shape, Tab!CallsFit
<1>5. Tab!Rows' = Tab!Rows /\ Grows
  BY <1>1, <1>2, SameGrows DEF Tab!Rows
<1>6. Tab!TypeOK'
  <2>1. c.row \in Tab!Rows
    BY <1>1, <1>2 DEF Tab!Shape, Tab!CallsFit
  <2>2. sessions[c.row].user \in Users
    BY <1>2, <2>1, RowIs
  <2>. QED
    BY <1>1, <1>2, <1>4, <1>5, <2>2 DEF Tab!TypeOK, Tab!Waiting, Tab!Busy
<1>7. Tab!Shape'
  <2>1. Tab!CallsFit'
    BY <1>1, <1>2, <1>5, OneSlotFits, ZenonT(60) DEF Tab!Shape
  <2>. QED
    BY <1>1, <1>2, <2>1 DEF Tab!Shape, Tab!RefreshFits
<1>8. Tab!Counted'
  BY <1>1, <1>2, <1>4, IdleIsNoCall DEF Tab!Counted, Tab!CountedTwiceAtMost, Tab!Busy
<1>9. ASSUME Tab!Orderly PROVE Tab!Orderly'
  <2>1. Tab!OneAtATime'
    BY <1>1, <1>4, <1>9, IdleIsNoCall DEF Tab!Orderly, Tab!OneAtATime, Tab!Signing
  <2>2. Tab!RefreshOK'
    BY <1>1, <1>9 DEF Tab!Orderly, Tab!RefreshOK, Tab!SameUser, Tab!Rows, Tab!CookieLives
  <2>3. c.row = c.bearer /\ Tab!SameUser(c.bearer, cookie)
    BY <1>1, <1>2, <1>9 DEF Tab!CallOK, Tab!Orderly, Tab!CookieIsShown
  <2>4. /\ cookie # 0 /\ sessions[cookie].user = user' /\ user' \in Users
    <3>1. {c.bearer, cookie} \subseteq Tab!Rows /\ sessions[c.bearer].user = sessions[cookie].user
      BY <2>3 DEF Tab!SameUser
    <3>. QED
      BY <1>1, <1>2, <2>3, <3>1, RowIs DEF Tab!Rows
  <2>5. Tab!CookieIsShown'
    BY <1>1, <1>4, <1>5, <1>9, <2>4 DEF Tab!Orderly, Tab!CookieIsShown, Tab!Busy, Tab!SameUser,
       Tab!Rows
  <2>6. Tab!RetriesAreFresh'
    BY <1>1, <1>4, <1>5, <1>9 DEF Tab!Orderly, Tab!RetriesAreFresh, Tab!Busy
  <2>7. Tab!NobodyOut'
    BY <1>1, <1>9, <2>4, WebAssumption DEF Tab!Orderly, Tab!NobodyOut, Tab!RequireAuth,
       Tab!CookieLives
  <2>. QED
    BY <2>1, <2>2, <2>5, <2>6, <2>7 DEF Tab!Orderly
<1>. QED
  BY <1>1, <1>6, <1>7, <1>8, <1>9 DEF Tab!IInv, Tab!Base

LEMMA ReceiveLogoutKeeps == ASSUME Tab!IInv, NEW s \in Slots, Tab!ReceiveLogout(s) PROVE Tab!IInv'
<1> DEFINE c == call[s]
<1>1. /\ Tab!Busy(s) /\ c.stage = "answered" /\ c.ask = "logout"
      /\ cookie' = 0 /\ token' = 0 /\ user' = None /\ loggedOut' = TRUE
      /\ call' = [call EXCEPT ![s] = Tab!Idle]
      /\ UNCHANGED <<sessions, lapsed, failures, refresh, isLoading, acts, mistyped, turned,
                     faulted, overlapped>>
  BY DEF Tab!ReceiveLogout, Tab!IsAnswered
<1>2. Tab!TypeOK /\ Tab!Shape /\ Tab!Counted /\ c \in Tab!Calls /\ Tab!CallOK(c)
  BY <1>1, CallFacts
<1>4. \A t \in Slots : call'[t] = IF t = s THEN Tab!Idle ELSE call[t]
  BY <1>1, <1>2, SlotSet DEF Tab!Shape, Tab!CallsFit
<1>5. Tab!Rows' = Tab!Rows /\ Grows
  BY <1>1, <1>2, SameGrows DEF Tab!Rows
<1>6. Tab!TypeOK'
  BY <1>1, <1>2, <1>4, <1>5 DEF Tab!TypeOK, Tab!Waiting, Tab!Busy
<1>7. Tab!Shape'
  <2>1. Tab!CallsFit'
    BY <1>1, <1>2, <1>5, OneSlotFits DEF Tab!Shape
  <2>. QED
    BY <1>1, <1>2, <2>1 DEF Tab!Shape, Tab!RefreshFits
<1>8. Tab!Counted'
  BY <1>1, <1>2, <1>4, IdleIsNoCall DEF Tab!Counted, Tab!CountedTwiceAtMost, Tab!Busy
<1>9. ASSUME Tab!Orderly PROVE Tab!Orderly'
  <2>1. c.flow \in Tab!Signing
    BY <1>1, <1>2, AskFlow
  <2>2. refresh = None
    BY <1>1, <1>9, <2>1 DEF Tab!Orderly, Tab!OneAtATime
  <2>3. Tab!OneAtATime' /\ Tab!RefreshOK'
    BY <1>1, <1>4, <1>9, <2>2, IdleIsNoCall DEF Tab!Orderly, Tab!OneAtATime, Tab!Signing,
       Tab!RefreshOK
  <2>4. \A t \in Slots : Tab!Busy(t)' => call'[t].ask = "list"
    <3>. SUFFICES ASSUME NEW t \in Slots, Tab!Busy(t)' PROVE call'[t].ask = "list"
      OBVIOUS
    <3>1. t # s /\ Tab!Busy(t) /\ call'[t] = call[t]
      BY <1>4 DEF Tab!Busy
    <3>2. call[t].flow \notin Tab!Signing
      BY <1>9, <2>1, <3>1 DEF Tab!Orderly, Tab!OneAtATime
    <3>3. Tab!CallOK(call[t])
      BY <1>2, <3>1 DEF Tab!Shape, Tab!CallsFit
    <3>. QED
      BY <3>1, <3>2, <3>3, AskFlow
  <2>5. Tab!CookieIsShown'
    BY <1>1, <2>4 DEF Tab!CookieIsShown
  <2>6. Tab!RetriesAreFresh'
    BY <1>1, <1>4, <1>5, <1>9 DEF Tab!Orderly, Tab!RetriesAreFresh, Tab!Busy
  <2>7. Tab!NobodyOut'
    BY <1>1, <1>9, <2>2 DEF Tab!Orderly, Tab!NobodyOut, Tab!CookieLives
  <2>. QED
    BY <2>3, <2>5, <2>6, <2>7 DEF Tab!Orderly
<1>. QED
  BY <1>1, <1>6, <1>7, <1>8, <1>9 DEF Tab!IInv, Tab!Base

LEMMA LoseKeeps == ASSUME Tab!IInv, NEW s \in Slots, Tab!Lose(s) PROVE Tab!IInv'
<1> DEFINE c == call[s]
<1>1. /\ Tab!Busy(s) /\ c.stage \in {"sent", "answered"} /\ faulted' = TRUE
      /\ call' = [call EXCEPT ![s] = Tab!Idle]
      /\ user' = IF c.ask \in {"me", "logout"} THEN None ELSE user
      /\ token' = IF c.ask = "logout" THEN 0 ELSE token
      /\ isLoading' = (isLoading /\ c.flow # "boot")
      /\ UNCHANGED <<sessions, lapsed, failures, cookie, refresh, acts, mistyped, loggedOut,
                     turned, overlapped>>
  BY DEF Tab!Lose, Tab!Fails
<1>2. Tab!TypeOK /\ Tab!Shape /\ Tab!Counted /\ c \in Tab!Calls /\ Tab!CallOK(c)
  BY <1>1, CallFacts
<1>4. \A t \in Slots : call'[t] = IF t = s THEN Tab!Idle ELSE call[t]
  BY <1>1, <1>2, SlotSet DEF Tab!Shape, Tab!CallsFit
<1>5. Tab!Rows' = Tab!Rows /\ Grows
  BY <1>1, <1>2, SameGrows DEF Tab!Rows
<1>6. Tab!TypeOK'
  BY <1>1, <1>2, <1>4, <1>5 DEF Tab!TypeOK, Tab!Waiting, Tab!Busy
<1>7. Tab!Shape'
  <2>1. Tab!CallsFit'
    BY <1>1, <1>2, <1>5, OneSlotFits DEF Tab!Shape
  <2>. QED
    BY <1>1, <1>2, <2>1 DEF Tab!Shape, Tab!RefreshFits
<1>8. Tab!Counted'
  BY <1>1, <1>2, <1>4, IdleIsNoCall DEF Tab!Counted, Tab!CountedTwiceAtMost, Tab!Busy
<1>9. ASSUME Tab!Orderly PROVE Tab!Orderly'
  <2>1. Tab!OneAtATime'
    BY <1>1, <1>4, <1>9, IdleIsNoCall DEF Tab!Orderly, Tab!OneAtATime, Tab!Signing
  <2>2. Tab!RefreshOK'
    BY <1>1, <1>9 DEF Tab!Orderly, Tab!RefreshOK, Tab!SameUser, Tab!Rows, Tab!CookieLives
  <2>3. user' # None => user' = user /\ Tab!Profiling' = Tab!Profiling
    BY <1>1, <1>4, IdleIsNoCall DEF Tab!Profiling
  <2>4. Tab!CookieIsShown'
    BY <1>1, <1>4, <1>5, <1>9, <2>3 DEF Tab!Orderly, Tab!CookieIsShown, Tab!Busy, Tab!SameUser,
       Tab!Rows
  <2>5. Tab!RetriesAreFresh'
    BY <1>1, <1>4, <1>5, <1>9 DEF Tab!Orderly, Tab!RetriesAreFresh, Tab!Busy
  <2>6. Tab!NobodyOut'
    BY <1>1 DEF Tab!NobodyOut
  <2>. QED
    BY <2>1, <2>2, <2>4, <2>5, <2>6 DEF Tab!Orderly
<1>. QED
  BY <1>1, <1>6, <1>7, <1>8, <1>9 DEF Tab!IInv, Tab!Base

LEMMA ReceiveRefusalKeeps == ASSUME Tab!IInv, NEW s \in Slots, Tab!ReceiveRefusal(s) PROVE Tab!IInv'
<1> DEFINE c == call[s]
<1>1. /\ Tab!Busy(s) /\ c.stage = "answered" /\ c.status = 401 /\ c.skip
      /\ call' = [call EXCEPT ![s] = Tab!Idle]
      /\ user' = IF c.ask \in {"me", "logout"} THEN None ELSE user
      /\ token' = IF c.ask = "logout" THEN 0 ELSE token
      /\ isLoading' = (isLoading /\ c.flow # "boot")
      /\ turned' = (turned \/ (c.flow = "page" /\ Tab!CookieLives))
      /\ UNCHANGED <<sessions, lapsed, failures, cookie, refresh, acts, mistyped, loggedOut,
                     faulted, overlapped>>
  BY DEF Tab!ReceiveRefusal, Tab!Fails
<1>2. Tab!TypeOK /\ Tab!Shape /\ Tab!Counted /\ c \in Tab!Calls /\ Tab!CallOK(c)
  BY <1>1, CallFacts
<1>4. \A t \in Slots : call'[t] = IF t = s THEN Tab!Idle ELSE call[t]
  BY <1>1, <1>2, SlotSet DEF Tab!Shape, Tab!CallsFit
<1>5. Tab!Rows' = Tab!Rows /\ Grows
  BY <1>1, <1>2, SameGrows DEF Tab!Rows
<1>6. Tab!TypeOK'
  BY <1>1, <1>2, <1>4, <1>5 DEF Tab!TypeOK, Tab!Waiting, Tab!Busy
<1>7. Tab!Shape'
  <2>1. Tab!CallsFit'
    BY <1>1, <1>2, <1>5, OneSlotFits DEF Tab!Shape
  <2>. QED
    BY <1>1, <1>2, <2>1 DEF Tab!Shape, Tab!RefreshFits
<1>8. Tab!Counted'
  BY <1>1, <1>2, <1>4, IdleIsNoCall DEF Tab!Counted, Tab!CountedTwiceAtMost, Tab!Busy
<1>9. ASSUME Tab!Orderly PROVE Tab!Orderly'
  <2>1. c.ask \notin {"me", "list"}
    BY <1>1, <1>9 DEF Tab!Orderly, Tab!RetriesAreFresh
  <2>2. c.ask = "login" /\ c.flow = "login"
    BY <1>1, <1>2, <2>1, AskFlow DEF Tab!CallOK, Tab!Calls
  <2>3. UNCHANGED <<user, token, isLoading>> /\ (turned' => turned)
    <3>1. c.ask \notin {"me", "logout"} /\ c.flow # "boot" /\ c.flow # "page"
      BY <2>2
    <3>2. isLoading \in BOOLEAN
      BY <1>2 DEF Tab!TypeOK
    <3>. QED
      BY <1>1, <3>1, <3>2
  <2>4. Tab!OneAtATime'
    BY <1>1, <1>4, <1>9, IdleIsNoCall DEF Tab!Orderly, Tab!OneAtATime, Tab!Signing
  <2>5. Tab!RefreshOK'
    BY <1>1, <1>9 DEF Tab!Orderly, Tab!RefreshOK, Tab!SameUser, Tab!Rows, Tab!CookieLives
  <2>6. Tab!Profiling' = Tab!Profiling
    BY <1>1, <1>4, <2>2, IdleIsNoCall DEF Tab!Profiling
  <2>7. Tab!CookieIsShown'
    BY <1>1, <1>4, <1>5, <1>9, <2>3, <2>6 DEF Tab!Orderly, Tab!CookieIsShown, Tab!Busy,
       Tab!SameUser, Tab!Rows
  <2>8. Tab!RetriesAreFresh'
    BY <1>1, <1>4, <1>5, <1>9 DEF Tab!Orderly, Tab!RetriesAreFresh, Tab!Busy
  <2>9. Tab!NobodyOut'
    BY <1>1, <1>9, <2>3, <2>6 DEF Tab!Orderly, Tab!NobodyOut, Tab!RequireAuth, Tab!CookieLives
  <2>. QED
    BY <2>4, <2>5, <2>7, <2>8, <2>9 DEF Tab!Orderly
<1>10. turned' => faulted' \/ overlapped'
  BY <1>1, <1>9 DEF Tab!IInv, Tab!Orderly, Tab!NobodyOut
<1>. QED
  BY <1>1, <1>6, <1>7, <1>8, <1>9, <1>10 DEF Tab!IInv, Tab!Base

LEMMA ServeLogoutKeeps == ASSUME Tab!IInv, NEW s \in Slots, Tab!ServeLogout(s) PROVE Tab!IInv'
<1> DEFINE c == call[s]
           x == Replied(c, 200, 0)
<1>1. /\ Tab!Busy(s) /\ c.stage = "sent" /\ c.ask = "logout"
      /\ sessions' = [n \in Tab!Rows |-> [sessions[n] EXCEPT !.live = @ /\ n # c.holds]]
      /\ call' = [call EXCEPT ![s] = x]
      /\ failures' = failures
      /\ UNCHANGED <<lapsed, cookie, token, refresh, user, isLoading, acts, mistyped, loggedOut,
                     turned, faulted, overlapped>>
  BY DEF Tab!ServeLogout, Tab!IsSent, Tab!Answered, Replied
<1>2. Tab!TypeOK /\ Tab!Shape /\ Tab!Counted /\ c \in Tab!Calls /\ Tab!CallOK(c)
  BY <1>1, CallFacts
<1>3. /\ x \in Tab!Calls /\ x.flow = c.flow /\ x.ask = c.ask
      /\ x.skip = c.skip /\ x.stage = "answered" /\ x # Tab!Idle /\ x.status = 200
  <2>1. IsReply(x, c, 200, 0)
    BY <1>2, RepliedIs
  <2> HIDE DEF x
  <2>. QED
    BY <2>1 DEF IsReply, Keeps
<1> HIDE DEF x
<1>4. \A t \in Slots : call'[t] = IF t = s THEN x ELSE call[t]
  BY <1>1, <1>2, SlotSet DEF Tab!Shape, Tab!CallsFit
<1>5. Grows /\ Len(sessions') = Len(sessions) /\ Tab!Rows' = Tab!Rows
  <2>1. ASSUME NEW n \in Tab!Rows
        PROVE  /\ sessions'[n] \in Row
               /\ sessions'[n].user = sessions[n].user
               /\ sessions'[n].live => sessions[n].live
    <3>1. sessions[n] \in Row
      BY <1>2, RowIs DEF Row
    <3>2. sessions'[n] = [sessions[n] EXCEPT !.live = @ /\ n # c.holds]
      BY <1>1
    <3> HIDE DEF c
    <3>. QED
      BY <3>1, <3>2 DEF Row
  <2>2. Len(sessions) \in Nat /\ Tab!Rows = 1..Len(sessions)
    BY <1>2 DEF Tab!TypeOK, Tab!Rows
  <2>3. sessions' \in [1..Len(sessions) -> Row]
    BY <1>1, <2>1, <2>2
  <2>4. sessions' \in Seq(Row) /\ Len(sessions') = Len(sessions)
    BY <2>2, <2>3
  <2>. QED
    BY <2>1, <2>2, <2>4 DEF Grows, Tab!Rows, Row
<1>6. Tab!TypeOK'
  <2>1. sessions' \in Seq([user : Users, live : BOOLEAN])
    BY <1>5 DEF Grows
  <2>2. Tab!Waiting' = {} \/ refresh # None
    BY <1>1, <1>2, <1>3, <1>4 DEF Tab!TypeOK, Tab!Waiting, Tab!Busy
  <2>. QED
    BY <1>1, <1>2, <1>5, <2>1, <2>2 DEF Tab!TypeOK
<1>7. Tab!Shape'
  <2>1. Tab!CallOK(x)
    BY <1>1, <1>2, <1>3 DEF Tab!CallOK
  <2>2. Tab!CallsFit'
    BY <1>1, <1>2, <1>3, <1>5, <2>1, OneSlotFits DEF Tab!Shape
  <2>. QED
    BY <1>1, <1>2, <1>5, <2>2 DEF Tab!Shape, Tab!RefreshFits
<1>8. Tab!Counted'
  BY <1>1, <1>2, <1>3, <1>4 DEF Tab!Counted, Tab!CountedTwiceAtMost, Tab!Busy
<1>9. ASSUME Tab!Orderly PROVE Tab!Orderly'
  <2>1. c.flow \in Tab!Signing /\ refresh = None
    BY <1>1, <1>2, <1>9, AskFlow DEF Tab!Orderly, Tab!OneAtATime
  <2>2. Tab!OneAtATime' /\ Tab!RefreshOK'
    BY <1>1, <1>3, <1>4, <1>9, <2>1 DEF Tab!Orderly, Tab!OneAtATime, Tab!RefreshOK
  <2>3. Tab!Profiling' = Tab!Profiling
    BY <1>1, <1>3, <1>4 DEF Tab!Profiling
  <2>4. /\ \A m, n : Tab!SameUser(m, n) => Tab!SameUser(m, n)'
        /\ Tab!CookieLives' => Tab!CookieLives
        /\ cookie # 0 => sessions'[cookie].user = sessions[cookie].user
    BY <1>1, <1>2, <1>5, RowsGrow, CookieRow
  <2>5. Tab!CookieIsShown'
    BY <1>1, <1>3, <1>4, <1>9, <2>3, <2>4 DEF Tab!Orderly, Tab!CookieIsShown, Tab!Busy
  <2>6. Tab!RetriesAreFresh'
    <3>1. x.ask \notin {"me", "list"} /\ lapsed' = lapsed /\ Tab!Rows' = Tab!Rows
      BY <1>1, <1>3, <1>5
    <3>. QED
      BY <1>4, <1>9, <3>1 DEF Tab!Orderly, Tab!RetriesAreFresh, Tab!Busy
  <2>7. Tab!NobodyOut'
    BY <1>1, <1>9, <2>1, <2>3, <2>4 DEF Tab!Orderly, Tab!NobodyOut, Tab!RequireAuth
  <2>. QED
    BY <2>2, <2>5, <2>6, <2>7 DEF Tab!Orderly
<1>. QED
  BY <1>1, <1>6, <1>7, <1>8, <1>9 DEF Tab!IInv, Tab!Base

LEMMA ServeLoginKeeps == ASSUME Tab!IInv, NEW s \in Slots, Tab!ServeLogin(s) PROVE Tab!IInv'
<1> DEFINE c == call[s]
           st == IF c.right THEN 200 ELSE 401
           r == IF c.right THEN Len(sessions) + 1 ELSE 0
           x == Replied(c, st, r)
<1>1. /\ Tab!Busy(s) /\ c.stage = "sent" /\ c.ask = "login"
      /\ call' = [call EXCEPT ![s] = x]
      /\ IF c.right
         THEN sessions' = Append(sessions, [user |-> c.as, live |-> TRUE]) /\ failures' = failures
         ELSE sessions' = sessions /\ failures' = [failures EXCEPT ![c.as] = @ + 1]
      /\ UNCHANGED <<lapsed, cookie, token, refresh, user, isLoading, acts, mistyped, loggedOut,
                     turned, faulted, overlapped>>
  BY DEF Tab!ServeLogin, Tab!IsSent, Tab!Answered, Replied
<1>2. Tab!TypeOK /\ Tab!Shape /\ Tab!Counted /\ c \in Tab!Calls /\ Tab!CallOK(c)
  BY <1>1, CallFacts
<1>3. /\ x \in Tab!Calls /\ x.flow = c.flow /\ x.ask = "login" /\ x.as = c.as /\ c.as \in Users
      /\ x.right = c.right /\ x.skip = c.skip /\ x.stage = "answered" /\ x # Tab!Idle
      /\ IF c.right THEN x.row = Len(sessions) + 1 ELSE x.status = 401
  <2>1. st \in {0, 200, 401} /\ r \in Nat /\ c.as \in Users
    BY <1>1, <1>2 DEF Tab!CallOK, Tab!TypeOK
  <2> HIDE DEF st, r
  <2>2. IsReply(x, c, st, r)
    BY <1>2, <2>1, RepliedIs
  <2> HIDE DEF x
  <2>. QED
    BY <1>1, <2>1, <2>2 DEF IsReply, Keeps, st, r
<1> HIDE DEF x
<1>4. \A t \in Slots : call'[t] = IF t = s THEN x ELSE call[t]
  BY <1>1, <1>2, SlotSet DEF Tab!Shape, Tab!CallsFit
<1>5. Grows /\ (c.right => Len(sessions) + 1 \in Tab!Rows')
  <2>1. CASE c.right
    <3> DEFINE new == [user |-> c.as, live |-> TRUE]
    <3>1. new \in Row
      BY <1>3 DEF Row
    <3> HIDE DEF new
    <3>2. sessions' = Append(sessions, new)
      BY <1>1, <2>1 DEF new
    <3>3. Len(sessions) \in Nat
      BY <1>2 DEF Tab!TypeOK
    <3>. QED
      BY <1>2, <3>1, <3>2, <3>3, AppendGrows
  <2>2. CASE ~c.right
    BY <1>1, <1>2, <2>2, SameGrows
  <2>. QED
    BY <2>1, <2>2
<1>6. Tab!TypeOK'
  <2>1. Tab!Rows \subseteq Tab!Rows' /\ 0..Len(sessions) \subseteq 0..Len(sessions')
    BY <1>2, <1>5, RowsGrow
  <2>2. Tab!Waiting' = {} \/ refresh # None
    BY <1>1, <1>2, <1>3, <1>4 DEF Tab!TypeOK, Tab!Waiting, Tab!Busy
  <2>. QED
    BY <1>1, <1>2, <1>5, <2>1, <2>2 DEF Tab!TypeOK, Grows
<1>7. Tab!Shape'
  <2>1. Tab!CallOK(x)
    BY <1>1, <1>2, <1>3 DEF Tab!CallOK
  <2>2. x.status = 200 => x.row \in Tab!Rows'
    BY <1>3, <1>5
  <2>3. Tab!CallsFit'
    BY <1>1, <1>2, <1>5, <2>1, <2>2, OneSlotFits DEF Tab!Shape
  <2>4. failures' \in [Users -> Nat]
    BY <1>1, <1>2, <1>3 DEF Tab!Shape
  <2>5. 0..Len(sessions) \subseteq 0..Len(sessions')
    BY <1>2, <1>5, RowsGrow
  <2>6. Tab!RefreshFits'
    BY <1>1, <1>2, <2>5 DEF Tab!Shape, Tab!RefreshFits
  <2>. QED
    BY <1>1, <1>2, <2>3, <2>4, <2>6 DEF Tab!Shape
<1>8. Tab!Counted'
  <2>1. \A v \in Users : failures[v] \in Nat /\ mistyped[v] \in Nat
    BY <1>2 DEF Tab!Shape
  <2>2. \A t \in Slots : Tab!Busy(t) /\ call[t].ask = "login" => t = s
    BY <1>1, <1>2, AskFlow DEF Tab!Counted, Tab!Shape, Tab!CallsFit
  <2>3. CASE c.right
    <3>1. x.right /\ failures' = failures /\ mistyped' = mistyped
      BY <1>1, <1>3, <2>3
    <3>. QED
      BY <1>1, <1>2, <1>3, <1>4, <2>2, <3>1 DEF Tab!Counted, Tab!CountedTwiceAtMost, Tab!Busy
  <2>4. CASE ~c.right
    <3>1. failures' = [failures EXCEPT ![c.as] = @ + 1] /\ mistyped' = mistyped
      BY <1>1, <2>4
    <3>2. failures[c.as] + Tab!Left(c) <= 2 * mistyped[c.as]
      BY <1>1, <1>2, <2>4 DEF Tab!Counted
    <3>3. Tab!Left(c) = Tab!Left(x) + 1 /\ Tab!Left(x) \in Nat
      BY <1>1, <1>3 DEF Tab!Left
    <3>4. failures'[c.as] = failures[c.as] + 1
      BY <1>2, <1>3, <3>1 DEF Tab!Shape
    <3>5. failures'[c.as] + Tab!Left(x) <= 2 * mistyped[c.as]
      BY <1>3, <2>1, <3>2, <3>3, <3>4
    <3>6. failures'[c.as] <= 2 * mistyped[c.as]
      BY <1>3, <2>1, <3>3, <3>4, <3>5
    <3>7. \A v \in Users : v # c.as => failures'[v] = failures[v]
      BY <1>2, <3>1 DEF Tab!Shape
    <3>8. Tab!CountedTwiceAtMost'
      BY <1>2, <3>1, <3>6, <3>7 DEF Tab!Counted, Tab!CountedTwiceAtMost
    <3>. QED
      BY <1>1, <1>2, <1>3, <1>4, <2>2, <3>5, <3>8 DEF Tab!Counted, Tab!Busy
  <2>. QED
    BY <2>3, <2>4
<1>9. ASSUME Tab!Orderly PROVE Tab!Orderly'
  <2>1. c.flow = "login" /\ c.flow \in Tab!Signing /\ refresh = None
    BY <1>1, <1>2, <1>9, AskFlow DEF Tab!Orderly, Tab!OneAtATime
  <2>2. Tab!OneAtATime' /\ Tab!RefreshOK'
    BY <1>1, <1>3, <1>4, <1>9, <2>1 DEF Tab!Orderly, Tab!OneAtATime, Tab!RefreshOK
  <2>3. Tab!Profiling' = Tab!Profiling
    BY <1>1, <1>3, <1>4 DEF Tab!Profiling
  <2>4. /\ \A m, n : Tab!SameUser(m, n) => Tab!SameUser(m, n)'
        /\ Tab!CookieLives' => Tab!CookieLives
        /\ cookie # 0 => sessions'[cookie].user = sessions[cookie].user
    BY <1>1, <1>2, <1>5, RowsGrow, CookieRow
  <2>5. Tab!CookieIsShown'
    BY <1>1, <1>3, <1>4, <1>9, <2>3, <2>4 DEF Tab!Orderly, Tab!CookieIsShown, Tab!Busy
  <2>6. Tab!Rows \subseteq Tab!Rows'
    BY <1>2, <1>5, RowsGrow
  <2>7. Tab!RetriesAreFresh'
    BY <1>1, <1>3, <1>4, <1>9, <2>6 DEF Tab!Orderly, Tab!RetriesAreFresh, Tab!Busy
  <2>8. Tab!NobodyOut'
    BY <1>1, <1>9, <2>1, <2>3, <2>4 DEF Tab!Orderly, Tab!NobodyOut, Tab!RequireAuth
  <2>. QED
    BY <2>2, <2>5, <2>7, <2>8 DEF Tab!Orderly
<1>. QED
  BY <1>1, <1>6, <1>7, <1>8, <1>9 DEF Tab!IInv, Tab!Base

LEMMA LapseKeeps == ASSUME Tab!IInv, Tab!Lapse PROVE Tab!IInv'
<1>1. /\ token # 0 /\ acts < MaxActs /\ acts' = acts + 1
      /\ lapsed' = lapsed \cup {token}
      /\ \A s \in Slots : Tab!Busy(s) => ~(call[s].skip /\ call[s].bearer = token)
      /\ UNCHANGED <<sessions, failures, cookie, token, refresh, user, isLoading, call, mistyped,
                     loggedOut, turned, faulted, overlapped>>
  BY DEF Tab!Lapse, Tab!Acts
<1>2. Tab!TypeOK /\ Tab!Shape /\ Tab!Counted
  BY DEF Tab!IInv, Tab!Base
<1>3. Tab!TypeOK'
  <2>1. token \in Tab!Rows
    BY <1>1, <1>2 DEF Tab!TypeOK, Tab!Rows
  <2>. QED
    <3>1. Tab!Waiting' = Tab!Waiting /\ Tab!Rows' = Tab!Rows
      BY <1>1 DEF Tab!Waiting, Tab!Busy, Tab!Rows
    <3>2. acts' \in 0..MaxActs
      BY <1>1, <1>2, WebAssumption DEF Tab!TypeOK
    <3>. QED
      BY <1>1, <1>2, <2>1, <3>1, <3>2 DEF Tab!TypeOK
<1>4. Tab!Shape'
  <2>1. Tab!CallsFit'
    BY <1>1, <1>2 DEF Tab!Shape, Tab!CallsFit, Tab!Busy, Tab!Rows
  <2>. QED
    BY <1>1, <1>2, <2>1, ShapeStays
<1>5. Tab!Counted'
  BY <1>1, <1>2 DEF Tab!Counted, Tab!CountedTwiceAtMost, Tab!Busy
<1>6. ASSUME Tab!Orderly PROVE Tab!Orderly'
  <2>1. Tab!OneAtATime'
    BY <1>1, <1>6 DEF Tab!Orderly, Tab!OneAtATime
  <2>2. Tab!RefreshOK'
    <3>1. token = cookie
      BY <1>1, <1>2 DEF Tab!Shape
    <3>. QED
      BY <1>1, <1>6, <3>1 DEF Tab!Orderly, Tab!RefreshOK, Tab!SameUser, Tab!Rows, Tab!CookieLives
  <2>3. Tab!CookieIsShown'
    BY <1>1, <1>6 DEF Tab!Orderly, Tab!CookieIsShown, Tab!Busy, Tab!SameUser, Tab!Rows,
       Tab!Profiling
  <2>4. Tab!RetriesAreFresh'
    BY <1>1, <1>6 DEF Tab!Orderly, Tab!RetriesAreFresh, Tab!Busy, Tab!Rows
  <2>5. Tab!NobodyOut'
    BY <1>1, <1>6 DEF Tab!Orderly, Tab!NobodyOut, Tab!RequireAuth, Tab!CookieLives, Tab!Profiling
  <2>. QED
    BY <2>1, <2>2, <2>3, <2>4, <2>5 DEF Tab!Orderly
<1>. QED
  BY <1>1, <1>3, <1>4, <1>5, <1>6 DEF Tab!IInv, Tab!Base

LEMMA Receive401Keeps == ASSUME Tab!IInv, NEW s \in Slots, Tab!Receive401(s) PROVE Tab!IInv'
<1> DEFINE c == call[s]
           x == Waited(c)
           new == [holds |-> cookie, served |-> FALSE, ok |-> FALSE, row |-> 0]
<1>1. /\ Tab!Busy(s) /\ c.stage = "answered" /\ c.status = 401 /\ ~c.skip
      /\ refresh' = IF refresh = None THEN new ELSE refresh
      /\ overlapped' = (overlapped \/ \E t \in Slots \ {s} : call[t].flow \in Tab!Signing)
      /\ call' = [call EXCEPT ![s] = x]
      /\ UNCHANGED <<sessions, lapsed, failures, cookie, token, user, isLoading, acts, mistyped,
                     loggedOut, turned, faulted>>
  BY DEF Tab!Receive401, Tab!StartRefresh, Waited, Tab!Signing
<1>2. Tab!TypeOK /\ Tab!Shape /\ Tab!Counted /\ c \in Tab!Calls /\ Tab!CallOK(c)
  BY <1>1, CallFacts
<1>3. /\ x \in Tab!Calls /\ x.flow = c.flow /\ x.ask = c.ask /\ x.bearer = c.bearer /\ x.as = c.as
      /\ x.right = c.right /\ x.skip = c.skip /\ x.stage = "waiting" /\ x # Tab!Idle
  <2>1. IsWait(x, c)
    BY <1>2, WaitedIs
  <2> HIDE DEF x
  <2>. QED
    BY <2>1 DEF IsWait, Keeps
<1> HIDE DEF x
<1>4. \A t \in Slots : call'[t] = IF t = s THEN x ELSE call[t]
  BY <1>1, <1>2, SlotSet DEF Tab!Shape, Tab!CallsFit
<1>5. Tab!Rows' = Tab!Rows /\ Grows
  BY <1>1, <1>2, SameGrows DEF Tab!Rows
<1>6. /\ new \in Tab!Refreshes /\ new.holds = cookie /\ new.row = 0 /\ ~new.served /\ ~new.ok
      /\ refresh' # None
  <2>1. cookie \in Nat
    BY <1>2 DEF Tab!TypeOK
  <2>2. new \in Tab!Refreshes /\ new.holds = cookie /\ new.row = 0 /\ new.served = FALSE
          /\ new.ok = FALSE
    BY <2>1 DEF Tab!Refreshes
  <2> HIDE DEF new
  <2>. QED
    BY <1>1, <2>2, WebAssumption
<1> HIDE DEF new
<1>7. Tab!TypeOK'
  BY <1>1, <1>2, <1>5, <1>6 DEF Tab!TypeOK
<1>8. Tab!Shape'
  <2>1. Tab!CallOK(x)
    BY <1>1, <1>2, <1>3 DEF Tab!CallOK
  <2>2. Tab!CallsFit'
    BY <1>1, <1>2, <1>3, <1>5, <2>1, OneSlotFits DEF Tab!Shape
  <2>3. Tab!RefreshFits'
    BY <1>1, <1>2, <1>6 DEF Tab!Shape, Tab!RefreshFits, Tab!TypeOK
  <2>. QED
    BY <1>1, <1>2, <2>2, <2>3 DEF Tab!Shape
<1>9. Tab!Counted'
  <2>1. Tab!Left(x) = Tab!Left(c)
    BY <1>1, <1>3 DEF Tab!Left
  <2>. QED
    BY <1>1, <1>2, <1>3, <1>4, <2>1 DEF Tab!Counted, Tab!CountedTwiceAtMost, Tab!Busy
<1>10. ASSUME ~overlapped', Tab!Orderly PROVE Tab!Orderly'
  <2>1. \A t \in Slots : t # s => call[t].flow \notin Tab!Signing
    BY <1>1, <1>10
  <2>2. Tab!OneAtATime'
    BY <1>3, <1>4, <2>1 DEF Tab!OneAtATime
  <2>3. Tab!RefreshOK'
    BY <1>1, <1>6, <1>10 DEF Tab!Orderly, Tab!RefreshOK, Tab!SameUser, Tab!Rows, Tab!CookieLives
  <2>4. Tab!Profiling' = Tab!Profiling
    BY <1>1, <1>3, <1>4 DEF Tab!Profiling
  <2>5. Tab!CookieIsShown'
    BY <1>1, <1>3, <1>4, <1>5, <1>10, <2>4 DEF Tab!Orderly, Tab!CookieIsShown, Tab!Busy,
       Tab!SameUser, Tab!Rows
  <2>6. Tab!RetriesAreFresh'
    BY <1>1, <1>3, <1>4, <1>5, <1>10 DEF Tab!Orderly, Tab!RetriesAreFresh, Tab!Busy
  <2>7. Tab!NobodyOut'
    BY <1>1, <1>6, <1>10, <2>4 DEF Tab!Orderly, Tab!NobodyOut, Tab!RequireAuth, Tab!CookieLives
  <2>. QED
    BY <2>2, <2>3, <2>5, <2>6, <2>7 DEF Tab!Orderly
<1>. QED
  BY <1>1, <1>7, <1>8, <1>9, <1>10 DEF Tab!IInv, Tab!Base

LEMMA ReceiveLoginKeeps == ASSUME Tab!IInv, NEW s \in Slots, Tab!ReceiveLogin(s) PROVE Tab!IInv'
<1> DEFINE c == call[s]
           x0 == Tab!Sent("login", "me", c.row)
           x == [x0 EXCEPT !.holds = c.row]
<1>1. /\ Tab!Busy(s) /\ c.stage = "answered" /\ c.ask = "login" /\ c.status = 200
      /\ cookie' = c.row /\ token' = c.row /\ loggedOut' = FALSE
      /\ call' = [call EXCEPT ![s] = x]
      /\ UNCHANGED <<sessions, lapsed, failures, refresh, user, isLoading, acts, mistyped, turned,
                     faulted, overlapped>>
  BY DEF Tab!ReceiveLogin, Tab!IsAnswered, Tab!AsksProfile
<1>2. /\ Tab!TypeOK /\ Tab!Shape /\ Tab!Counted /\ c \in Tab!Calls /\ Tab!CallOK(c)
           /\ c.flow = "login"
      /\ c.row \in Tab!Rows /\ c.row \in Nat \ {0}
  <2>1. Tab!TypeOK /\ Tab!Shape /\ Tab!Counted /\ c \in Tab!Calls /\ Tab!CallOK(c)
          /\ c.row \in Tab!Rows
    BY <1>1, CallFacts DEF Tab!CallsFit
  <2>. QED
    BY <1>1, <2>1, AskFlow DEF Tab!TypeOK, Tab!Rows
<1>3. /\ x \in Tab!Calls /\ x.flow = "login" /\ x.ask = "me" /\ x.bearer = c.row
      /\ ~x.skip /\ x.stage = "sent" /\ x # Tab!Idle
  <2>1. IsNew(x0, "login", "me", c.row)
    BY <1>2, SentIs DEF Tab!TypeOK, Tab!Signing
  <2> HIDE DEF x0
  <2>2. /\ x \in Tab!Calls /\ x.flow = "login" /\ x.ask = "me" /\ x.bearer = c.row
        /\ x.skip = FALSE /\ x.stage = "sent"
    BY <1>2, <2>1 DEF IsNew, Tab!Calls
  <2> HIDE DEF x
  <2>. QED
    BY <2>2, IdleIsNoCall
<1> HIDE DEF x
<1>4. \A t \in Slots : call'[t] = IF t = s THEN x ELSE call[t]
  BY <1>1, <1>2, SlotSet DEF Tab!Shape, Tab!CallsFit
<1>5. Tab!Rows' = Tab!Rows /\ Grows
  BY <1>1, <1>2, SameGrows DEF Tab!Rows
<1>6. Tab!TypeOK'
  <2>1. cookie' \in 0..Len(sessions') /\ token' \in 0..Len(sessions')
    BY <1>1, <1>2 DEF Tab!Rows
  <2>. QED
    BY <1>1, <1>2, <1>3, <1>4, <1>5, <2>1 DEF Tab!TypeOK, Tab!Waiting, Tab!Busy
<1>7. Tab!Shape'
  <2>1. Tab!CallOK(x)
    BY <1>3 DEF Tab!CallOK, Tab!Asks
  <2>2. Tab!CallsFit'
    BY <1>1, <1>2, <1>3, <1>5, <2>1, OneSlotFits DEF Tab!Shape
  <2>. QED
    BY <1>1, <1>2, <2>2 DEF Tab!Shape, Tab!RefreshFits
<1>8. Tab!Counted'
  BY <1>1, <1>2, <1>3, <1>4 DEF Tab!Counted, Tab!CountedTwiceAtMost, Tab!Busy
<1>9. ASSUME Tab!Orderly PROVE Tab!Orderly'
  <2>1. refresh = None /\ \A t \in Slots : t # s => call[t].flow \notin Tab!Signing
    BY <1>1, <1>2, <1>9 DEF Tab!Orderly, Tab!OneAtATime, Tab!Signing
  <2>2. Tab!OneAtATime' /\ Tab!RefreshOK'
    BY <1>1, <1>4, <2>1 DEF Tab!OneAtATime, Tab!RefreshOK
  <2>3. Tab!Profiling' /\ Tab!SameUser(c.row, c.row)
    BY <1>2, <1>3, <1>4 DEF Tab!Profiling, Tab!SameUser
  <2>4. \A t \in Slots : t # s /\ Tab!Busy(t)' => call'[t].ask = "list"
    BY <1>2, <1>4, <2>1, AskFlow DEF Tab!Shape, Tab!CallsFit, Tab!Busy
  <2>5. Tab!CookieIsShown'
    BY <1>1, <1>3, <1>4, <1>5, <2>3, <2>4 DEF Tab!CookieIsShown, Tab!SameUser
  <2>6. Tab!RetriesAreFresh'
    BY <1>1, <1>3, <1>4, <1>5, <1>9 DEF Tab!Orderly, Tab!RetriesAreFresh, Tab!Busy
  <2>7. Tab!NobodyOut'
    BY <1>1, <1>9, <2>3 DEF Tab!Orderly, Tab!NobodyOut
  <2>. QED
    BY <2>2, <2>5, <2>6, <2>7 DEF Tab!Orderly
<1>. QED
  BY <1>1, <1>6, <1>7, <1>8, <1>9 DEF Tab!IInv, Tab!Base

(* What becomes of a request when the refresh returns. *)
LEMMA ResumedIs ==
  ASSUME NEW c, NEW t \in Nat, cookie \in Nat, cookie' \in Nat, c # Tab!Idle => Tab!CallOK(c)
  PROVE  /\ c = Tab!Idle => Tab!Resumed(c, t) = Tab!Idle
         /\ c # Tab!Idle /\ c.stage # "waiting" => Tab!Resumed(c, t) = c
         /\ c # Tab!Idle /\ c.stage = "waiting" /\ t = 0 => Tab!Resumed(c, t) = Tab!Idle
         /\ c # Tab!Idle /\ c.stage = "waiting" /\ t # 0 /\ c.ask = "refresh" =>
              IsNew(Tab!Resumed(c, t), "boot", "me", t)
         /\ c # Tab!Idle /\ c.stage = "waiting" /\ t # 0 /\ c.ask # "refresh" =>
              IsRetry(Tab!Resumed(c, t), c, t)
<1>1. ASSUME c # Tab!Idle, c.stage = "waiting", t # 0, c.ask = "refresh"
      PROVE  IsNew(Tab!Resumed(c, t), "boot", "me", t)
  <2> DEFINE x0 == Tab!Sent("boot", "me", t)
             h == cookie'
             x == [x0 EXCEPT !.holds = h]
  <2>1. c.flow = "boot"
    BY <1>1, AskFlow
  <2>2. Tab!Resumed(c, t) = x
    BY <1>1, <2>1 DEF Tab!Resumed
  <2>3. IsNew(x0, "boot", "me", t)
    BY SentIs DEF Tab!Signing
  <2>4. h \in Nat
    OBVIOUS
  <2> HIDE DEF x0, h
  <2>5. /\ x \in Tab!Calls /\ x.flow = "boot" /\ x.ask = "me" /\ x.bearer = t
        /\ x.skip = FALSE /\ x.stage = "sent" /\ x.status = 0
    BY <2>3, <2>4 DEF IsNew, Tab!Calls
  <2> HIDE DEF x
  <2>6. IsNew(x, "boot", "me", t)
    BY <2>5, IdleIsNoCall DEF IsNew
  <2>. QED
    BY <2>2, <2>6
<1>2. ASSUME c # Tab!Idle, c.stage = "waiting", t # 0, c.ask # "refresh"
      PROVE  IsRetry(Tab!Resumed(c, t), c, t)
  <2>1. Tab!Resumed(c, t) = Tab!Again(c, t)
    BY <1>2 DEF Tab!Resumed
  <2>2. c \in Tab!Calls
    BY <1>2 DEF Tab!CallOK
  <2>. QED
    BY <2>1, <2>2, AgainIs
<1>3. /\ c = Tab!Idle => Tab!Resumed(c, t) = Tab!Idle
      /\ c # Tab!Idle /\ c.stage # "waiting" => Tab!Resumed(c, t) = c
      /\ c # Tab!Idle /\ c.stage = "waiting" /\ t = 0 => Tab!Resumed(c, t) = Tab!Idle
  BY DEF Tab!Resumed
<1>. QED
  BY <1>1, <1>2, <1>3

LEMMA RefreshReturnsKeeps ==
  ASSUME Tab!IInv, NEW ok \in BOOLEAN, Tab!RefreshReturns(ok) PROVE Tab!IInv'
<1> DEFINE t == IF ok THEN refresh.row ELSE 0
<1>1. /\ refresh # None /\ (ok => refresh.served /\ refresh.ok)
      /\ cookie' = IF t # 0 THEN t ELSE cookie
      /\ token' = IF ok THEN t ELSE token
      /\ call' = [s \in Slots |-> Tab!Resumed(call[s], t)]
      /\ user' = IF Tab!Unprofiled(t) THEN None ELSE user
      /\ isLoading' = (isLoading /\ ~Tab!BootEnds(t))
      /\ turned' = (turned \/ (Tab!Refused(t) /\ Tab!CookieLives))
      /\ refresh' = None
      /\ faulted' = (faulted \/ (~ok /\ ~(refresh.served /\ ~refresh.ok)))
      /\ UNCHANGED <<sessions, lapsed, failures, acts, mistyped, loggedOut, overlapped>>
  BY DEF Tab!RefreshReturns, Tab!AllResumed, Tab!StopsLoading
<1>2. Tab!TypeOK /\ Tab!Shape /\ Tab!Counted /\ Tab!RefreshFits /\ Tab!CallsFit
  BY DEF Tab!IInv, Tab!Base, Tab!Shape
<1>3. /\ t \in 0..Len(sessions) /\ t \in Nat /\ Len(sessions) \in Nat
      /\ cookie \in Nat /\ cookie' \in Nat /\ cookie' \in 0..Len(sessions)
      /\ t # 0 => ok /\ t = refresh.row /\ t \in Tab!Rows
  <2>1. Len(sessions) \in Nat /\ cookie \in 0..Len(sessions)
    BY <1>2 DEF Tab!TypeOK
  <2>2. refresh.row \in 0..Len(sessions)
    BY <1>1, <1>2 DEF Tab!RefreshFits
  <2>. QED
    BY <1>1, <2>1, <2>2 DEF Tab!Rows
<1> HIDE DEF t
<1>4. \A s \in Slots : Tab!Busy(s) => Tab!CallOK(call[s]) /\ call[s] \in Tab!Calls
  BY <1>2 DEF Tab!CallsFit, Tab!CallOK
<1>5. \A s \in Slots :
        /\ ~Tab!Busy(s) => call'[s] = Tab!Idle
        /\ Tab!Busy(s) /\ call[s].stage # "waiting" => call'[s] = call[s]
        /\ Tab!Busy(s) /\ call[s].stage = "waiting" /\ t = 0 => call'[s] = Tab!Idle
        /\ Tab!Busy(s) /\ call[s].stage = "waiting" /\ t # 0 /\ call[s].ask = "refresh" =>
                 IsNew(call'[s], "boot", "me", t)
        /\ Tab!Busy(s) /\ call[s].stage = "waiting" /\ t # 0 /\ call[s].ask # "refresh" =>
                 IsRetry(call'[s], call[s], t)
  BY <1>1, <1>3, <1>4, ResumedIs DEF Tab!Busy
<1>6. \A s \in Slots : Tab!Busy(s)' =>
        /\ Tab!Busy(s) /\ call'[s].flow = call[s].flow /\ call'[s].stage # "waiting"
        /\ Tab!CallOK(call'[s])
        /\ call'[s] # call[s] => call'[s].stage = "sent" /\ call'[s].bearer = t /\ t # 0
        /\ call'[s].ask # "me" => call'[s].ask = call[s].ask
        /\ call'[s].ask # "me" /\ call'[s] # call[s] => call[s].stage = "waiting" /\ call'[s].skip
        /\ call'[s].ask # "me" => call'[s].as = call[s].as /\ call'[s].right = call[s].right
        /\ call'[s].flow # "boot" => call'[s].ask = call[s].ask
  <2>. SUFFICES ASSUME NEW s \in Slots, Tab!Busy(s)'
                PROVE  /\ Tab!Busy(s) /\ call'[s].flow = call[s].flow /\ call'[s].stage # "waiting"
                       /\ Tab!CallOK(call'[s])
                       /\ call'[s] # call[s]
                            => call'[s].stage = "sent" /\ call'[s].bearer = t /\ t # 0
                       /\ call'[s].ask # "me" => call'[s].ask = call[s].ask
                       /\ call'[s].ask # "me" /\ call'[s] # call[s] =>
                            call[s].stage = "waiting" /\ call'[s].skip
                       /\ call'[s].ask # "me" =>
                            call'[s].as = call[s].as /\ call'[s].right = call[s].right
                       /\ call'[s].flow # "boot" => call'[s].ask = call[s].ask
    OBVIOUS
  <2>1. Tab!Busy(s) /\ call[s] \in Tab!Calls /\ Tab!CallOK(call[s])
          /\ (call[s].stage = "waiting" => t # 0)
    BY <1>4, <1>5 DEF Tab!Busy
  <2>2. CASE call[s].stage # "waiting"
    BY <1>5, <2>1, <2>2
  <2>3. CASE call[s].stage = "waiting" /\ call[s].ask = "refresh"
    <3>1. IsNew(call'[s], "boot", "me", t) /\ call[s].flow = "boot" /\ t # 0
      BY <1>5, <2>1, <2>3, AskFlow
    <3>2. Tab!CallOK(call'[s])
      BY <3>1 DEF IsNew, Tab!CallOK, Tab!Asks
    <3>. QED
      BY <2>1, <3>1, <3>2 DEF IsNew
  <2>4. CASE call[s].stage = "waiting" /\ call[s].ask # "refresh"
    <3>1. IsRetry(call'[s], call[s], t) /\ t # 0
      BY <1>5, <2>1, <2>4
    <3>2. Tab!CallOK(call'[s])
      BY <2>1, <2>4, <3>1 DEF IsRetry, Keeps, Tab!CallOK
    <3>. QED
      BY <2>1, <2>4, <3>1, <3>2 DEF IsRetry, Keeps
  <2>. QED
    BY <2>2, <2>3, <2>4
<1>7. Tab!TypeOK'
  <2>1. Tab!Waiting' = {}
    BY <1>6 DEF Tab!Waiting
  <2>2. token' \in 0..Len(sessions) /\ user' \in Users \cup {None} /\ isLoading' \in BOOLEAN
    BY <1>1, <1>2, <1>3 DEF Tab!TypeOK
  <2>. QED
    BY <1>1, <1>2, <1>3, <2>1, <2>2 DEF Tab!TypeOK, Tab!Rows
<1>8. Tab!Shape'
  <2>1. token' \in {0, cookie'}
    BY <1>1, <1>2, <1>3 DEF Tab!Shape
  <2>2. DOMAIN call' = Slots
    BY <1>1
  <2>3. ASSUME NEW s \in Slots, Tab!Busy(s)', call'[s].ask \in {"login", "me"},
               call'[s].stage = "answered", call'[s].status = 200
        PROVE  call'[s].row \in Tab!Rows'
    <3>1. call'[s] = call[s] /\ Tab!Busy(s)
      BY <1>6, <2>3
    <3>. QED
      BY <1>1, <1>2, <2>3, <3>1 DEF Tab!CallsFit, Tab!Rows
  <2>4. Tab!CallsFit'
    BY <1>6, <2>2, <2>3 DEF Tab!CallsFit
  <2>. QED
    BY <1>1, <1>2, <2>1, <2>4 DEF Tab!Shape, Tab!RefreshFits
<1>9. Tab!Counted'
  <2>1. Tab!CountedTwiceAtMost'
    BY <1>1, <1>2 DEF Tab!Counted, Tab!CountedTwiceAtMost
  <2>2. \A s, u \in Slots : call'[s].flow = "login" /\ call'[u].flow = "login" => s = u
    BY <1>2, <1>6, IdleIsNoCall DEF Tab!Counted, Tab!Busy
  <2>3. ASSUME NEW s \in Slots, Tab!Busy(s)', call'[s].ask = "login", ~call'[s].right
        PROVE  failures'[call'[s].as] + Tab!Left(call'[s]) <= 2 * mistyped'[call'[s].as]
    <3>1. /\ Tab!Busy(s) /\ call[s].ask = "login" /\ call'[s].as = call[s].as /\ ~call[s].right
          /\ call'[s] # call[s] => call'[s].stage = "sent" /\ call'[s].skip
                                   /\ call[s].stage = "waiting"
      BY <1>6, <2>3
    <3>2. call[s].stage = "waiting" => ~call[s].skip
      BY <1>4, <3>1 DEF Tab!CallOK
    <3>3. Tab!Left(call'[s]) = Tab!Left(call[s])
      <4>1. CASE call'[s] = call[s]
        BY <4>1
      <4>2. CASE call'[s] # call[s]
        BY <3>1, <3>2, <4>2 DEF Tab!Left
      <4>. QED
        BY <4>1, <4>2
    <3>4. failures[call[s].as] + Tab!Left(call[s]) <= 2 * mistyped[call[s].as]
      BY <1>2, <3>1 DEF Tab!Counted
    <3>. QED
      BY <1>1, <3>1, <3>3, <3>4
  <2>. QED
    BY <2>1, <2>2, <2>3 DEF Tab!Counted
<1>10. ASSUME Tab!Orderly PROVE Tab!Orderly'
  <2>1. Tab!OneAtATime' /\ Tab!RefreshOK'
    BY <1>1, <1>6, <1>10, IdleIsNoCall DEF Tab!Orderly, Tab!OneAtATime, Tab!RefreshOK, Tab!Busy,
       Tab!Signing
  <2>2. \A s \in Slots : Tab!Busy(s) /\ call[s].ask = "me" => call[s].stage = "waiting"
    BY <1>1, <1>4, <1>10, AskFlow DEF Tab!Orderly, Tab!OneAtATime
  <2>3. t = 0 /\ ~faulted' => ~Tab!CookieLives
    BY <1>1, <1>10 DEF Tab!Orderly, Tab!RefreshOK, Tab!CookieLives, t
  <2>4. t # 0 => /\ Tab!SameUser(t, cookie) /\ t \notin lapsed /\ cookie' = t
                 /\ user' = user /\ (isLoading' <=> isLoading)
                 /\ cookie # 0
    <3>1. t # 0 => Tab!SameUser(t, cookie) /\ t \notin lapsed
      BY <1>1, <1>3, <1>10 DEF Tab!Orderly, Tab!RefreshOK
    <3>2. Tab!SameUser(t, cookie) => cookie # 0
      BY DEF Tab!SameUser, Tab!Rows
    <3>. QED
      BY <1>1, <3>1, <3>2 DEF Tab!Unprofiled, Tab!BootEnds
  <2>5. t # 0 /\ Tab!Profiling => Tab!Profiling'
    <3>. SUFFICES ASSUME t # 0, NEW s \in Slots, call[s].flow = "login", call[s].ask = "me"
                  PROVE  Tab!Profiling'
      BY DEF Tab!Profiling
    <3>1. Tab!Busy(s)
      BY IdleIsNoCall DEF Tab!Busy
    <3>2. IsRetry(call'[s], call[s], t)
      BY <1>5, <2>2, <3>1
    <3>. QED
      BY <3>2 DEF IsRetry, Keeps, Tab!Profiling
  <2>6. CASE t # 0
    <3>1. \A s \in Slots : Tab!Busy(s)' /\ call'[s].ask = "me" => call'[s].bearer = t
      BY <1>6, <2>2, <2>6
    <3>2. /\ cookie' = t /\ cookie' # 0 /\ cookie' \in Tab!Rows'
          /\ sessions'[cookie'].user = sessions[cookie].user
      BY <1>1, <1>3, <2>4, <2>6 DEF Tab!SameUser, Tab!Rows
    <3>3. Tab!CookieIsShown'
      <4>1. user' # None /\ ~Tab!Profiling' => sessions'[cookie'].user = user'
        BY <1>10, <2>4, <2>5, <2>6, <3>2 DEF Tab!Orderly, Tab!CookieIsShown
      <4>2. ~loggedOut'
        BY <1>1, <1>10, <2>4, <2>6 DEF Tab!Orderly, Tab!CookieIsShown
      <4>. QED
        BY <3>1, <3>2, <4>1, <4>2 DEF Tab!CookieIsShown, Tab!SameUser
    <3>4. Tab!RetriesAreFresh'
      <4>. SUFFICES ASSUME NEW s \in Slots, Tab!Busy(s)', call'[s].skip,
                           call'[s].ask \in {"me", "list"}
                    PROVE  /\ call'[s].bearer \in Tab!Rows' \ lapsed'
                           /\ call'[s].stage = "answered" => call'[s].status = 200
        BY DEF Tab!RetriesAreFresh
      <4>1. CASE call'[s] = call[s]
        BY <1>1, <1>6, <1>10, <4>1 DEF Tab!Orderly, Tab!RetriesAreFresh, Tab!Rows
      <4>2. CASE call'[s] # call[s]
        BY <1>1, <1>3, <1>6, <2>4, <2>6, <4>2 DEF Tab!Rows
      <4>. QED
        BY <4>1, <4>2
    <3>5. turned' => faulted'
      BY <1>1, <1>10, <2>6 DEF Tab!Refused, Tab!Orderly, Tab!NobodyOut
    <3>6. ~(Tab!RequireAuth = "login" /\ ~Tab!Profiling /\ ~faulted)
      BY <1>1, <1>3, <1>10, <2>6 DEF Tab!Orderly, Tab!NobodyOut
    <3>7. Tab!NobodyOut'
      BY <1>1, <2>4, <2>5, <2>6, <3>5, <3>6 DEF Tab!NobodyOut, Tab!RequireAuth
    <3>. QED
      BY <2>1, <3>3, <3>4, <3>7 DEF Tab!Orderly
  <2>7. CASE t = 0
    <3>1. cookie' = cookie
      BY <1>1, <2>7
    <3>2. \A s \in Slots : Tab!Busy(s)' => call'[s] = call[s] /\ Tab!Busy(s)
      BY <1>6, <2>7
    <3>3. Tab!Profiling => user' = None
      <4>. SUFFICES ASSUME NEW s \in Slots, call[s].flow = "login", call[s].ask = "me"
                    PROVE  user' = None
        BY DEF Tab!Profiling
      <4>1. Tab!Busy(s)
        BY IdleIsNoCall DEF Tab!Busy
      <4>. QED
        BY <1>1, <2>2, <2>7, <4>1 DEF Tab!Unprofiled, Tab!Waiting
    <3>4. Tab!CookieIsShown'
      BY <1>1, <1>10, <3>1, <3>2, <3>3 DEF Tab!Orderly, Tab!CookieIsShown, Tab!SameUser, Tab!Rows
    <3>5. Tab!RetriesAreFresh'
      BY <1>1, <1>10, <3>2 DEF Tab!Orderly, Tab!RetriesAreFresh, Tab!Rows
    <3>6. Tab!CookieLives' = Tab!CookieLives
      BY <1>1, <3>1 DEF Tab!CookieLives
    <3>7. Tab!NobodyOut'
      BY <1>1, <1>10, <2>3, <2>7, <3>6 DEF Tab!Orderly, Tab!NobodyOut
    <3>. QED
      BY <2>1, <3>4, <3>5, <3>7 DEF Tab!Orderly
  <2>. QED
    BY <2>6, <2>7
<1>11. turned' => faulted' \/ overlapped'
  BY <1>1, <1>10 DEF Tab!IInv, Tab!Orderly, Tab!NobodyOut
<1>. QED
  BY <1>1, <1>7, <1>8, <1>9, <1>10, <1>11 DEF Tab!IInv, Tab!Base

LEMMA ServeRefreshKeeps == ASSUME Tab!IInv, Tab!ServeRefresh PROVE Tab!IInv'
<1> DEFINE n == refresh.holds
           alive == n # 0 /\ sessions[n].live
           ended == [sessions EXCEPT ![n].live = FALSE]
           new == [user |-> sessions[n].user, live |-> TRUE]
<1>1. /\ refresh # None /\ ~refresh.served
      /\ IF alive
         THEN /\ sessions' = Append(ended, new)
              /\ refresh' = [refresh EXCEPT !.served = TRUE, !.ok = TRUE, !.row = Len(sessions) + 1]
         ELSE /\ sessions' = sessions
              /\ refresh' = [refresh EXCEPT !.served = TRUE, !.ok = (n = 0)]
      /\ UNCHANGED <<lapsed, failures, cookie, token, user, isLoading, call, acts, mistyped,
                     loggedOut, turned, faulted, overlapped>>
  BY DEF Tab!ServeRefresh
<1>2. Tab!TypeOK /\ Tab!Shape /\ Tab!Counted /\ Tab!RefreshFits /\ Tab!CallsFit
  BY DEF Tab!IInv, Tab!Base, Tab!Shape
<1>3. /\ refresh \in Tab!Refreshes /\ n \in 0..Len(sessions) /\ refresh.row = 0
      /\ Len(sessions) \in Nat
  BY <1>1, <1>2 DEF Tab!RefreshFits, Tab!TypeOK
<1>4. alive =>
        /\ Grows /\ Len(sessions') = Len(sessions) + 1 /\ n \in Tab!Rows
        /\ sessions'[Len(sessions) + 1].user = sessions[n].user
  <2>. SUFFICES ASSUME alive
                PROVE  /\ Grows /\ Len(sessions') = Len(sessions) + 1 /\ n \in Tab!Rows
                       /\ sessions'[Len(sessions) + 1].user = sessions[n].user
    OBVIOUS
  <2>1. n \in Tab!Rows /\ Tab!Rows = 1..Len(sessions)
    BY <1>3 DEF Tab!Rows
  <2>2. sessions[n] \in Row /\ sessions[n].user \in Users
    BY <1>2, <2>1, RowIs DEF Row
  <2>3. new \in Row /\ new.user = sessions[n].user
    BY <2>2 DEF Row
  <2>4. sessions \in Seq(Row)
    BY <1>2 DEF Tab!TypeOK, Row
  <2> DEFINE dead == [sessions[n] EXCEPT !.live = FALSE]
  <2>5. dead \in Row /\ dead.user = sessions[n].user /\ dead.live = FALSE
    BY <2>2 DEF Row
  <2>6. ended = [sessions EXCEPT ![n] = dead]
    OBVIOUS
  <2> HIDE DEF new, dead
  <2>7. /\ ended \in Seq(Row) /\ Len(ended) = Len(sessions)
        /\ \A m \in Tab!Rows : ended[m] = IF m = n THEN dead ELSE sessions[m]
    <3>1. sessions \in [1..Len(sessions) -> Row]
      BY <2>4
    <3>2. ended \in [1..Len(sessions) -> Row]
      BY <2>5, <2>6, <3>1
    <3>3. \A m \in 1..Len(sessions) : ended[m] = IF m = n THEN dead ELSE sessions[m]
      BY <2>6, <3>1
    <3> HIDE DEF ended
    <3>4. ended \in Seq(Row) /\ Len(ended) = Len(sessions)
      BY <1>3, <3>2
    <3>. QED
      BY <2>1, <3>3, <3>4
  <2> HIDE DEF ended
  <2>8. sessions' = Append(ended, new)
    BY <1>1
  <2>9. /\ sessions' \in Seq(Row) /\ Len(sessions') = Len(sessions) + 1
        /\ sessions'[Len(sessions) + 1] = new
        /\ \A m \in Tab!Rows : sessions'[m] = ended[m]
    BY <1>3, <2>1, <2>3, <2>7, <2>8
  <2>. QED
    BY <1>3, <2>1, <2>3, <2>5, <2>7, <2>9 DEF Grows, Row
<1> DEFINE served(x, ok, row) ==
             x \in Tab!Refreshes /\ x.holds = n /\ x.served = TRUE /\ x.ok = ok /\ x.row = row
<1>5. CASE alive
  <2>1. served(refresh', TRUE, Len(sessions) + 1)
    <3> DEFINE x1 == [refresh EXCEPT !.served = TRUE]
               x2 == [x1 EXCEPT !.ok = TRUE]
    <3>1. x1 \in Tab!Refreshes /\ x1.holds = n /\ x1.served = TRUE
      BY <1>3 DEF Tab!Refreshes
    <3>2. refresh' = [x2 EXCEPT !.row = Len(sessions) + 1]
      BY <1>1, <1>5
    <3> HIDE DEF x1
    <3>3. x2 \in Tab!Refreshes /\ x2.holds = n /\ x2.served = TRUE /\ x2.ok = TRUE
      BY <3>1 DEF Tab!Refreshes
    <3> HIDE DEF x2
    <3>. QED
      BY <1>3, <3>2, <3>3 DEF Tab!Refreshes
  <2>2. refresh' # None /\ Grows
    BY <1>4, <1>5, <2>1, WebAssumption
  <2>3. Tab!TypeOK'
    <3>1. Tab!Rows \subseteq Tab!Rows' /\ 0..Len(sessions) \subseteq 0..Len(sessions')
      BY <1>2, <2>2, RowsGrow
    <3>. QED
      BY <1>1, <1>2, <2>2, <3>1 DEF Tab!TypeOK, Grows
  <2>4. Tab!Shape'
    <3>1. Tab!Rows \subseteq Tab!Rows' /\ 0..Len(sessions) \subseteq 0..Len(sessions')
      BY <1>2, <2>2, RowsGrow
    <3>2. Tab!CallsFit'
      BY <1>1, <1>2, <3>1 DEF Tab!CallsFit, Tab!Busy
    <3>3. Len(sessions) + 1 \in 0..Len(sessions') /\ n \in 0..Len(sessions')
      BY <1>3, <1>4, <1>5
    <3>4. Tab!RefreshFits'
      BY <1>3, <2>1, <3>3 DEF Tab!RefreshFits
    <3>. QED
      BY <1>1, <1>2, <3>2, <3>4 DEF Tab!Shape
  <2>5. Tab!Counted'
    BY <1>1, <1>2 DEF Tab!Counted, Tab!CountedTwiceAtMost, Tab!Busy
  <2>6. ASSUME Tab!Orderly PROVE Tab!Orderly'
    <3>1. n = cookie
      BY <1>1, <2>6 DEF Tab!Orderly, Tab!RefreshOK
    <3>2. Tab!OneAtATime'
      BY <1>1, <2>6 DEF Tab!Orderly, Tab!OneAtATime
    <3>3. /\ \A l, m : Tab!SameUser(l, m) => Tab!SameUser(l, m)'
          /\ cookie # 0 => sessions'[cookie].user = sessions[cookie].user
          /\ Tab!Rows \subseteq Tab!Rows' /\ (Tab!CookieLives' => Tab!CookieLives)
      BY <1>1, <1>2, <2>2, RowsGrow, CookieRow
    <3>4. Tab!RefreshOK'
      <4>1. /\ Len(sessions) + 1 \notin lapsed /\ Len(sessions) + 1 # cookie
        BY <1>2, <1>3, <3>1 DEF Tab!TypeOK, Tab!Rows
      <4>2. /\ {Len(sessions) + 1, cookie} \subseteq Tab!Rows'
            /\ sessions'[Len(sessions) + 1].user = sessions'[cookie].user
        BY <1>3, <1>4, <1>5, <3>1, <3>3 DEF Tab!Rows
      <4>. QED
        BY <1>1, <1>3, <2>1, <3>1, <4>1, <4>2 DEF Tab!RefreshOK, Tab!SameUser
    <3>5. Tab!CookieIsShown'
      BY <1>1, <2>6, <3>3 DEF Tab!Orderly, Tab!CookieIsShown, Tab!Busy, Tab!Profiling
    <3>6. Tab!RetriesAreFresh'
      BY <1>1, <2>6, <3>3 DEF Tab!Orderly, Tab!RetriesAreFresh, Tab!Busy
    <3>7. Tab!CookieLives
      BY <1>5, <3>1 DEF Tab!CookieLives
    <3>8. Tab!NobodyOut'
      BY <1>1, <2>6, <3>7 DEF Tab!Orderly, Tab!NobodyOut, Tab!RequireAuth, Tab!Profiling
    <3>. QED
      BY <3>2, <3>4, <3>5, <3>6, <3>8 DEF Tab!Orderly
  <2>. QED
    BY <1>1, <2>3, <2>4, <2>5, <2>6 DEF Tab!IInv, Tab!Base
<1>6. CASE ~alive
  <2>1. sessions' = sessions
    BY <1>1, <1>6
  <2>2. served(refresh', n = 0, 0)
    <3> DEFINE x1 == [refresh EXCEPT !.served = TRUE]
               z == (n = 0)
    <3>1. x1 \in Tab!Refreshes /\ x1.holds = n /\ x1.served = TRUE /\ x1.row = 0
      BY <1>3 DEF Tab!Refreshes
    <3>2. refresh' = [x1 EXCEPT !.ok = z]
      BY <1>1, <1>6
    <3>3. z \in BOOLEAN
      OBVIOUS
    <3> HIDE DEF x1, z
    <3>4. /\ refresh' \in Tab!Refreshes /\ refresh'.holds = n /\ refresh'.served = TRUE
          /\ refresh'.row = 0 /\ refresh'.ok = z
      BY <3>1, <3>2, <3>3 DEF Tab!Refreshes
    <3>. QED
      BY <3>4 DEF z
  <2>3. refresh' # None
    BY <2>2, WebAssumption
  <2>4. Tab!TypeOK'
    BY <1>1, <1>2, <2>1, <2>3 DEF Tab!TypeOK, Tab!Rows
  <2>5. Tab!Shape'
    <3>1. Tab!CallsFit'
      BY <1>1, <1>2, <2>1 DEF Tab!CallsFit, Tab!Busy, Tab!Rows
    <3>2. Tab!RefreshFits'
      BY <1>3, <2>1, <2>2 DEF Tab!RefreshFits
    <3>. QED
      BY <1>1, <1>2, <3>1, <3>2 DEF Tab!Shape
  <2>6. Tab!Counted'
    BY <1>1, <1>2 DEF Tab!Counted, Tab!CountedTwiceAtMost, Tab!Busy
  <2>7. ASSUME Tab!Orderly PROVE Tab!Orderly'
    <3>1. n = cookie
      BY <1>1, <2>7 DEF Tab!Orderly, Tab!RefreshOK
    <3>2. ~Tab!CookieLives /\ ~Tab!CookieLives'
      BY <1>1, <1>6, <2>1, <3>1 DEF Tab!CookieLives
    <3>3. Tab!OneAtATime'
      BY <1>1, <2>7 DEF Tab!Orderly, Tab!OneAtATime
    <3>4. Tab!RefreshOK'
      BY <1>1, <2>2, <3>1, <3>2 DEF Tab!RefreshOK
    <3>5. Tab!CookieIsShown'
      BY <1>1, <2>1, <2>7 DEF Tab!Orderly, Tab!CookieIsShown, Tab!Busy, Tab!Profiling,
         Tab!SameUser, Tab!Rows
    <3>6. Tab!RetriesAreFresh'
      BY <1>1, <2>1, <2>7 DEF Tab!Orderly, Tab!RetriesAreFresh, Tab!Busy, Tab!Rows
    <3>7. Tab!NobodyOut'
      BY <1>1, <2>2, <2>7, <3>2 DEF Tab!Orderly, Tab!NobodyOut
    <3>. QED
      BY <3>3, <3>4, <3>5, <3>6, <3>7 DEF Tab!Orderly
  <2>. QED
    BY <1>1, <2>4, <2>5, <2>6, <2>7 DEF Tab!IInv, Tab!Base
<1>. QED
  BY <1>5, <1>6

(* The first load, and every later one: the tab starts over. *)
LEMMA Booted ==
  ASSUME cookie \in 0..Len(sessions), Len(sessions) \in Nat, cookie' = cookie, sessions' = sessions,
         Tab!Boot
  PROVE  /\ Tab!CallsFit' /\ Tab!RefreshFits' /\ refresh' # None /\ token' = 0 /\ user' = None
         /\ isLoading' = TRUE
         /\ \A s \in Slots : Tab!Busy(s)' => /\ call'[s].flow = "boot" /\ call'[s].ask = "refresh"
                                             /\ call'[s].stage = "waiting" /\ ~call'[s].skip
         /\ Tab!OneAtATime' /\ Tab!RefreshOK' /\ Tab!RetriesAreFresh' /\ ~Tab!Profiling'
<1> DEFINE first == CHOOSE s \in Slots : TRUE
           x0 == Tab!Sent("boot", "refresh", 0)
           x == [x0 EXCEPT !.stage = "waiting"]
           new == [holds |-> cookie, served |-> FALSE, ok |-> FALSE, row |-> 0]
<1>1. /\ call' = [s \in Slots |-> IF s = first THEN x ELSE Tab!Idle]
      /\ refresh' = new /\ token' = 0 /\ user' = None /\ isLoading' = TRUE
  BY DEF Tab!Boot, Tab!Booting, Tab!Waits
<1>2. /\ x \in Tab!Calls /\ x # Tab!Idle /\ x.flow = "boot" /\ x.ask = "refresh" /\ ~x.skip
      /\ x.stage = "waiting"
  <2>1. IsNew(x0, "boot", "refresh", 0)
    BY SentIs DEF Tab!Signing
  <2> HIDE DEF x0
  <2>2. /\ x \in Tab!Calls /\ x.flow = "boot" /\ x.ask = "refresh" /\ x.skip = FALSE
        /\ x.stage = "waiting"
    BY <2>1 DEF IsNew, Tab!Calls
  <2> HIDE DEF x
  <2>. QED
    BY <2>2, IdleIsNoCall
<1>3. Tab!CallOK(x)
  <2> HIDE DEF x
  <2>. QED
    BY <1>2 DEF Tab!CallOK, Tab!Asks
<1> HIDE DEF x, first
<1>4. new \in Tab!Refreshes /\ new.holds = cookie /\ new.row = 0 /\ new.served = FALSE
  BY DEF Tab!Refreshes
<1> HIDE DEF new
<1>5. refresh' # None /\ Tab!RefreshFits' /\ Tab!RefreshOK'
  BY <1>1, <1>4, WebAssumption DEF Tab!RefreshFits, Tab!RefreshOK
<1>6. \A s \in Slots : Tab!Busy(s)' => call'[s] = x /\ s = first
  BY <1>1 DEF Tab!Busy
<1>7. \A s \in Slots : call'[s].flow \in Tab!Signing => Tab!Busy(s)'
  BY IdleIsNoCall DEF Tab!Busy, Tab!Signing
<1>8. Tab!OneAtATime'
  BY <1>2, <1>6, <1>7 DEF Tab!OneAtATime
<1>9. Tab!CallsFit'
  BY <1>1, <1>2, <1>3, <1>6 DEF Tab!CallsFit
<1>10. Tab!RetriesAreFresh'
  BY <1>2, <1>6 DEF Tab!RetriesAreFresh
<1>11. ~Tab!Profiling'
  BY <1>2, <1>6, <1>7 DEF Tab!Profiling, Tab!Signing
<1>. QED
  BY <1>1, <1>2, <1>5, <1>6, <1>8, <1>9, <1>10, <1>11

LEMMA ReloadKeeps == ASSUME Tab!IInv, Tab!Reload PROVE Tab!IInv'
<1>1. /\ Tab!Boot /\ acts < MaxActs /\ acts' = acts + 1
      /\ faulted' = (faulted \/ refresh # None \/ \E t \in Slots : Tab!Busy(t))
      /\ UNCHANGED <<sessions, lapsed, failures, cookie, mistyped, loggedOut, turned, overlapped>>
  BY DEF Tab!Reload, Tab!Acts
<1>2. Tab!TypeOK /\ Tab!Shape /\ Tab!Counted
  BY DEF Tab!IInv, Tab!Base
<1>3. /\ Tab!CallsFit' /\ Tab!RefreshFits' /\ refresh' # None /\ token' = 0 /\ user' = None
      /\ isLoading' = TRUE
      /\ \A s \in Slots : Tab!Busy(s)' => /\ call'[s].flow = "boot" /\ call'[s].ask = "refresh"
                                          /\ call'[s].stage = "waiting" /\ ~call'[s].skip
      /\ Tab!OneAtATime' /\ Tab!RefreshOK' /\ Tab!RetriesAreFresh' /\ ~Tab!Profiling'
  <2>1. cookie \in 0..Len(sessions) /\ Len(sessions) \in Nat
    BY <1>2 DEF Tab!TypeOK
  <2>. QED
    BY <1>1, <2>1, Booted
<1>4. Tab!TypeOK'
  BY <1>1, <1>2, <1>3, WebAssumption DEF Tab!TypeOK, Tab!Rows
<1>5. Tab!Shape'
  BY <1>1, <1>2, <1>3 DEF Tab!Shape
<1>6. Tab!Counted'
  <2>1. \A s \in Slots : call'[s].flow # "login"
    BY <1>3, IdleIsNoCall DEF Tab!Busy
  <2>. QED
    BY <1>1, <1>2, <1>3, <2>1 DEF Tab!Counted, Tab!CountedTwiceAtMost
<1>7. ASSUME Tab!Orderly PROVE Tab!Orderly'
  <2>1. Tab!CookieIsShown'
    BY <1>1, <1>3, <1>7 DEF Tab!Orderly, Tab!CookieIsShown
  <2>2. Tab!NobodyOut'
    BY <1>1, <1>3, <1>7 DEF Tab!Orderly, Tab!NobodyOut, Tab!RequireAuth
  <2>. QED
    BY <1>3, <2>1, <2>2 DEF Tab!Orderly
<1>. QED
  BY <1>1, <1>4, <1>5, <1>6, <1>7 DEF Tab!IInv, Tab!Base

LEMMA TabInit == Tab!Init => Tab!IInv
<1>. SUFFICES ASSUME Tab!Init PROVE Tab!IInv
  OBVIOUS
<1>1. /\ sessions = <<>> /\ lapsed = {} /\ cookie = 0 /\ token = 0 /\ user = None
      /\ isLoading = TRUE /\ acts = 0 /\ call = Tab!Booting
      /\ refresh = [holds |-> 0, served |-> FALSE, ok |-> FALSE, row |-> 0]
      /\ failures = [u \in Users |-> 0] /\ mistyped = [u \in Users |-> 0]
      /\ loggedOut = FALSE /\ turned = FALSE
  BY DEF Tab!Init
<1> DEFINE first == CHOOSE s \in Slots : TRUE
           x0 == Tab!Sent("boot", "refresh", 0)
           x == [x0 EXCEPT !.stage = "waiting"]
<1>2. call = [s \in Slots |-> IF s = first THEN x ELSE Tab!Idle]
  BY <1>1 DEF Tab!Booting, Tab!Waits
<1>3. /\ x \in Tab!Calls /\ x # Tab!Idle /\ x.flow = "boot" /\ x.ask = "refresh" /\ ~x.skip
      /\ x.stage = "waiting"
  <2>1. IsNew(x0, "boot", "refresh", 0)
    BY <1>1, SentIs DEF Tab!Signing
  <2> HIDE DEF x0
  <2>2. /\ x \in Tab!Calls /\ x.flow = "boot" /\ x.ask = "refresh" /\ x.skip = FALSE
        /\ x.stage = "waiting"
    BY <2>1 DEF IsNew, Tab!Calls
  <2> HIDE DEF x
  <2>. QED
    BY <2>2, IdleIsNoCall
<1>4. Tab!CallOK(x)
  <2> HIDE DEF x
  <2>. QED
    BY <1>3 DEF Tab!CallOK, Tab!Asks
<1> HIDE DEF x, first
<1>5. refresh \in Tab!Refreshes /\ refresh.holds = 0 /\ refresh.row = 0 /\ refresh.served = FALSE
  BY <1>1 DEF Tab!Refreshes
<1>6. Len(sessions) = 0 /\ sessions \in Seq([user : Users, live : BOOLEAN])
  BY <1>1
<1>7. \A s \in Slots : (Tab!Busy(s) \/ call[s].flow # "idle") => call[s] = x /\ s = first
  BY <1>2, IdleIsNoCall DEF Tab!Busy
<1>8. Tab!TypeOK
  <2>1. 0 \in 0..Len(sessions) /\ 0 \in 0..MaxActs
    BY <1>6, WebAssumption
  <2>2. refresh # None
    BY <1>5, WebAssumption
  <2>. QED
    BY <1>1, <1>6, <2>1, <2>2 DEF Tab!TypeOK
<1>9. Tab!Shape
  <2>1. Tab!CallsFit
    BY <1>2, <1>3, <1>4, <1>7 DEF Tab!CallsFit
  <2>2. Tab!RefreshFits
    BY <1>5, <1>6 DEF Tab!RefreshFits
  <2>3. failures \in [Users -> Nat] /\ mistyped \in [Users -> Nat]
    BY <1>1
  <2>. QED
    BY <1>1, <2>1, <2>2, <2>3 DEF Tab!Shape
<1>10. Tab!Counted
  <2>1. \A s \in Slots : call[s].flow # "login"
    BY <1>3, <1>7
  <2>2. \A s \in Slots : Tab!Busy(s) => call[s].ask # "login"
    BY <1>3, <1>7
  <2>. QED
    BY <1>1, <2>1, <2>2 DEF Tab!Counted, Tab!CountedTwiceAtMost
<1>11. Tab!Orderly
  <2>1. \A s \in Slots : call[s].flow \in Tab!Signing => call[s] = x /\ s = first
    BY <1>7 DEF Tab!Signing
  <2>2. Tab!OneAtATime
    BY <1>3, <2>1 DEF Tab!OneAtATime
  <2>3. Tab!RefreshOK
    BY <1>1, <1>5 DEF Tab!RefreshOK
  <2>4. Tab!CookieIsShown
    BY <1>1, <1>3, <1>7 DEF Tab!CookieIsShown
  <2>5. Tab!RetriesAreFresh
    BY <1>3, <1>7 DEF Tab!RetriesAreFresh
  <2>6. Tab!NobodyOut
    BY <1>1 DEF Tab!NobodyOut, Tab!RequireAuth
  <2>. QED
    BY <2>2, <2>3, <2>4, <2>5, <2>6 DEF Tab!Orderly
<1>. QED
  BY <1>1, <1>8, <1>9, <1>10, <1>11 DEF Tab!IInv, Tab!Base

LEMMA TabStutters == Tab!IInv /\ UNCHANGED Tab!vars => Tab!IInv'
<1>. SUFFICES ASSUME Tab!IInv, UNCHANGED Tab!vars PROVE Tab!IInv'
  OBVIOUS
<1>1. UNCHANGED <<sessions, lapsed, failures, cookie, token, refresh, user, isLoading, call, acts,
                  mistyped, loggedOut, turned, faulted, overlapped>>
  BY DEF Tab!vars
<1>2. Tab!TypeOK'
  BY <1>1 DEF Tab!IInv, Tab!Base, Tab!TypeOK, Tab!Waiting, Tab!Busy, Tab!Rows
<1>3. Tab!Shape'
  <2>1. Tab!CallsFit'
    BY <1>1 DEF Tab!IInv, Tab!Base, Tab!Shape, Tab!CallsFit, Tab!Busy, Tab!Rows
  <2>. QED
    BY <1>1, <2>1, ShapeStays DEF Tab!IInv, Tab!Base
<1>4. Tab!Counted'
  BY <1>1 DEF Tab!IInv, Tab!Base, Tab!Counted, Tab!CountedTwiceAtMost, Tab!Busy
<1>5. ASSUME Tab!Orderly PROVE Tab!Orderly'
  <2>1. Tab!OneAtATime' /\ Tab!RefreshOK' /\ Tab!RetriesAreFresh'
    BY <1>1, <1>5
    DEF Tab!Orderly, Tab!OneAtATime, Tab!RefreshOK, Tab!RetriesAreFresh, Tab!Busy, Tab!Rows,
        Tab!SameUser, Tab!CookieLives
  <2>2. Tab!CookieIsShown' /\ Tab!NobodyOut'
    BY <1>1, <1>5
    DEF Tab!Orderly, Tab!CookieIsShown, Tab!NobodyOut, Tab!Profiling, Tab!Busy, Tab!Rows,
        Tab!SameUser, Tab!CookieLives, Tab!RequireAuth
  <2>. QED
    BY <2>1, <2>2 DEF Tab!Orderly
<1>. QED
  BY <1>1, <1>2, <1>3, <1>4, <1>5 DEF Tab!IInv, Tab!Base

LEMMA TabSafe == Tab!Spec => []Tab!IInv
<1>1. Tab!IInv /\ [Tab!Next]_Tab!vars => Tab!IInv'
  BY TabStutters, SubmitLoginKeeps, ClickLogoutKeeps, AskKeeps, ReloadKeeps, LapseKeeps,
     ServeLoginKeeps, ServeLogoutKeeps, ServeDataKeeps, ServeRefreshKeeps, RefreshReturnsKeeps,
     Receive401Keeps, ReceiveRefusalKeeps, LoseKeeps, ReceiveLoginKeeps, ReceiveLogoutKeeps,
     ReceiveProfileKeeps, ReceiveListKeeps
  DEF Tab!Next, Tab!Answers, Tab!Serve, Tab!Receive
<1>. QED
  BY TabInit, <1>1, PTL DEF Tab!Spec

(* auth-context.tsx, api-client.ts: for any number of requests, and however their answers *)
(* come or are lost, at rest the token in use is that of the user shown, and none is left *)
(* after a logout, whose session is dead, unless a login or a logout overlapped a         *)
(* refresh.                                                                               *)
THEOREM TabActsAsShown == Tab!Spec => []ActsAsShown
<1>1. Tab!IInv => Tab!ActsAsShown
  <2>. SUFFICES ASSUME Tab!IInv, Tab!Quiet, ~overlapped
                PROVE  /\ user # None /\ token # 0 => sessions[token].user = user
                       /\ loggedOut => token = 0 /\ ~Tab!CookieLives
    BY DEF Tab!ActsAsShown
  <2>1. Tab!Orderly /\ token \in {0, cookie} /\ ~Tab!Profiling
    BY IdleIsNoCall DEF Tab!IInv, Tab!Base, Tab!Shape, Tab!Quiet, Tab!Profiling, Tab!Busy
  <2>. QED
    BY <2>1 DEF Tab!Orderly, Tab!CookieIsShown, Tab!CookieLives
<1>. QED
  BY TabSafe, <1>1, PTL DEF ActsAsShown

(* api-client.ts: nobody is sent to the login page while his session lives, unless an     *)
(* answer was lost or a login or a logout overlapped a refresh.                           *)
THEOREM NobodyTurnedAway == Tab!Spec => []NotTurnedAway
<1>1. Tab!IInv => Tab!NotTurnedAway
  <2>. SUFFICES ASSUME Tab!IInv PROVE Tab!NotTurnedAway
    OBVIOUS
  <2>1. (\A s \in Slots : call[s].flow # "login") => ~Tab!Profiling
    BY DEF Tab!Profiling
  <2>2. Tab!RequireAuth = "login" /\ Tab!CookieLives /\ ~Tab!Profiling => faulted \/ overlapped
    BY DEF Tab!IInv, Tab!Orderly, Tab!NobodyOut
  <2>. QED
    BY <2>1, <2>2 DEF Tab!IInv, Tab!Base, Tab!NotTurnedAway
<1>. QED
  BY TabSafe, <1>1, PTL DEF NotTurnedAway

(* api-client.ts: whatever is retried, lost or reloaded, the server counts a wrong        *)
(* password at most twice, for a 401 is retried even on a login, but once.                *)
THEOREM PasswordsCountedTwiceAtMost == Tab!Spec => []CountedTwiceAtMost
<1>1. Tab!IInv => Tab!CountedTwiceAtMost
  BY DEF Tab!IInv, Tab!Base, Tab!Counted
<1>. QED
  BY TabSafe, <1>1, PTL DEF CountedTwiceAtMost

(***************************************************************************)
(* The assistant's page: ChatPage, as Chat                                  *)
(***************************************************************************)

LEMMA ChatMessages ==
  \A n \in Nat : Chat!Question(n) \in Chat!Messages /\ Chat!Answer(n) \in Chat!Messages
BY DEF Chat!Question, Chat!Answer, Chat!Messages

LEMMA ChatStages ==
  /\ Chat!Idle.stage = "idle"
  /\ \A s, i : [stage |-> s, in |-> i] # Chat!Idle
BY DEF Chat!Idle

LEMMA AppendTwice ==
  ASSUME NEW S, NEW s \in Seq(S), NEW a \in S, NEW b \in S
  PROVE  s \o <<a, b>> = Append(Append(s, a), b)
OBVIOUS

LEMMA ChatInit == Chat!Init => Chat!IInv
<1>. SUFFICES ASSUME Chat!Init PROVE Chat!IInv
  OBVIOUS
<1>1. Chat!TypeOK
  <2>1. log = <<>> /\ log \in Seq(Seq(Chat!Messages))
    BY DEF Chat!Init
  <2>2. messages \in Seq(Chat!Messages)
    BY DEF Chat!Init
  <2>3. 0 \in 0..Len(log)
    BY <2>1
  <2>. QED
    BY <2>1, <2>2, <2>3 DEF Chat!Init, Chat!TypeOK, Chat!isSending
<1>2. Chat!InStep
  BY DEF Chat!Init, Chat!InStep, Chat!isSending, Chat!Conversation
<1>. QED BY <1>1, <1>2 DEF Chat!IInv

LEMMA VisitKeeps == Chat!IInv /\ Chat!Visit => Chat!IInv'
<1>. SUFFICES ASSUME Chat!IInv, Chat!Visit PROVE Chat!IInv'
  OBVIOUS
<1>1. Chat!TypeOK'
  BY ChatMessages, ChatStages
  DEF Chat!Visit, Chat!IInv, Chat!TypeOK, Chat!isSending, Chat!Sends, Chat!Serving
<1>2. ASSUME ~interrupted', ~failed' PROVE Chat!InStep'
  BY <1>2, ChatMessages, ChatStages
  DEF Chat!Visit, Chat!IInv, Chat!TypeOK, Chat!isSending, Chat!Sends, Chat!Serving,
      Chat!InStep, Chat!Conversation
<1>. QED BY <1>1, <1>2 DEF Chat!IInv

LEMMA LoadedKeeps == Chat!IInv /\ Chat!Loaded => Chat!IInv'
<1>. SUFFICES ASSUME Chat!IInv, Chat!Loaded PROVE Chat!IInv'
  OBVIOUS
<1>1. Chat!TypeOK'
  <2>1. kept \in 1..Len(log)
    BY DEF Chat!Loaded, Chat!IInv, Chat!TypeOK
  <2>2. log[kept] \in Seq(Chat!Messages)
    BY <2>1 DEF Chat!IInv, Chat!TypeOK
  <2>. QED
    BY <2>2 DEF Chat!Loaded, Chat!IInv, Chat!TypeOK, Chat!isSending, Chat!Sends
<1>2. ASSUME ~interrupted', ~failed' PROVE Chat!InStep'
  BY <1>2, ChatMessages, ChatStages
  DEF Chat!Loaded, Chat!IInv, Chat!TypeOK, Chat!isSending, Chat!Sends, Chat!Serving,
      Chat!InStep, Chat!Conversation
<1>. QED BY <1>1, <1>2 DEF Chat!IInv

LEMMA LoadFailsKeeps == Chat!IInv /\ Chat!LoadFails => Chat!IInv'
<1>. SUFFICES ASSUME Chat!IInv, Chat!LoadFails PROVE Chat!IInv'
  OBVIOUS
<1>1. Chat!TypeOK'
  <2>1. 0 \in 0..Len(log)
    BY DEF Chat!IInv, Chat!TypeOK
  <2>. QED
    BY <2>1 DEF Chat!LoadFails, Chat!IInv, Chat!TypeOK, Chat!isSending, Chat!Sends
<1>2. ASSUME ~interrupted', ~failed' PROVE Chat!InStep'
  BY <1>2, ChatMessages, ChatStages
  DEF Chat!LoadFails, Chat!IInv, Chat!TypeOK, Chat!isSending, Chat!Sends, Chat!Serving,
      Chat!InStep, Chat!Conversation
<1>. QED BY <1>1, <1>2 DEF Chat!IInv

LEMMA StartNewConversationKeeps == Chat!IInv /\ Chat!StartNewConversation => Chat!IInv'
<1>. SUFFICES ASSUME Chat!IInv, Chat!StartNewConversation PROVE Chat!IInv'
  OBVIOUS
<1>1. Chat!TypeOK'
  BY ChatMessages, ChatStages
  DEF Chat!StartNewConversation, Chat!IInv, Chat!TypeOK, Chat!isSending, Chat!Sends, Chat!Serving
<1>2. ASSUME ~interrupted', ~failed' PROVE Chat!InStep'
  BY <1>2, ChatMessages, ChatStages
  DEF Chat!StartNewConversation, Chat!IInv, Chat!TypeOK, Chat!isSending, Chat!Sends, Chat!Serving,
      Chat!InStep, Chat!Conversation
<1>. QED BY <1>1, <1>2 DEF Chat!IInv

LEMMA SendContentKeeps == Chat!IInv /\ Chat!SendContent => Chat!IInv'
<1>. SUFFICES ASSUME Chat!IInv, Chat!SendContent PROVE Chat!IInv'
  OBVIOUS
<1>1. Chat!TypeOK'
  BY ChatMessages, ChatStages
  DEF Chat!SendContent, Chat!Where, Chat!IInv, Chat!TypeOK, Chat!isSending, Chat!Sends, Chat!Serving
<1>2. ASSUME ~interrupted', ~failed' PROVE Chat!InStep'
  BY <1>2, ChatMessages, ChatStages
  DEF Chat!SendContent, Chat!Where, Chat!IInv, Chat!TypeOK, Chat!isSending, Chat!Sends,
      Chat!Serving,
      Chat!InStep, Chat!Conversation
<1>. QED BY <1>1, <1>2 DEF Chat!IInv

LEMMA ServeStartKeeps == Chat!IInv /\ Chat!ServeStart => Chat!IInv'
<1>. SUFFICES ASSUME Chat!IInv, Chat!ServeStart PROVE Chat!IInv'
  OBVIOUS
<1>1. Chat!TypeOK'
  BY ChatMessages, ChatStages
  DEF Chat!ServeStart, Chat!IInv, Chat!TypeOK, Chat!isSending, Chat!Sends, Chat!Serving
<1>2. ASSUME ~interrupted', ~failed' PROVE Chat!InStep'
  <2>1. Chat!isSending /\ Chat!InStep /\ ~awaited /\ current = 0 /\ kept = 0
    BY <1>2, ChatStages DEF Chat!ServeStart, Chat!IInv, Chat!isSending, Chat!InStep
  <2>2. messages = Append(<<>>, Chat!Question(asked))
    BY <2>1 DEF Chat!ServeStart, Chat!isSending, Chat!InStep, Chat!Conversation
  <2>3. log' = Append(log, <<>>) /\ send' = [stage |-> "started", in |-> Len(log) + 1]
    BY DEF Chat!ServeStart
  <2>4. log'[Len(log) + 1] = <<>>
    BY <2>3 DEF Chat!IInv, Chat!TypeOK
  <2>5. /\ send' # Chat!Idle
        /\ UNCHANGED <<kept, current, messages, awaited, asked>>
    BY <2>3, ChatStages DEF Chat!ServeStart
  <2>. QED
    BY <2>1, <2>2, <2>3, <2>4, <2>5
    DEF Chat!InStep, Chat!isSending, Chat!Conversation, Chat!Question
<1>. QED BY <1>1, <1>2 DEF Chat!IInv

LEMMA StartedKeeps == Chat!IInv /\ Chat!Started => Chat!IInv'
<1>. SUFFICES ASSUME Chat!IInv, Chat!Started PROVE Chat!IInv'
  OBVIOUS
<1>1. Chat!TypeOK'
  BY ChatMessages, ChatStages
  DEF Chat!Started, Chat!IInv, Chat!TypeOK, Chat!isSending, Chat!Sends, Chat!Serving
<1>2. ASSUME ~interrupted', ~failed' PROVE Chat!InStep'
  BY <1>2, ChatMessages, ChatStages
  DEF Chat!Started, Chat!IInv, Chat!TypeOK, Chat!isSending, Chat!Sends, Chat!Serving,
      Chat!InStep, Chat!Conversation
<1>. QED BY <1>1, <1>2 DEF Chat!IInv

LEMMA ServeQuestionKeeps == Chat!IInv /\ Chat!ServeQuestion => Chat!IInv'
<1>. SUFFICES ASSUME Chat!IInv, Chat!ServeQuestion PROVE Chat!IInv'
  OBVIOUS
<1>1. Chat!TypeOK'
  BY ChatMessages, ChatStages
  DEF Chat!ServeQuestion, Chat!IInv, Chat!TypeOK, Chat!isSending, Chat!Sends, Chat!Serving
<1>2. ASSUME ~interrupted', ~failed' PROVE Chat!InStep'
  <2>1. /\ Chat!isSending /\ ~awaited /\ kept = current /\ send.in = current /\ current # 0
        /\ messages = Append(log[current], Chat!Question(asked))
    BY <1>2, ChatStages
    DEF Chat!ServeQuestion, Chat!IInv, Chat!TypeOK, Chat!Serving, Chat!isSending, Chat!InStep,
        Chat!Conversation
  <2>2. /\ current \in 1..Len(log) /\ log[current] \in Seq(Chat!Messages)
        /\ Chat!Question(asked) \in Chat!Messages /\ Chat!Answer(asked) \in Chat!Messages
    BY <2>1, ChatMessages DEF Chat!IInv, Chat!TypeOK
  <2>3. log'[current] = log[current] \o <<Chat!Question(asked), Chat!Answer(asked)>>
    BY <2>1, <2>2 DEF Chat!ServeQuestion, Chat!IInv, Chat!TypeOK
  <2>4. Append(messages, Chat!Answer(asked)) = log'[current]
    BY <2>1, <2>2, <2>3, AppendTwice
  <2>5. /\ send'.stage = "answered" /\ send'.in = current /\ send' # Chat!Idle
        /\ UNCHANGED <<kept, current, messages, awaited, asked>>
    BY <2>1, ChatStages
    DEF Chat!ServeQuestion, Chat!IInv, Chat!TypeOK, Chat!isSending, Chat!Sends
  <2>. QED
    BY <2>1, <2>4, <2>5
    DEF Chat!InStep, Chat!isSending, Chat!Conversation, Chat!Answer
<1>. QED BY <1>1, <1>2 DEF Chat!IInv

LEMMA AnsweredKeeps == Chat!IInv /\ Chat!Answered => Chat!IInv'
<1>. SUFFICES ASSUME Chat!IInv, Chat!Answered PROVE Chat!IInv'
  OBVIOUS
<1>1. Chat!TypeOK'
  BY ChatMessages, ChatStages
  DEF Chat!Answered, Chat!IInv, Chat!TypeOK, Chat!isSending, Chat!Sends, Chat!Serving
<1>2. ASSUME ~interrupted', ~failed' PROVE Chat!InStep'
  BY <1>2, ChatMessages, ChatStages
  DEF Chat!Answered, Chat!IInv, Chat!TypeOK, Chat!isSending, Chat!Sends, Chat!Serving,
      Chat!InStep, Chat!Conversation
<1>. QED BY <1>1, <1>2 DEF Chat!IInv

LEMMA SendFailsKeeps == Chat!IInv /\ Chat!SendFails => Chat!IInv'
<1>. SUFFICES ASSUME Chat!IInv, Chat!SendFails PROVE Chat!IInv'
  OBVIOUS
<1>1. Chat!TypeOK'
  BY ChatMessages, ChatStages
  DEF Chat!SendFails, Chat!IInv, Chat!TypeOK, Chat!isSending, Chat!Sends, Chat!Serving
<1>2. ASSUME ~interrupted', ~failed' PROVE Chat!InStep'
  BY <1>2, ChatMessages, ChatStages
  DEF Chat!SendFails, Chat!IInv, Chat!TypeOK, Chat!isSending, Chat!Sends, Chat!Serving,
      Chat!InStep, Chat!Conversation
<1>. QED BY <1>1, <1>2 DEF Chat!IInv

LEMMA ChatSafe == Chat!Spec => []Chat!IInv
<1>1. Chat!IInv /\ [Chat!Next]_(Chat!vars) => Chat!IInv'
  <2>1. Chat!IInv /\ UNCHANGED Chat!vars => Chat!IInv'
    <3>. SUFFICES ASSUME Chat!IInv, UNCHANGED Chat!vars PROVE Chat!IInv'
      OBVIOUS
    <3>1. /\ Chat!isSending' = Chat!isSending /\ Chat!Sends' = Chat!Sends
          /\ Chat!Conversation(current)' = Chat!Conversation(current)
          /\ Chat!Question(asked)' = Chat!Question(asked)
          /\ Chat!Answer(asked)' = Chat!Answer(asked)
      BY DEF Chat!vars, Chat!isSending, Chat!Sends, Chat!Conversation, Chat!Question, Chat!Answer
    <3>2. Chat!TypeOK'
      BY <3>1 DEF Chat!vars, Chat!IInv, Chat!TypeOK
    <3>3. Chat!InStep' = Chat!InStep
      BY <3>1 DEF Chat!vars, Chat!InStep
    <3>. QED
      BY <3>2, <3>3 DEF Chat!IInv, Chat!vars
  <2>. QED
    BY <2>1, VisitKeeps, LoadedKeeps, LoadFailsKeeps, StartNewConversationKeeps,
       SendContentKeeps, ServeStartKeeps, StartedKeeps, ServeQuestionKeeps, AnsweredKeeps,
       SendFailsKeeps
    DEF Chat!Next
<1>. QED
  BY ChatInit, <1>1, PTL DEF Chat!Spec

(* ai-assistant/page.tsx: for any number of questions and visits, a page at rest shows    *)
(* just the conversation that the next question goes to, unless a question failed or New  *)
(* was clicked while one was awaited.                                                     *)
THEOREM PageShowsConversation == Chat!Spec => []ShowsConversation
<1>1. Chat!IInv => ShowsConversation
  BY DEF Chat!IInv, Chat!InStep, Chat!Conversation, ShowsConversation, Chat!ShowsConversation
<1>. QED
  BY ChatSafe, <1>1, PTL
=============================================================================
