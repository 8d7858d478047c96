----------------------------- MODULE FirmAccess -----------------------------
(***************************************************************************)
(* The accounting-firm side of the portal: FirmService, the FirmPermissions *)
(* guard in front of it, and the two OrgService facts it depends on (a      *)
(* company is created with one business owner, and that owner's role is     *)
(* never revoked).                                                          *)
(*                                                                          *)
(* Every handler is an async function: the guard's query, each query of the *)
(* service and the final write are separate awaits, and other requests run  *)
(* between them.  A request in flight is a record in `call`; what it may    *)
(* still do depends only on what it has already read, never on a fresh look *)
(* at the tables.  A $transaction, and a single Prisma write, is one step.  *)
(*                                                                          *)
(* FirmMembership is unique per (user, firm), FirmCompanyAssignment per     *)
(* (membership, company), and neither is ever deleted, so the pair and the  *)
(* triple stand for the row's id.  A company stands for its TIN.            *)
(***************************************************************************)
EXTENDS Naturals, FiniteSets

CONSTANTS
  Users,            \* registered accounts
  Firms,            \* firms that may be created
  Companies,        \* companies (TINs) that may be created
  Invitations,      \* bound: ids of the FirmClientInvitation rows
  Slots,            \* bound: requests handled at the same time
  AssignableRoles,  \* role codes an invitation or a role change may carry
  None              \* the null of a nullable column

ASSUME RolesAssumption ==
  AssignableRoles \subseteq
    {"firm_admin", "firm_accountant", "firm_bookkeeper", "firm_auditor"}

ASSUME NoneAssumption ==
  /\ None \notin Users \cup Firms \cup Companies \cup Invitations
  /\ None \notin AssignableRoles \cup {"accept", "decline"}

VARIABLES
  firms,       \* org.firms: the firms created so far
  member,      \* org.firm_memberships: member[f][u], status "none" = no row
  companies,   \* org.companies: the companies created so far
  ownerOf,     \* the company's active business_owner, None if it has none
  firmOf,      \* companies.firm_id
  assignment,  \* org.firm_company_assignments, by <<firm, user, company>>
  invitation,  \* org.firm_client_invitations
  call,        \* the requests in flight
  joined,      \* history: <<firm, user>> such that the user entered the firm
  engaged,     \* history: <<firm, company>> with the owner's consent, or born there
  overlapped   \* history: whether two requests were in flight at a time

tables == <<firms, member, companies, ownerOf, firmOf, assignment, invitation>>
vars == <<tables, call, joined, engaged, overlapped>>

-----------------------------------------------------------------------------
(* Rows and requests *)

FirmRoles == AssignableRoles \cup {"firm_owner"}
Membership ==
  [status : {"pending", "active", "revoked"}, role : FirmRoles]
    \cup {[status |-> "none", role |-> "none"]}
Invitation ==
  [status : {"pending", "accepted", "declined"}, firm : Firms, company : Companies]
    \cup {[status |-> "none", firm |-> None, company |-> None]}
Triples == Firms \X Users \X Companies

FirmOps == {"inviteFirmStaff", "updateFirmStaffRole", "revokeFirmStaff",
            "createClientCompany", "inviteClientCompany", "removeClientCompany",
            "assignStaffToCompany", "revokeAssignment"}
UserOps == {"acceptFirmInvitation", "respondToClientInvitation", "createCompany"}

Call ==
  [op : FirmOps \cup UserOps \cup {"none"},
   stage : {"idle", "read", "reread", "create", "write"},
   actor : Users \cup {None}, firm : Firms \cup {None}, user : Users \cup {None},
   company : Companies \cup {None}, inv : Invitations \cup {None},
   dto : AssignableRoles \cup {"accept", "decline", None}]

NoCall ==
  [op |-> "none", stage |-> "idle", actor |-> None, firm |-> None, user |-> None,
   company |-> None, inv |-> None, dto |-> None]

FirmPermissions ==
  {"firm:dashboard:view", "firm:manage", "firm:staff:invite", "firm:staff:manage_roles",
   "firm:clients:manage", "firm:clients:assign", "firm:billing:manage"}

(* The seeded grants of each firm role. *)
RolePermissions(role) ==
  CASE role = "firm_owner" -> FirmPermissions
    [] role = "firm_admin" -> FirmPermissions \ {"firm:billing:manage"}
    [] OTHER -> {"firm:dashboard:view"}

(* What each route of the firm controller requires. *)
RequiredPermission(op) ==
  CASE op \in {"inviteFirmStaff", "revokeFirmStaff"} -> "firm:staff:invite"
    [] op = "updateFirmStaffRole" -> "firm:staff:manage_roles"
    [] op \in {"assignStaffToCompany", "revokeAssignment"} -> "firm:clients:assign"
    [] OTHER -> "firm:clients:manage"

(* FirmPermissionsGuard: an active membership whose role grants the permission. *)
FirmGuard(u, f, op) ==
  /\ member[f][u].status = "active"
  /\ RequiredPermission(op) \in RolePermissions(member[f][u].role)

ActiveOwners(f) ==
  {u \in Users : member[f][u].status = "active" /\ member[f][u].role = "firm_owner"}

PendingFrom(f, c) ==
  {i \in Invitations : /\ invitation[i].status = "pending"
                       /\ invitation[i].firm = f
                       /\ invitation[i].company = c}

-----------------------------------------------------------------------------
(* A request arrives and passes its guard. One that fails it changes nothing. *)

Begin(s, k) ==
  /\ call[s] = NoCall
  /\ call' = [call EXCEPT ![s] = k]
  /\ UNCHANGED <<tables, joined, engaged>>

Request(op, a, f, u, c, i, d) ==
  [op |-> op, stage |-> "read", actor |-> a, firm |-> f, user |-> u,
   company |-> c, inv |-> i, dto |-> d]

(* Bound: an id is left for every client invitation that may be written. *)
InvitationIdLeft ==
  Cardinality({i \in Invitations : invitation[i].status = "none"}) >
    Cardinality({s \in Slots : call[s].op = "inviteClientCompany"})

(* The operations addressed to a staff membership of firm f. *)
StaffRequest(s) ==
  \E a, u \in Users, f \in firms, d \in AssignableRoles,
     op \in {"inviteFirmStaff", "updateFirmStaffRole", "revokeFirmStaff"} :
    /\ FirmGuard(a, f, op)
    /\ Begin(s, Request(op, a, f, u, None, None,
                        IF op = "revokeFirmStaff" THEN None ELSE d))

(* The operations addressed to a client company of firm f. *)
ClientRequest(s) ==
  \E a \in Users, f \in firms, c \in Companies,
     op \in {"createClientCompany", "inviteClientCompany", "removeClientCompany"} :
    /\ FirmGuard(a, f, op)
    /\ op = "inviteClientCompany" => InvitationIdLeft
    /\ Begin(s, Request(op, a, f, None, c, None, None))

(* The operations addressed to one staffer's assignment on one company. *)
AssignmentRequest(s) ==
  \E a, u \in Users, f \in firms, c \in Companies,
     op \in {"assignStaffToCompany", "revokeAssignment"} :
    /\ FirmGuard(a, f, op)
    /\ Begin(s, Request(op, a, f, u, c, None, None))

(* The routes any signed-in user may call. *)
UserRequest(s) ==
  \E a \in Users :
    \/ \E f \in Firms :
         Begin(s, Request("acceptFirmInvitation", a, f, a, None, None, None))
    \/ \E i \in Invitations, d \in {"accept", "decline"} :
         Begin(s, Request("respondToClientInvitation", a, None, None, None, i, d))
    \/ \E c \in Companies :
         Begin(s, Request("createCompany", a, None, None, c, None, None))

-----------------------------------------------------------------------------
(* The reads of each service method, as the test they make and throw on. *)

CanInviteStaff(k) == member[k.firm][k.user].status # "active"

(* getFirmMembershipOrThrow *)
MembershipExists(k) == member[k.firm][k.user].status # "none"

(* assertNotLastOwner counts only when the row it was given is an active owner. *)
IsActiveOwner(k) ==
  /\ member[k.firm][k.user].status = "active"
  /\ member[k.firm][k.user].role = "firm_owner"
CountsItself(k) == Cardinality(ActiveOwners(k.firm)) > 0  \* mutant: < for <=
NotLastOwner(k) == Cardinality(ActiveOwners(k.firm)) > 1

AcceptsRevoked(k) ==  \* mutant: any row that is not active yet
  member[k.firm][k.actor].status \in {"pending", "revoked"}
CanAccept(k) == member[k.firm][k.actor].status = "pending"

TinIsFree(k) == k.company \notin companies

Unmanaged(k) == k.company \in companies /\ firmOf[k.company] = None
NonePending(k) == PendingFrom(k.firm, k.company) = {}

CanRespond(k) ==
  /\ invitation[k.inv].status = "pending"
  /\ ownerOf[invitation[k.inv].company] = k.actor

(* assertCompanyBelongsToFirm, and the same test in removeClientCompany *)
BelongsToAnyone(k) == k.company \in companies  \* mutant: firm_id not compared
BelongsToFirm(k) == k.company \in companies /\ firmOf[k.company] = k.firm

MembershipOfAnyStatus(k) == MembershipExists(k)  \* mutant: status not tested
IsActiveMember(k) == member[k.firm][k.user].status = "active"

AssignmentExists(k) == assignment[<<k.firm, k.user, k.company>>] # "none"

Passes(k) ==
  /\ k.op = "inviteFirmStaff" => CanInviteStaff(k)
  /\ k.op \in {"updateFirmStaffRole", "revokeFirmStaff"} =>
       IF k.stage = "read" THEN MembershipExists(k) ELSE NotLastOwner(k)
  /\ k.op = "acceptFirmInvitation" => CanAccept(k)
  /\ k.op \in {"createClientCompany", "createCompany"} => TinIsFree(k)
  /\ k.op = "inviteClientCompany" =>
       IF k.stage = "read" THEN Unmanaged(k) ELSE NonePending(k)
  /\ k.op = "respondToClientInvitation" => CanRespond(k)
  /\ k.op = "removeClientCompany" => BelongsToFirm(k)
  /\ k.op = "assignStaffToCompany" =>
       IF k.stage = "read" THEN BelongsToFirm(k) ELSE IsActiveMember(k)
  /\ k.op = "revokeAssignment" => AssignmentExists(k)

(* Methods with a second query to make before they write. *)
HasSecondQuery(k) ==
  \/ k.op \in {"inviteClientCompany", "assignStaffToCompany"}
  \/ k.op \in {"updateFirmStaffRole", "revokeFirmStaff"} /\ IsActiveOwner(k)

(* The stage after a successful read. *)
NextStage(k) ==
  IF k.stage = "read" /\ HasSecondQuery(k) THEN "reread"
  ELSE IF k.op = "inviteFirmStaff" /\ ~MembershipExists(k) THEN "create"
  ELSE "write"

(* One awaited query: go on with what it returned, or throw. *)
Read(s) ==
  /\ call[s].stage \in {"read", "reread"}
  /\ call' = [call EXCEPT ![s] = IF Passes(@)
                                 THEN [@ EXCEPT !.stage = NextStage(call[s])]
                                 ELSE NoCall]
  /\ UNCHANGED <<tables, joined, engaged>>

-----------------------------------------------------------------------------
(* The writes. Each uses what the request read, whatever the tables hold now. *)

Writing(s, op) ==
  /\ call[s].op = op
  /\ call[s].stage \in {"write", "create"}
  /\ call' = [call EXCEPT ![s] = NoCall]

CreateFirm(u, f) ==
  /\ f \notin firms
  /\ firms' = firms \cup {f}
  /\ member' = [member EXCEPT ![f][u] = [status |-> "active", role |-> "firm_owner"]]
  /\ joined' = joined \cup {<<f, u>>}
  /\ UNCHANGED <<companies, ownerOf, firmOf, assignment, invitation, call, engaged>>

(* The unique (user, firm) index rejects a create that lost the race. *)
InviteFirmStaff(s) ==
  LET k == call[s] IN
  /\ Writing(s, "inviteFirmStaff")
  /\ IF k.stage = "create" /\ member[k.firm][k.user].status # "none"
     THEN UNCHANGED member
     ELSE member' = [member EXCEPT ![k.firm][k.user] =
                       [status |-> "pending", role |-> k.dto]]
  /\ UNCHANGED <<firms, companies, ownerOf, firmOf, assignment, invitation,
                 joined, engaged>>

UpdateFirmStaffRole(s) ==
  LET k == call[s] IN
  /\ Writing(s, "updateFirmStaffRole")
  /\ member' = [member EXCEPT ![k.firm][k.user] = [status |-> @.status, role |-> k.dto]]
  /\ UNCHANGED <<firms, companies, ownerOf, firmOf, assignment, invitation,
                 joined, engaged>>

RevokeFirmStaff(s) ==
  LET k == call[s] IN
  /\ Writing(s, "revokeFirmStaff")
  /\ assignment' = [t \in Triples |->
                      IF t[1] = k.firm /\ t[2] = k.user /\ assignment[t] = "active"
                      THEN "revoked" ELSE assignment[t]]
  /\ member' = [member EXCEPT ![k.firm][k.user] = [status |-> "revoked", role |-> @.role]]
  /\ UNCHANGED <<firms, companies, ownerOf, firmOf, invitation, joined, engaged>>

AcceptFirmInvitation(s) ==
  LET k == call[s] IN
  /\ Writing(s, "acceptFirmInvitation")
  /\ member' = [member EXCEPT ![k.firm][k.user] = [status |-> "active", role |-> @.role]]
  /\ joined' = joined \cup {<<k.firm, k.user>>}
  /\ UNCHANGED <<firms, companies, ownerOf, firmOf, assignment, invitation, engaged>>

(* OrgService.createCompany: the company and its owner's role in one write;
   the unique TIN rejects the loser of a race. *)
CreateCompany(s) ==
  LET k == call[s] IN
  /\ Writing(s, "createCompany")
  /\ IF k.company \in companies
     THEN UNCHANGED <<companies, ownerOf>>
     ELSE /\ companies' = companies \cup {k.company}
          /\ ownerOf' = [ownerOf EXCEPT ![k.company] = k.actor]
  /\ UNCHANGED <<firms, member, firmOf, assignment, invitation, joined, engaged>>

CreateClientCompany(s) ==
  LET k == call[s] IN
  /\ Writing(s, "createClientCompany")
  /\ IF k.company \in companies
     THEN UNCHANGED <<companies, firmOf, assignment, engaged>>
     ELSE /\ companies' = companies \cup {k.company}
          /\ firmOf' = [firmOf EXCEPT ![k.company] = k.firm]
          /\ assignment' =
               [assignment EXCEPT ![<<k.firm, k.actor, k.company>>] = "active"]
          /\ engaged' = engaged \cup {<<k.firm, k.company>>}
  /\ UNCHANGED <<firms, member, ownerOf, invitation, joined>>

InviteClientCompany(s) ==
  LET k == call[s] IN
  /\ Writing(s, "inviteClientCompany")
  /\ \E i \in Invitations :
       /\ invitation[i].status = "none"
       /\ invitation' = [invitation EXCEPT ![i] =
            [status |-> "pending", firm |-> k.firm, company |-> k.company]]
  /\ UNCHANGED <<firms, member, companies, ownerOf, firmOf, assignment, joined, engaged>>

(* The firm is engaged by the owner's word, and nobody else's acceptance is it. *)
OwnersWord(u, row) ==
  {e \in {<<row.firm, row.company>>} : ownerOf[row.company] = u}

RespondToClientInvitation(s) ==
  LET k == call[s]
      row == invitation[k.inv] IN
  /\ Writing(s, "respondToClientInvitation")
  /\ IF k.dto = "decline"
     THEN /\ invitation' = [invitation EXCEPT ![k.inv] =
                                 [status |-> "declined", firm |-> row.firm, company |-> row.company]]
          /\ UNCHANGED <<firmOf, engaged>>
     ELSE /\ invitation' = [invitation EXCEPT ![k.inv] =
                                 [status |-> "accepted", firm |-> row.firm, company |-> row.company]]
          /\ firmOf' = [firmOf EXCEPT ![row.company] = row.firm]
          /\ engaged' = engaged \cup OwnersWord(k.actor, row)
  /\ UNCHANGED <<firms, member, companies, ownerOf, assignment, joined>>

RemoveClientCompany(s) ==
  LET k == call[s] IN
  /\ Writing(s, "removeClientCompany")
  /\ assignment' = [t \in Triples |->
                      IF t[1] = k.firm /\ t[3] = k.company /\ assignment[t] = "active"
                      THEN "revoked" ELSE assignment[t]]
  /\ firmOf' = [firmOf EXCEPT ![k.company] = None]
  /\ UNCHANGED <<firms, member, companies, ownerOf, invitation, joined, engaged>>

AssignStaffToCompany(s) ==
  LET k == call[s] IN
  /\ Writing(s, "assignStaffToCompany")
  /\ assignment' = [assignment EXCEPT ![<<k.firm, k.user, k.company>>] = "active"]
  /\ UNCHANGED <<firms, member, companies, ownerOf, firmOf, invitation, joined, engaged>>

RevokeAssignment(s) ==
  LET k == call[s] IN
  /\ Writing(s, "revokeAssignment")
  /\ assignment' = [assignment EXCEPT ![<<k.firm, k.user, k.company>>] = "revoked"]
  /\ UNCHANGED <<firms, member, companies, ownerOf, firmOf, invitation, joined, engaged>>

-----------------------------------------------------------------------------
Init ==
  /\ firms = {}
  /\ member = [f \in Firms |-> [u \in Users |-> [status |-> "none", role |-> "none"]]]
  /\ companies = {}
  /\ ownerOf = [c \in Companies |-> None]
  /\ firmOf = [c \in Companies |-> None]
  /\ assignment = [t \in Triples |-> "none"]
  /\ invitation = [i \in Invitations |->
                     [status |-> "none", firm |-> None, company |-> None]]
  /\ call = [s \in Slots |-> NoCall]
  /\ joined = {}
  /\ engaged = {}
  /\ overlapped = FALSE

Handle(s) ==
  \/ StaffRequest(s) \/ ClientRequest(s) \/ AssignmentRequest(s) \/ UserRequest(s)
  \/ Read(s)
  \/ InviteFirmStaff(s) \/ UpdateFirmStaffRole(s) \/ RevokeFirmStaff(s)
  \/ AcceptFirmInvitation(s)
  \/ CreateCompany(s) \/ CreateClientCompany(s)
  \/ InviteClientCompany(s) \/ RespondToClientInvitation(s) \/ RemoveClientCompany(s)
  \/ AssignStaffToCompany(s) \/ RevokeAssignment(s)

OneAtATime == \A s, t \in Slots : call[s] # NoCall /\ call[t] # NoCall => s = t

Next ==
  /\ \/ \E u \in Users, f \in Firms : CreateFirm(u, f)
     \/ \E s \in Slots : Handle(s)
  /\ overlapped' = (overlapped \/ ~OneAtATime')

Spec == Init /\ [][Next]_vars

-----------------------------------------------------------------------------
(* Type invariant: every row, request and history entry has its type, and an
   owner's role is on a company there is. *)
RowsTyped ==
  /\ firms \subseteq Firms
  /\ member \in [Firms -> [Users -> Membership]]
  /\ companies \subseteq Companies
  /\ ownerOf \in [Companies -> Users \cup {None}]
  /\ \A c \in Companies : ownerOf[c] # None => c \in companies  \* a foreign key
  /\ firmOf \in [Companies -> Firms \cup {None}]
  /\ assignment \in [Triples -> {"none", "active", "revoked"}]
  /\ invitation \in [Invitations -> Invitation]
  /\ call \in [Slots -> Call]
  /\ joined \subseteq Firms \X Users
  /\ engaged \subseteq Firms \X Companies
TypeOK == RowsTyped /\ overlapped \in BOOLEAN

(* A firm always has exactly one active owner and no row of another status
   carries the owner role, whatever invitations, role changes, revocations and
   acceptances are in flight on its memberships: assertNotLastOwner counts
   before it writes, and the write does not look again. *)
OneActiveOwner ==
  \A f \in firms :
    \E u \in Users :
      /\ member[f][u].status = "active"
      /\ \A v \in Users : member[f][v].role = "firm_owner" <=> v = u

(* Consent on both sides: a staffer holds a row on a client company only if
   that staffer once entered the firm of their own accord (founded it or
   accepted its invitation) and the firm once obtained the company (created it,
   or its business owner in person accepted an engagement request, whose id comes
   from the client); and a company's firm_id only ever names such a firm. *)
ConsentOnBothSides ==
  /\ \A f \in Firms, u \in Users, c \in Companies :
       assignment[<<f, u, c>>] # "none" => <<f, u>> \in joined /\ <<f, c>> \in engaged
  /\ \A c \in Companies : firmOf[c] # None => <<firmOf[c], c>> \in engaged

(* A revoked or pending membership serves no client company. *)
AssignmentsFollowMembership ==
  \A f \in Firms, u \in Users, c \in Companies :
    assignment[<<f, u, c>>] = "active" => member[f][u].status = "active"

(* inviteClientCompany: one open request per firm and company. *)
OnePendingRequest ==
  \A f \in Firms, c \in Companies : \A i, j \in PendingFrom(f, c) : i = j

(* respondToClientInvitation answers pending requests only: what a step does
   with an answered one. *)
AnswersKept ==
  \A i \in Invitations :
    invitation[i].status \in {"accepted", "declined"} => invitation'[i] = invitation[i]

(* A revoked staffer comes back only by way of a new invitation. *)
RevokedKept ==
  \A f \in Firms, u \in Users :
    member[f][u].status = "revoked" => member'[f][u].status # "active"

(* As long as requests do not overlap the tables agree: a revoked or pending
   membership serves no client company, for revoking it cuts all its assignments in
   one step, and a firm has one open engagement request to a company, for
   inviteClientCompany looks for one first. *)
TablesAgreeUnlessOverlapped == ~overlapped => AssignmentsFollowMembership /\ OnePendingRequest

(* As long as requests do not overlap decisions last: an engagement request is
   answered once, and a revoked staffer stays out of the firm until invited again,
   whatever was invited, changed or assigned before. *)
DecisionsLastUnlessOverlapped == [][~overlapped' => AnswersKept /\ RevokedKept]_vars

(* A company managed by one firm is never handed to another directly:
   inviteClientCompany refuses a company that already has a firm. *)
NoTakeover ==
  [][\A c \in Companies : firmOf[c] # None => firmOf'[c] \in {firmOf[c], None}]_firmOf

-----------------------------------------------------------------------------
(* The inductive invariant: the safety properties, and what a request in flight
   keeps true from its reads to its write. *)

MembershipOps ==
  {"inviteFirmStaff", "updateFirmStaffRole", "revokeFirmStaff", "acceptFirmInvitation"}

(* The arguments a request carries. *)
CallShape(k) ==
  /\ k.op \in FirmOps => k.firm \in firms /\ k.actor \in Users
  /\ k.op \in MembershipOps \cup {"assignStaffToCompany", "revokeAssignment"} =>
       k.firm \in Firms /\ k.user \in Users
  /\ k.op \in {"inviteFirmStaff", "updateFirmStaffRole"} => k.dto \in AssignableRoles
  /\ k.op \in {"createClientCompany", "inviteClientCompany", "removeClientCompany",
                "assignStaffToCompany", "revokeAssignment", "createCompany"} =>
       k.company \in Companies
  /\ k.op = "createCompany" => k.actor \in Users
  /\ k.op = "acceptFirmInvitation" => k.actor = k.user
  /\ k.op = "respondToClientInvitation" => k.inv \in Invitations /\ k.actor \in Users

(* A write to a membership row is only ever pending on a row that exists and
   is not the owner's: an owner's row is refused by the count, and no other row
   can become one. *)
NoOwnerTargeted(k) ==
  k.op \in MembershipOps /\ k.stage = "write" =>
    /\ member[k.firm][k.user].status # "none"
    /\ member[k.firm][k.user].role # "firm_owner"

(* A "create" is only ever pending for an invitation. *)
CreatesInvitation(k) == k.stage = "create" => k.op = "inviteFirmStaff"

(* The consents a write to an assignment relies on were given when it was read. *)
ConsentRead(k) ==
  /\ k.op = "createClientCompany" => <<k.firm, k.actor>> \in joined
  /\ k.op = "assignStaffToCompany" =>
       /\ k.stage \in {"reread", "write"} => <<k.firm, k.company>> \in engaged
       /\ k.stage = "write" => <<k.firm, k.user>> \in joined
  /\ k.op = "revokeAssignment" /\ k.stage = "write" =>
       assignment[<<k.firm, k.user, k.company>>] # "none"
  /\ k.op = "respondToClientInvitation" /\ k.stage = "write" =>
       invitation[k.inv].status # "none" /\ ownerOf[invitation[k.inv].company] = k.actor

InFlight ==
  \A s \in Slots : /\ CallShape(call[s])
                   /\ NoOwnerTargeted(call[s])
                   /\ CreatesInvitation(call[s])
                   /\ ConsentRead(call[s])

RowsOfFirms ==
  \A f \in Firms, u \in Users :
    /\ member[f][u].status # "none" => f \in firms
    /\ member[f][u].status = "active" => <<f, u>> \in joined

(* Inductive: the types of the rows, the two safety properties and the facts above
   about what the requests in flight have read. *)
IInv == RowsTyped /\ OneActiveOwner /\ ConsentOnBothSides /\ RowsOfFirms /\ InFlight

(* What a request has read is still so when it writes, if it is alone. *)
StillAsRead(k) ==
  /\ k.op = "inviteFirmStaff" /\ k.stage \in {"create", "write"} => CanInviteStaff(k)
  /\ k.op = "acceptFirmInvitation" /\ k.stage = "write" => CanAccept(k)
  /\ k.op = "createClientCompany" => member[k.firm][k.actor].status = "active"
  /\ k.op = "assignStaffToCompany" /\ k.stage = "write" => IsActiveMember(k)
  /\ k.op = "inviteClientCompany" /\ k.stage = "write" => NonePending(k)
  /\ k.op = "respondToClientInvitation" /\ k.stage = "write" =>
       invitation[k.inv].status = "pending"

(* Inductive together with IInv. *)
Alone ==
  ~overlapped =>
    /\ OneAtATime
    /\ \A s \in Slots : StillAsRead(call[s])
    /\ AssignmentsFollowMembership /\ OnePendingRequest
=============================================================================
