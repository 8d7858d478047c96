---------------------------- MODULE CompanyStaff ----------------------------
(***************************************************************************)
(* Who works for a company: the role rows of OrgService and the company     *)
(* permission guard in front of every route of a company.                   *)
(*                                                                          *)
(* A row is unique per (user, company, role) and never deleted, so that     *)
(* triple stands for its id.  A handler's look-ups and its write are        *)
(* separate awaits; a request in flight is a record in `call`, with the user *)
(* who made it where the handler is told.                                   *)
(***************************************************************************)
EXTENDS Naturals, FiniteSets

CONSTANTS
  Users,
  Companies,
  InvitableRoles,  \* role codes an invitation may carry
  Slots,           \* bound: requests handled at the same time
  None

Owner == "business_owner"

(* What is assumed of the constants. *)
InvitableAssumption == InvitableRoles \subseteq {"accountant", "bookkeeper"}
NothingIsNone == None \notin Users \cup Companies \cup InvitableRoles \cup {Owner}

VARIABLES
  companies,  \* the companies created so far
  role,       \* role[<<u, c, r>>]: the status of a row of user_company_roles
  delegates,  \* <<u, c>>: an active firm assignment that carries staff:invite
  call,       \* the requests in flight
  founded,    \* history: <<u, c>> such that u created c
  delegated,  \* history: the <<u, c>> that ever were delegates
  invited,    \* history: <<a, w>> such that a's invitation created row w
  accepted,   \* history: <<u, w>> such that u accepted row w
  overtaken   \* history: rows revoked while an acceptance had read them

history == <<founded, delegated, invited, accepted, overtaken>>
vars == <<companies, role, delegates, call, history>>

-----------------------------------------------------------------------------
Roles == InvitableRoles \cup {Owner}
Rows == Users \X Companies \X Roles

(* The seeded grants, as far as a property tells them apart. *)
RolePermissions(r) ==
  CASE r = Owner -> {"company:read", "company:write", "staff:invite"}
    [] r = "accountant" -> {"company:read", "tax:compute", "tax:confirm"}
    [] r = "bookkeeper" -> {"company:read", "tax:compute"}
    [] OTHER -> {}

ActiveRoles(u, c) == {r \in Roles : role[<<u, c, r>>] = "active"}

(* findFirst: any one of the user's active rows is the one the guard looks at. *)
GuardMayPass(u, c, permission) ==
  \/ \E r \in ActiveRoles(u, c) : permission \in RolePermissions(r)
  \/ <<u, c>> \in delegates

Request(op, u, c, row) == [op |-> op, stage |-> "read", by |-> u, company |-> c, row |-> row]
NoCall == [op |-> "none", stage |-> "idle", by |-> None, company |-> None, row |-> None]
Call ==
  [op : {"inviteStaff", "acceptInvitation", "revokeStaff"}, stage : {"read", "write"},
   by : Users \cup {None}, company : Companies, row : Rows] \cup {NoCall}

Init ==
  /\ companies = {}
  /\ role = [w \in Rows |-> "none"]
  /\ delegates = {}
  /\ call = [s \in Slots |-> NoCall]
  /\ founded = {} /\ delegated = {} /\ invited = {} /\ accepted = {} /\ overtaken = {}

-----------------------------------------------------------------------------
(* OrgService.createCompany: the company and its owner's role in one write. *)
CreateCompany(u, c) ==
  /\ c \notin companies
  /\ companies' = companies \cup {c}
  /\ role' = [role EXCEPT ![<<u, c, Owner>>] = "active"]
  /\ founded' = founded \cup {<<u, c>>}
  /\ UNCHANGED <<delegates, call, delegated, invited, accepted, overtaken>>

(* The firm's side, by module FirmAccess: an assignment begins or ends. A firm
   may also create the company itself, which then has no owner. *)
Delegate(u, c) ==
  /\ companies' = companies \cup {c}
  /\ delegates' = delegates \cup {<<u, c>>}
  /\ delegated' = delegated \cup {<<u, c>>}
  /\ UNCHANGED <<role, call, founded, invited, accepted, overtaken>>

Undelegate(u, c) ==
  /\ <<u, c>> \in delegates
  /\ delegates' = delegates \ {<<u, c>>}
  /\ UNCHANGED <<companies, role, call, history>>

(* A request arrives; the routes of a company are guarded, acceptance is not. *)
Begin(s, k) ==
  /\ call[s] = NoCall
  /\ call' = [call EXCEPT ![s] = k]
  /\ UNCHANGED <<companies, role, delegates, history>>

\* mutant: the DTO lets any role through
AnyRole == Roles
Offered == InvitableRoles

InviteRequest(s) ==
  \E a, u \in Users, c \in companies, r \in Offered :
    /\ GuardMayPass(a, c, "staff:invite")
    /\ Begin(s, Request("inviteStaff", a, c, <<u, c, r>>))

(* The row's id comes from the client: it may be anybody's. *)
AcceptRequest(s) ==
  \E u \in Users, w \in Rows : Begin(s, Request("acceptInvitation", u, w[2], w))

(* Here it may be of another company; revokeStaff is not told who asks. *)
RevokeRequest(s) ==
  \E a \in Users, c \in companies, w \in Rows :
    /\ GuardMayPass(a, c, "staff:invite")
    /\ Begin(s, Request("revokeStaff", None, c, w))

-----------------------------------------------------------------------------
NeverInvited(k) == role[k.row] = "none"

\* mutant: the invitation is looked up by its id and status only
AnyonesPending(k) == role[k.row] = "pending"
\* mutant: any of the user's rows that is not active yet
NotActiveYet(k) == role[k.row] \in {"pending", "revoked"} /\ k.row[1] = k.by
IsPending(k) == role[k.row] = "pending" /\ k.row[1] = k.by

\* mutant: the owner's row is like any other
OwnerToo(k) == role[k.row] # "none" /\ k.row[2] = k.company
IsStaffOf(k) == role[k.row] # "none" /\ k.row[2] = k.company /\ k.row[3] # Owner

Passes(k) ==
  CASE k.op = "inviteStaff" -> NeverInvited(k)
    [] k.op = "acceptInvitation" -> IsPending(k)
    [] k.op = "revokeStaff" -> IsStaffOf(k)
    [] OTHER -> FALSE

(* The look-ups: go on with what they returned, or throw. *)
Read(s) ==
  /\ call[s].stage = "read"
  /\ call' = [call EXCEPT ![s] = IF Passes(@) THEN [@ EXCEPT !.stage = "write"] ELSE NoCall]
  /\ UNCHANGED <<companies, role, delegates, history>>

Writing(s, op) ==
  /\ call[s].op = op
  /\ call[s].stage = "write"
  /\ call' = [call EXCEPT ![s] = NoCall]
  /\ UNCHANGED <<companies, delegates, founded, delegated>>

(* The unique index rejects a create that lost a race. *)
InviteStaff(s) ==
  LET w == call[s].row IN
  /\ Writing(s, "inviteStaff")
  /\ IF role[w] = "none"
       THEN role' = [role EXCEPT ![w] = "pending"] /\ invited' = invited \cup {<<call[s].by, w>>}
       ELSE UNCHANGED <<role, invited>>
  /\ UNCHANGED <<accepted, overtaken>>

AcceptInvitation(s) ==
  LET w == call[s].row IN
  /\ Writing(s, "acceptInvitation")
  /\ role' = [role EXCEPT ![w] = "active"]
  /\ accepted' = accepted \cup {<<call[s].by, w>>}
  /\ UNCHANGED <<invited, overtaken>>

AboutToAccept(t, w) ==
  call[t].op = "acceptInvitation" /\ call[t].stage = "write" /\ call[t].row = w

RevokeStaff(s) ==
  LET w == call[s].row IN
  /\ Writing(s, "revokeStaff")
  /\ role' = [role EXCEPT ![w] = "revoked"]
  /\ overtaken' = overtaken \cup {x \in {w} : \E t \in Slots : AboutToAccept(t, x)}
  /\ UNCHANGED <<invited, accepted>>

Next ==
  \/ \E u \in Users, c \in Companies : CreateCompany(u, c) \/ Delegate(u, c) \/ Undelegate(u, c)
  \/ \E s \in Slots :
       \/ InviteRequest(s) \/ AcceptRequest(s) \/ RevokeRequest(s)
       \/ Read(s)
       \/ InviteStaff(s) \/ AcceptInvitation(s) \/ RevokeStaff(s)

Spec == Init /\ [][Next]_vars

-----------------------------------------------------------------------------
(* Properties *)

TypeOK ==
  /\ companies \subseteq Companies
  /\ role \in [Rows -> {"none", "pending", "active", "revoked"}]
  /\ delegates \subseteq Users \X Companies
  /\ call \in [Slots -> Call]
  /\ founded \subseteq Users \X Companies /\ delegated \subseteq Users \X Companies
  /\ invited \subseteq Users \X Rows /\ accepted \subseteq Users \X Rows
  /\ overtaken \subseteq Rows

(* ADMIN_MANUAL.md: the creator's role cannot be revoked and "every company must
   always have exactly one owner". Whatever invitations, acceptances and
   revocations overlap, the founder stays the one owner; FirmAccess relies on it. *)
FounderStaysOwner ==
  \A u \in Users, c \in Companies :
    /\ role[<<u, c, Owner>>] = "active" <=> <<u, c>> \in founded
    /\ <<u, c>> \in founded => \A v \in Users : <<v, c>> \in founded => v = u

Entitled(a, c) == <<a, c>> \in founded \cup delegated

(* Nobody works for a company unless its founder or a firm's delegate invited them
   to that role and they accepted it themselves: the id acceptInvitation gets from
   the client may be of anybody's invitation, and any requests may overlap. *)
RolesByConsent ==
  \A w \in Rows : w[3] # Owner /\ role[w] = "active" =>
    /\ <<w[1], w>> \in accepted
    /\ \E a \in Users : <<a, w>> \in invited /\ Entitled(a, w[2])

(* No chain of legal calls lets a member of staff decide who else is staff. *)
OnlyOwnersInvite ==
  \A u \in Users, c \in Companies :
    GuardMayPass(u, c, "staff:invite") => <<u, c>> \in founded \cup delegates

(* ADMIN_MANUAL.md: "Revoked staff immediately lose all access to that company".
   A revoked role never comes back, unless its user's acceptance had read it before
   and writes after: acceptInvitation does not look again. *)
RevokedForGood ==
  [][\A w \in Rows : role[w] = "revoked" => role'[w] = "revoked" \/ w \in overtaken]_role

(* Inductive: what a request in flight has read stays true until it writes,
   except for a revocation in between. *)
InFlight ==
  \A s \in Slots :
    /\ call[s].op = "inviteStaff" =>
         call[s].row[3] # Owner /\ call[s].by \in Users /\ Entitled(call[s].by, call[s].row[2])
    /\ call[s].op \in {"acceptInvitation", "revokeStaff"} /\ call[s].stage = "write" =>
         role[call[s].row] # "none" /\ call[s].row[3] # Owner
    /\ call[s].op = "acceptInvitation" /\ call[s].stage = "write" =>
         /\ call[s].by = call[s].row[1]
         /\ role[call[s].row] = "revoked" => call[s].row \in overtaken
Recorded ==
  /\ \A w \in Rows : w[3] # Owner /\ role[w] # "none" =>
       \E a \in Users : <<a, w>> \in invited /\ Entitled(a, w[2])
  /\ \A u \in Users, c \in Companies : role[<<u, c, Owner>>] \in {"none", "active"}
  /\ \A u \in Users, c \in Companies : <<u, c>> \in founded => c \in companies
  /\ delegates \subseteq delegated
IInv == TypeOK /\ FounderStaysOwner /\ RolesByConsent /\ OnlyOwnersInvite /\ InFlight /\ Recorded
=============================================================================
