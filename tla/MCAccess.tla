------------------------------ MODULE MCAccess ------------------------------
(***************************************************************************)
(* Both sides of access, the firms' and the company's own: they share the    *)
(* accounts and the companies that may exist, and each has its requests. No  *)
(* statement of one side reads a row the other writes, except the guard of   *)
(* the company's side, whose delegates CompanyStaff lets come and go at any  *)
(* time; so one side moves at a time here. Three situations, told apart by   *)
(* `scope`: "overlap", where two requests are interleaved at every await on  *)
(* one firm; "turns", where two firms compete for a company and nothing runs *)
(* between a request's reads and its write; and "staff", two requests on a   *)
(* company's roles. No action or property tells one user, firm, invitation   *)
(* id or slot from another, so permuting them is a symmetry.                 *)
(***************************************************************************)
EXTENDS FirmAccess, TLC

CONSTANTS InvitableRoles, u1, u2, f1, f2, c1, i1, i2, s1, s2

VARIABLES created, role, delegates, request, founded, delegated, invited, accepted,
          revokedInFlight, scope

Org == INSTANCE CompanyStaff
         WITH companies <- created, call <- request, overtaken <- revokedInFlight

ASSUME OrgAssumption == Org!InvitableAssumption /\ Org!NothingIsNone

Symmetry ==
  Permutations(Users) \cup Permutations(Firms) \cup Permutations(Invitations)
    \cup Permutations(Slots)

MCInit == Init /\ Org!Init /\ scope \in {"overlap", "turns", "staff"}

(* Bounds of "overlap": one firm, one engagement request, no request for a firm
   or an engagement request that does not exist, and every staffer an admin,
   whom the guard lets through. *)
OneOfEach ==
  /\ \A s \in Slots : /\ call'[s].firm \in firms' \cup {None}
                      /\ call'[s].dto # "firm_bookkeeper"
                      /\ call'[s].inv # None => invitation'[call'[s].inv].status # "none"
  /\ Cardinality(firms') <= 1
  /\ Cardinality({i \in Invitations : invitation'[i].status # "none"})
       + Cardinality({s \in Slots : call'[s].op = "inviteClientCompany"}) <= 1

(* Bounds of "turns": a user founds one firm, and every staffer is a
   bookkeeper, whom the guard refuses. *)
InTurn ==
  \/ \E u \in Users, f \in Firms :
       (\A g \in firms : member[g][u].role # "firm_owner") /\ CreateFirm(u, f)
  \/ \E s \in Slots :
       /\ \A r \in Slots \ {s} : call[r] = NoCall
       /\ Handle(s)
       /\ call'[s].dto # "firm_admin"

(* The variables of the company's side, under their names here. *)
staff == <<created, role, delegates, request, founded, delegated, invited, accepted,
           revokedInFlight>>

MCNext ==
  /\ \/ scope = "overlap" /\ Next /\ OneOfEach /\ UNCHANGED staff
     \/ scope = "turns" /\ InTurn /\ UNCHANGED <<overlapped, staff>>
     \/ scope = "staff" /\ Org!Next /\ UNCHANGED vars
  /\ UNCHANGED scope

MCSpec == MCInit /\ [][MCNext]_<<vars, staff, scope>>

FounderStaysOwner == Org!FounderStaysOwner
RolesByConsent == Org!RolesByConsent
OnlyOwnersInvite == Org!OnlyOwnersInvite
RevokedForGood == Org!RevokedForGood
=============================================================================
