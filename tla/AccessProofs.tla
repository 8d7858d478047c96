---------------------------- MODULE AccessProofs ----------------------------
(* Who may act for a firm and for a company: proofs about FirmAccess and     *)
(* CompanyStaff for every set of users, firms, companies and request slots.  *)
EXTENDS MCAccess, FiniteSetTheorems, TLAPS

-----------------------------------------------------------------------------
(* Facts about the shape of a request *)

(* The idle request is a request, and is pending on nothing. *)
LEMMA NoCallTyped == NoCall \in Call
  BY DEF NoCall, Call

(* After a successful query a request is at a known stage. *)
LEMMA NextStageTyped ==
  ASSUME NEW k
  PROVE  /\ NextStage(k) \in {"reread", "create", "write"}
         /\ NextStage(k) = "create" => k.op = "inviteFirmStaff" /\ ~MembershipExists(k)
         /\ NextStage(k) = "reread" => k.stage = "read" /\ HasSecondQuery(k)
         /\ NextStage(k) = "write" =>
              /\ k.stage = "read" => ~HasSecondQuery(k)
              /\ k.op = "inviteFirmStaff" => MembershipExists(k)
  BY DEF NextStage

-----------------------------------------------------------------------------
(* The tables never lose a row, a consent or a history entry, and no row of
   another role becomes the owner's. Each write below is of this kind. *)
TablesGrow ==
  /\ firms \subseteq firms' /\ joined \subseteq joined' /\ engaged \subseteq engaged'
  /\ \A f \in Firms, u \in Users :
       member[f][u].status # "none" =>
         /\ member'[f][u].status # "none"
         /\ member[f][u].role # "firm_owner" => member'[f][u].role # "firm_owner"
  /\ \A t \in Triples : assignment[t] # "none" => assignment'[t] # "none"
  /\ \A i \in Invitations : invitation[i].status # "none" =>
       invitation'[i].status # "none" /\ invitation'[i].company = invitation[i].company
  /\ \A c \in Companies : ownerOf[c] # None => ownerOf'[c] = ownerOf[c]

(* What the requests in flight have read stays true while the tables grow. *)
LEMMA InFlightKept ==
  ASSUME RowsTyped, InFlight, TablesGrow, NEW s \in Slots,
         call' = call \/ call' = [call EXCEPT ![s] = NoCall]
  PROVE  InFlight'
  <1> SUFFICES ASSUME NEW t \in Slots
               PROVE  /\ CallShape(call[t])' /\ NoOwnerTargeted(call[t])'
                      /\ CreatesInvitation(call[t])' /\ ConsentRead(call[t])'
    BY DEF InFlight
  <1>1. CASE call'[t] = NoCall
    BY <1>1 DEF NoCall, CallShape, NoOwnerTargeted, CreatesInvitation, ConsentRead,
                FirmOps, MembershipOps
  <1>2. CASE call'[t] = call[t]
    <2>1. CallShape(call[t])'
      BY <1>2 DEF InFlight, CallShape, TablesGrow
    <2>2. NoOwnerTargeted(call[t])'
      BY <1>2 DEF InFlight, NoOwnerTargeted, CallShape, TablesGrow, MembershipOps
    <2>3. CreatesInvitation(call[t])'
      BY <1>2 DEF InFlight, CreatesInvitation
    <2>4. ConsentRead(call[t])'
      <3>1. call[t].op = "revokeAssignment" =>
              <<call[t].firm, call[t].user, call[t].company>> \in Triples
        BY DEF InFlight, CallShape, Triples
      <3>2. CASE call[t].op = "respondToClientInvitation" /\ call[t].stage = "write"
        <4> DEFINE i == call[t].inv
        <4>1. /\ i \in Invitations /\ call[t].actor \in Users /\ invitation[i].status # "none"
              /\ ownerOf[invitation[i].company] = call[t].actor
          BY <3>2 DEF InFlight, ConsentRead, CallShape
        <4>2. invitation[i].company \in Companies /\ call[t].actor # None
          BY <4>1, NoneAssumption DEF RowsTyped, Invitation
        <4>3. ownerOf'[invitation'[i].company] = call[t].actor /\ invitation'[i].status # "none"
          BY <4>1, <4>2 DEF TablesGrow
        <4> QED BY <1>2, <3>2, <4>3 DEF ConsentRead
      <3>3. CASE ~(call[t].op = "respondToClientInvitation" /\ call[t].stage = "write")
        BY <1>2, <3>1, <3>3 DEF InFlight, ConsentRead, CallShape, TablesGrow
      <3> QED BY <3>2, <3>3
    <2> QED BY <2>1, <2>2, <2>3, <2>4
  <1> QED BY <1>1, <1>2 DEF RowsTyped

-----------------------------------------------------------------------------
(* A firm's count of active owners is one, so assertNotLastOwner always
   refuses to touch the owner's row. *)
LEMMA OwnerCountIsOne ==
  ASSUME OneActiveOwner, NEW f \in firms
  PROVE  ~(Cardinality(ActiveOwners(f)) > 1)
  <1>1. PICK u \in Users : /\ member[f][u].status = "active"
                           /\ \A v \in Users : member[f][v].role = "firm_owner" <=> v = u
    BY DEF OneActiveOwner
  <1>2. ActiveOwners(f) = {u}
    BY <1>1 DEF ActiveOwners
  <1> QED BY <1>2, FS_Singleton

(* The four kinds of request: what arrives is typed and pending on nothing. *)
LEMMA RequestKeepsIInv ==
  ASSUME IInv, NEW s \in Slots, NEW k \in Call, Begin(s, k), k.stage = "read",
         CallShape(k), k.op = "createClientCompany" => <<k.firm, k.actor>> \in joined
  PROVE  IInv'
  <1> USE DEF IInv
  <1>1. UNCHANGED <<firms, member, companies, ownerOf, firmOf, assignment, invitation,
                    joined, engaged>> /\ call' = [call EXCEPT ![s] = k]
    BY DEF Begin, tables
  <1>2. RowsTyped'
    BY <1>1 DEF RowsTyped
  <1>3. OneActiveOwner' /\ ConsentOnBothSides' /\ RowsOfFirms'
    BY <1>1 DEF OneActiveOwner, ConsentOnBothSides, RowsOfFirms
  <1>4. InFlight'
    <2> SUFFICES ASSUME NEW t \in Slots
                 PROVE  /\ CallShape(call[t])' /\ NoOwnerTargeted(call[t])'
                        /\ CreatesInvitation(call[t])' /\ ConsentRead(call[t])'
      BY DEF InFlight
    <2>1. CASE t = s
      <3>1. call'[t] = k
        BY <1>1, <2>1 DEF RowsTyped
      <3> QED
        BY <1>1, <3>1 DEF CallShape, NoOwnerTargeted, CreatesInvitation, ConsentRead
    <2>2. CASE t # s
      <3>1. call'[t] = call[t]
        BY <1>1, <2>2 DEF RowsTyped
      <3> QED
        BY <1>1, <3>1
        DEF InFlight, CallShape, NoOwnerTargeted, CreatesInvitation, ConsentRead
    <2> QED BY <2>1, <2>2
  <1> QED BY <1>2, <1>3, <1>4

LEMMA ArrivalKeepsIInv ==
  ASSUME IInv, NEW s \in Slots,
         StaffRequest(s) \/ ClientRequest(s) \/ AssignmentRequest(s) \/ UserRequest(s)
  PROVE  IInv'
  <1> USE DEF IInv
  <1>1. CASE StaffRequest(s)
    <2>1. PICK a \in Users, u \in Users, f \in firms, d \in AssignableRoles,
               op \in {"inviteFirmStaff", "updateFirmStaffRole", "revokeFirmStaff"} :
            Begin(s, Request(op, a, f, u, None, None,
                             IF op = "revokeFirmStaff" THEN None ELSE d))
      BY <1>1 DEF StaffRequest
    <2> DEFINE k == Request(op, a, f, u, None, None,
                            IF op = "revokeFirmStaff" THEN None ELSE d)
    <2>2. f \in Firms
      BY DEF RowsTyped
    <2>3. k \in Call /\ k.stage = "read" /\ CallShape(k) /\ k.op # "createClientCompany"
      BY <2>2 DEF Request, Call, CallShape, FirmOps, UserOps, MembershipOps
    <2> QED BY <2>1, <2>3, RequestKeepsIInv
  <1>2. CASE ClientRequest(s)
    <2>1. PICK a \in Users, f \in firms, c \in Companies,
               op \in {"createClientCompany", "inviteClientCompany", "removeClientCompany"} :
            FirmGuard(a, f, op) /\ Begin(s, Request(op, a, f, None, c, None, None))
      BY <1>2 DEF ClientRequest
    <2> DEFINE k == Request(op, a, f, None, c, None, None)
    <2>2. f \in Firms /\ <<f, a>> \in joined
      BY <2>1 DEF RowsTyped, FirmGuard, RowsOfFirms
    <2>3. k \in Call /\ k.stage = "read" /\ CallShape(k) /\ <<k.firm, k.actor>> \in joined
      BY <2>2 DEF Request, Call, CallShape, FirmOps, UserOps, MembershipOps
    <2> QED BY <2>1, <2>3, RequestKeepsIInv
  <1>3. CASE AssignmentRequest(s)
    <2>1. PICK a \in Users, u \in Users, f \in firms, c \in Companies,
               op \in {"assignStaffToCompany", "revokeAssignment"} :
            Begin(s, Request(op, a, f, u, c, None, None))
      BY <1>3 DEF AssignmentRequest
    <2> DEFINE k == Request(op, a, f, u, c, None, None)
    <2>2. f \in Firms
      BY DEF RowsTyped
    <2>3. k \in Call /\ k.stage = "read" /\ CallShape(k) /\ k.op # "createClientCompany"
      BY <2>2 DEF Request, Call, CallShape, FirmOps, UserOps, MembershipOps
    <2> QED BY <2>1, <2>3, RequestKeepsIInv
  <1>4. CASE UserRequest(s)
    <2>1. PICK a \in Users :
            \/ \E f \in Firms :
                 Begin(s, Request("acceptFirmInvitation", a, f, a, None, None, None))
            \/ \E i \in Invitations, d \in {"accept", "decline"} :
                 Begin(s, Request("respondToClientInvitation", a, None, None, None, i, d))
            \/ \E c \in Companies :
                 Begin(s, Request("createCompany", a, None, None, c, None, None))
      BY <1>4 DEF UserRequest
    <2>2. ASSUME NEW f \in Firms,
                 Begin(s, Request("acceptFirmInvitation", a, f, a, None, None, None))
          PROVE  IInv'
      <3> DEFINE k == Request("acceptFirmInvitation", a, f, a, None, None, None)
      <3>1. k \in Call /\ k.stage = "read" /\ CallShape(k) /\ k.op # "createClientCompany"
        BY DEF Request, Call, CallShape, FirmOps, UserOps, MembershipOps
      <3> QED BY <2>2, <3>1, RequestKeepsIInv
    <2>3. ASSUME NEW i \in Invitations, NEW d \in {"accept", "decline"},
                 Begin(s, Request("respondToClientInvitation", a, None, None, None, i, d))
          PROVE  IInv'
      <3> DEFINE k == Request("respondToClientInvitation", a, None, None, None, i, d)
      <3>1. k \in Call /\ k.stage = "read" /\ CallShape(k) /\ k.op # "createClientCompany"
        BY DEF Request, Call, CallShape, FirmOps, UserOps, MembershipOps
      <3> QED BY <2>3, <3>1, RequestKeepsIInv
    <2>4. ASSUME NEW c \in Companies,
                 Begin(s, Request("createCompany", a, None, None, c, None, None))
          PROVE  IInv'
      <3> DEFINE k == Request("createCompany", a, None, None, c, None, None)
      <3>1. k \in Call /\ k.stage = "read" /\ CallShape(k) /\ k.op # "createClientCompany"
        BY DEF Request, Call, CallShape, FirmOps, UserOps, MembershipOps
      <3> QED BY <2>4, <3>1, RequestKeepsIInv
    <2> QED BY <2>1, <2>2, <2>3, <2>4
  <1> QED BY <1>1, <1>2, <1>3, <1>4

(* A query keeps the invariant: what it returned is what ConsentRead and
   NoOwnerTargeted say the request may now rely on. *)
LEMMA ReadKeepsIInv ==
  ASSUME IInv, NEW s \in Slots, Read(s)
  PROVE  IInv'
  <1> USE DEF IInv
  <1> DEFINE k == call[s]
             next == IF Passes(k) THEN [k EXCEPT !.stage = NextStage(k)] ELSE NoCall
  <1>1. UNCHANGED <<firms, member, companies, ownerOf, firmOf, assignment, invitation,
                    joined, engaged>> /\ call' = [call EXCEPT ![s] = next]
    BY DEF Read, tables
  <1>2. k \in Call /\ k.stage \in {"read", "reread"}
    BY DEF Read, RowsTyped
  <1>3. next \in Call
    BY <1>2, NoCallTyped, NextStageTyped DEF Call
  <1>4. RowsTyped'
    BY <1>1, <1>3 DEF RowsTyped
  <1>5. OneActiveOwner' /\ ConsentOnBothSides' /\ RowsOfFirms'
    BY <1>1 DEF OneActiveOwner, ConsentOnBothSides, RowsOfFirms
  <1>6. CallShape(next) /\ NoOwnerTargeted(next) /\ CreatesInvitation(next) /\ ConsentRead(next)
    <2>1. CASE ~Passes(k)
      BY <2>1 DEF NoCall, CallShape, NoOwnerTargeted, CreatesInvitation, ConsentRead,
                  FirmOps, MembershipOps
    <2>2. CASE Passes(k)
      <3>1. /\ next.op = k.op /\ next.stage = NextStage(k) /\ next.actor = k.actor
            /\ next.firm = k.firm /\ next.user = k.user /\ next.company = k.company
            /\ next.inv = k.inv /\ next.dto = k.dto
        BY <1>2, <2>2 DEF Call
      <3>2. CallShape(k) /\ ConsentRead(k)
        BY DEF InFlight
      <3>3. CallShape(next)
        BY <3>1, <3>2 DEF CallShape
      <3>4. NoOwnerTargeted(next)
        <4> SUFFICES ASSUME k.op \in MembershipOps, NextStage(k) = "write"
                     PROVE  /\ member[k.firm][k.user].status # "none"
                            /\ member[k.firm][k.user].role # "firm_owner"
          BY <3>1 DEF NoOwnerTargeted
        <4>1. k.firm \in Firms /\ k.user \in Users
          BY <3>2 DEF CallShape
        <4>2. member[k.firm][k.user].status # "none"
          <5>1. CASE k.op = "inviteFirmStaff"
            BY <5>1, NextStageTyped DEF MembershipExists
          <5>2. CASE k.op \in {"updateFirmStaffRole", "revokeFirmStaff"}
            <6>1. k.firm \in firms
              BY <5>2, <3>2 DEF CallShape, FirmOps
            <6>2. k.stage = "read"
              BY <1>2, <2>2, <5>2, <6>1, OwnerCountIsOne DEF Passes, NotLastOwner
            <6> QED BY <2>2, <5>2, <6>2 DEF Passes, MembershipExists
          <5>3. CASE k.op = "acceptFirmInvitation"
            BY <2>2, <3>2, <5>3 DEF Passes, CanAccept, CallShape
          <5> QED BY <5>1, <5>2, <5>3 DEF MembershipOps
        <4>3. k.firm \in firms
          BY <4>1, <4>2 DEF RowsOfFirms
        <4>4. member[k.firm][k.user].status = "active" => member[k.firm][k.user].role # "firm_owner"
          <5>1. CASE k.op = "inviteFirmStaff"
            BY <2>2, <5>1 DEF Passes, CanInviteStaff
          <5>2. CASE k.op \in {"updateFirmStaffRole", "revokeFirmStaff"}
            <6>1. k.stage = "read"
              BY <1>2, <2>2, <5>2, <4>3, OwnerCountIsOne DEF Passes, NotLastOwner
            <6> QED BY <5>2, <6>1, NextStageTyped DEF HasSecondQuery, IsActiveOwner
          <5>3. CASE k.op = "acceptFirmInvitation"
            BY <2>2, <3>2, <5>3 DEF Passes, CanAccept, CallShape
          <5> QED BY <5>1, <5>2, <5>3 DEF MembershipOps
        <4>5. member[k.firm][k.user].role = "firm_owner" => member[k.firm][k.user].status = "active"
          BY <4>1, <4>3 DEF OneActiveOwner
        <4> QED BY <4>2, <4>4, <4>5
      <3>5. CreatesInvitation(next)
        BY <3>1, NextStageTyped DEF CreatesInvitation
      <3>6. ConsentRead(next)
        <4>1. k.op = "createClientCompany" => <<k.firm, k.actor>> \in joined
          BY <3>2 DEF ConsentRead
        <4>2. CASE k.op = "assignStaffToCompany"
          <5>1. k.firm \in Firms /\ k.user \in Users /\ k.company \in Companies
            BY <3>2, <4>2 DEF CallShape
          <5>2. k.stage = "read" => <<k.firm, k.company>> \in engaged
            BY <2>2, <4>2, <5>1, NoneAssumption
            DEF Passes, BelongsToFirm, ConsentOnBothSides
          <5>3. k.stage = "read" => NextStage(k) = "reread"
            BY <4>2 DEF NextStage, HasSecondQuery
          <5>4. k.stage = "reread" =>
                  /\ <<k.firm, k.company>> \in engaged
                  /\ <<k.firm, k.user>> \in joined
            BY <2>2, <3>2, <4>2, <5>1
            DEF ConsentRead, Passes, IsActiveMember, RowsOfFirms
          <5> QED BY <1>2, <3>1, <4>2, <5>2, <5>3, <5>4 DEF ConsentRead
        <4>3. k.op = "revokeAssignment" => assignment[<<k.firm, k.user, k.company>>] # "none"
          BY <2>2 DEF Passes, AssignmentExists
        <4>4. k.op = "respondToClientInvitation" =>
                /\ invitation[k.inv].status # "none"
                /\ ownerOf[invitation[k.inv].company] = k.actor
          BY <2>2 DEF Passes, CanRespond
        <4> QED BY <3>1, <4>1, <4>2, <4>3, <4>4 DEF ConsentRead
      <3> HIDE DEF next
      <3> QED BY <3>3, <3>4, <3>5, <3>6
    <2> QED BY <2>1, <2>2
  <1>7. InFlight'
    <2> HIDE DEF next
    <2> SUFFICES ASSUME NEW t \in Slots
                 PROVE  /\ CallShape(call[t])' /\ NoOwnerTargeted(call[t])'
                        /\ CreatesInvitation(call[t])' /\ ConsentRead(call[t])'
      BY DEF InFlight
    <2>1. CASE t = s
      <3>1. call'[t] = next
        BY <1>1, <2>1 DEF RowsTyped
      <3> QED
        BY <1>1, <1>6, <3>1
        DEF CallShape, NoOwnerTargeted, CreatesInvitation, ConsentRead
    <2>2. CASE t # s
      <3>1. call'[t] = call[t]
        BY <1>1, <2>2 DEF RowsTyped
      <3> QED
        BY <1>1, <3>1
        DEF InFlight, CallShape, NoOwnerTargeted, CreatesInvitation, ConsentRead
    <2> QED BY <2>1, <2>2
  <1> QED BY <1>4, <1>5, <1>7

-----------------------------------------------------------------------------
(* The writes, one lemma each *)

(* A request that is about to write is typed as its method needs. *)
LEMMA WriterTyped ==
  ASSUME IInv, NEW s \in Slots
  PROVE  /\ call[s] \in Call /\ NoCall \in Call
         /\ CallShape(call[s]) /\ NoOwnerTargeted(call[s])
         /\ CreatesInvitation(call[s]) /\ ConsentRead(call[s])
  BY NoCallTyped DEF IInv, RowsTyped, InFlight

(* Founding a firm: its rows were all empty, so the founder is its only owner. *)
LEMMA CreateFirmKeepsIInv ==
  ASSUME IInv, NEW u \in Users, NEW f \in Firms, CreateFirm(u, f)
  PROVE  IInv'
  <1> USE DEF IInv
  <1>1. RowsTyped'
    BY DEF CreateFirm, RowsTyped, Membership, FirmRoles
  <1>2. \A g \in Firms, v \in Users :
          member'[g][v] = IF g = f /\ v = u
                          THEN [status |-> "active", role |-> "firm_owner"]
                          ELSE member[g][v]
    BY DEF CreateFirm, RowsTyped
  <1>3. ASSUME NEW v \in Users
        PROVE  member[f][v].status = "none" /\ member[f][v].role = "none"
    <2>1. member[f][v].status = "none"
      BY DEF CreateFirm, RowsOfFirms
    <2>2. member[f][v] \in Membership
      BY DEF RowsTyped
    <2> QED BY <2>1, <2>2 DEF Membership
  <1>4. OneActiveOwner'
    <2> SUFFICES ASSUME NEW g \in firms'
                 PROVE  \E w \in Users :
                          /\ member'[g][w].status = "active"
                          /\ \A v \in Users : member'[g][v].role = "firm_owner" <=> v = w
      BY DEF OneActiveOwner
    <2>1. CASE g = f
      BY <1>2, <1>3, <2>1
    <2>2. CASE g # f
      <3>1. g \in firms /\ g \in Firms
        BY <2>2 DEF CreateFirm, RowsTyped
      <3> QED BY <1>2, <2>2, <3>1 DEF OneActiveOwner
    <2> QED BY <2>1, <2>2
  <1>5. ConsentOnBothSides'
    BY DEF CreateFirm, ConsentOnBothSides
  <1>6. RowsOfFirms'
    <2> SUFFICES ASSUME NEW g \in Firms, NEW v \in Users
                 PROVE  /\ member'[g][v].status # "none" => g \in firms'
                        /\ member'[g][v].status = "active" => <<g, v>> \in joined'
      BY DEF RowsOfFirms
    <2>1. firms' = firms \cup {f} /\ joined' = joined \cup {<<f, u>>}
      BY DEF CreateFirm
    <2>2. CASE g = f /\ v = u
      BY <2>1, <2>2
    <2>3. CASE ~(g = f /\ v = u)
      BY <1>2, <2>1, <2>3 DEF RowsOfFirms
    <2> QED BY <2>2, <2>3
  <1>7. TablesGrow
    BY <1>2, <1>3 DEF CreateFirm, TablesGrow
  <1>8. InFlight'
    <2>1. CASE Slots = {}
      BY <2>1 DEF InFlight
    <2>2. CASE Slots # {}
      BY <1>7, <2>2, InFlightKept DEF CreateFirm
    <2> QED BY <2>1, <2>2
  <1> QED BY <1>1, <1>4, <1>5, <1>6, <1>8

(* An invitation leaves the owner's row alone: the row it updates is not the
   owner's, and the row it creates did not exist. *)
LEMMA InviteFirmStaffKeepsIInv ==
  ASSUME IInv, NEW s \in Slots, InviteFirmStaff(s)
  PROVE  IInv'
  <1> USE DEF IInv
  <1> DEFINE k == call[s]
  <1>1. call' = [call EXCEPT ![s] = NoCall] /\ k.op = "inviteFirmStaff"
        /\ k.stage \in {"write", "create"}
    BY DEF InviteFirmStaff, Writing
  <1>2. k.firm \in firms /\ k.firm \in Firms /\ k.user \in Users /\ k.dto \in AssignableRoles
    BY <1>1, WriterTyped DEF CallShape, FirmOps, MembershipOps
  <1>3. k.dto # "firm_owner" /\ k.dto \in FirmRoles
    BY <1>2, RolesAssumption DEF FirmRoles
  <1>4. CASE UNCHANGED member
    <2>1. RowsTyped'
      BY <1>1, <1>4, WriterTyped DEF InviteFirmStaff, RowsTyped
    <2>2. OneActiveOwner' /\ ConsentOnBothSides' /\ RowsOfFirms' /\ TablesGrow
      BY <1>4 DEF InviteFirmStaff, OneActiveOwner, ConsentOnBothSides, RowsOfFirms, TablesGrow
    <2> QED BY <1>1, <2>1, <2>2, InFlightKept
  <1>5. CASE ~UNCHANGED member
    <2>1. /\ member' = [member EXCEPT ![k.firm][k.user] =
                          [status |-> "pending", role |-> k.dto]]
          /\ k.stage = "create" => member[k.firm][k.user].status = "none"
      BY <1>5 DEF InviteFirmStaff
    <2>2. \A g \in Firms, v \in Users :
            member'[g][v] = IF g = k.firm /\ v = k.user
                            THEN [status |-> "pending", role |-> k.dto]
                            ELSE member[g][v]
      BY <2>1, <1>2 DEF RowsTyped
    <2>3. member[k.firm][k.user].role # "firm_owner"
      <3>1. CASE k.stage = "create"
        <4>1. member[k.firm][k.user] \in Membership
          BY <1>2 DEF RowsTyped
        <4> QED BY <2>1, <3>1, <4>1 DEF Membership
      <3>2. CASE k.stage # "create"
        BY <1>1, <3>2, WriterTyped DEF NoOwnerTargeted, MembershipOps
      <3> QED BY <3>1, <3>2
    <2>4. RowsTyped'
      <3>1. [status |-> "pending", role |-> k.dto] \in Membership
        BY <1>3 DEF Membership
      <3> QED BY <1>1, <2>1, <3>1, WriterTyped DEF InviteFirmStaff, RowsTyped
    <2>5. OneActiveOwner'
      <3> SUFFICES ASSUME NEW g \in firms
                   PROVE  \E w \in Users :
                            /\ member'[g][w].status = "active"
                            /\ \A v \in Users : member'[g][v].role = "firm_owner" <=> v = w
        BY DEF OneActiveOwner, InviteFirmStaff
      <3>1. PICK w \in Users :
              /\ member[g][w].status = "active"
              /\ \A v \in Users : member[g][v].role = "firm_owner" <=> v = w
        BY DEF OneActiveOwner
      <3>2. g \in Firms
        BY DEF RowsTyped
      <3>3. ~(g = k.firm /\ w = k.user)
        BY <2>3, <3>1
      <3> QED BY <1>3, <2>2, <2>3, <3>1, <3>2, <3>3
    <2>6. ConsentOnBothSides'
      BY DEF InviteFirmStaff, ConsentOnBothSides
    <2>7. RowsOfFirms' /\ TablesGrow
      BY <1>2, <1>3, <2>2 DEF InviteFirmStaff, RowsOfFirms, TablesGrow
    <2> QED BY <1>1, <2>4, <2>5, <2>6, <2>7, InFlightKept
  <1> QED BY <1>4, <1>5

(* A role change writes an assignable role, never over the owner's. *)
LEMMA UpdateFirmStaffRoleKeepsIInv ==
  ASSUME IInv, NEW s \in Slots, UpdateFirmStaffRole(s)
  PROVE  IInv'
  <1> USE DEF IInv
  <1> DEFINE k == call[s]
  <1>1. call' = [call EXCEPT ![s] = NoCall] /\ k.op = "updateFirmStaffRole" /\ k.stage = "write"
    BY WriterTyped DEF UpdateFirmStaffRole, Writing, CreatesInvitation
  <1>2. k.firm \in firms /\ k.firm \in Firms /\ k.user \in Users /\ k.dto \in AssignableRoles
    BY <1>1, WriterTyped DEF CallShape, FirmOps, MembershipOps
  <1>3. k.dto # "firm_owner" /\ k.dto \in FirmRoles
    BY <1>2, RolesAssumption DEF FirmRoles
  <1>4. /\ member[k.firm][k.user].status # "none"
        /\ member[k.firm][k.user].role # "firm_owner"
    BY <1>1, WriterTyped DEF NoOwnerTargeted, MembershipOps
  <1>5. \A g \in Firms, v \in Users :
          /\ member'[g][v].status = member[g][v].status
          /\ member'[g][v].role = IF g = k.firm /\ v = k.user THEN k.dto ELSE member[g][v].role
    BY <1>2 DEF UpdateFirmStaffRole, RowsTyped, Membership
  <1>6. RowsTyped'
    <2>1. [status |-> member[k.firm][k.user].status, role |-> k.dto] \in Membership
      <3>1. member[k.firm][k.user] \in Membership
        BY <1>2 DEF RowsTyped
      <3> QED BY <1>3, <1>4, <3>1 DEF Membership
    <2> QED BY <1>1, <2>1, WriterTyped DEF UpdateFirmStaffRole, RowsTyped
  <1>7. OneActiveOwner'
    <2> SUFFICES ASSUME NEW g \in firms
                 PROVE  \E w \in Users :
                          /\ member'[g][w].status = "active"
                          /\ \A v \in Users : member'[g][v].role = "firm_owner" <=> v = w
      BY DEF OneActiveOwner, UpdateFirmStaffRole
    <2>1. PICK w \in Users :
            /\ member[g][w].status = "active"
            /\ \A v \in Users : member[g][v].role = "firm_owner" <=> v = w
      BY DEF OneActiveOwner
    <2>2. g \in Firms
      BY DEF RowsTyped
    <2> QED BY <1>3, <1>4, <1>5, <2>1, <2>2
  <1>8. ConsentOnBothSides'
    BY DEF UpdateFirmStaffRole, ConsentOnBothSides
  <1>9. RowsOfFirms' /\ TablesGrow
    <2>1. UNCHANGED <<firms, companies, ownerOf, firmOf, assignment, invitation, joined, engaged>>
      BY DEF UpdateFirmStaffRole
    <2>2. RowsOfFirms'
      BY <1>5, <2>1 DEF RowsOfFirms
    <2>3. TablesGrow
      BY <1>3, <1>5, <2>1 DEF TablesGrow
    <2> QED BY <2>2, <2>3
  <1> QED BY <1>1, <1>6, <1>7, <1>8, <1>9, InFlightKept

(* Revoking a membership, or accepting an invitation to one: the status changes,
   the role stays, and the row is not the owner's. *)
LEMMA StatusChangeKeepsOwner ==
  ASSUME IInv, NEW s \in Slots, NEW st \in {"active", "revoked"},
         call[s].op \in {"revokeFirmStaff", "acceptFirmInvitation"},
         call[s].stage = "write", firms' = firms, joined \subseteq joined',
         st = "active" => <<call[s].firm, call[s].user>> \in joined',
         member' = [member EXCEPT ![call[s].firm][call[s].user] =
                      [status |-> st, role |-> @.role]]
  PROVE  /\ member' \in [Firms -> [Users -> Membership]]
         /\ OneActiveOwner' /\ RowsOfFirms'
         /\ \A f \in Firms, u \in Users :
              member[f][u].status # "none" =>
                /\ member'[f][u].status # "none"
                /\ member[f][u].role # "firm_owner" => member'[f][u].role # "firm_owner"
  <1> USE DEF IInv
  <1> DEFINE k == call[s]
  <1>1. k.firm \in Firms /\ k.user \in Users
        /\ member[k.firm][k.user].status # "none"
        /\ member[k.firm][k.user].role # "firm_owner"
    BY WriterTyped DEF CallShape, NoOwnerTargeted, MembershipOps
  <1>2. k.firm \in firms
    BY <1>1 DEF RowsOfFirms
  <1>3. \A g \in Firms, v \in Users :
          /\ member'[g][v].role = member[g][v].role
          /\ member'[g][v].status =
               IF g = k.firm /\ v = k.user THEN st ELSE member[g][v].status
    BY <1>1 DEF RowsTyped
  <1>4. member' \in [Firms -> [Users -> Membership]]
    <2>1. [status |-> st, role |-> member[k.firm][k.user].role] \in Membership
      <3>1. member[k.firm][k.user] \in Membership
        BY <1>1 DEF RowsTyped
      <3> QED BY <1>1, <3>1 DEF Membership
    <2> QED BY <1>1, <2>1 DEF RowsTyped
  <1>5. OneActiveOwner'
    <2> SUFFICES ASSUME NEW g \in firms
                 PROVE  \E w \in Users :
                          /\ member'[g][w].status = "active"
                          /\ \A v \in Users : member'[g][v].role = "firm_owner" <=> v = w
      BY DEF OneActiveOwner
    <2>1. PICK w \in Users :
            /\ member[g][w].status = "active"
            /\ \A v \in Users : member[g][v].role = "firm_owner" <=> v = w
      BY DEF OneActiveOwner
    <2>2. g \in Firms
      BY DEF RowsTyped
    <2>3. ~(g = k.firm /\ w = k.user)
      BY <1>1, <2>1
    <2>4. member'[g][w].status = "active"
      BY <1>3, <2>1, <2>2, <2>3
    <2>5. \A v \in Users : member'[g][v].role = "firm_owner" <=> v = w
      BY <1>3, <2>1, <2>2
    <2> QED BY <2>4, <2>5
  <1>6. RowsOfFirms'
    <2> SUFFICES ASSUME NEW g \in Firms, NEW v \in Users
                 PROVE  /\ member'[g][v].status # "none" => g \in firms
                        /\ member'[g][v].status = "active" => <<g, v>> \in joined'
      BY DEF RowsOfFirms
    <2>1. CASE g = k.firm /\ v = k.user
      BY <1>2, <1>3, <2>1
    <2>2. CASE ~(g = k.firm /\ v = k.user)
      BY <1>3, <2>2 DEF RowsOfFirms
    <2> QED BY <2>1, <2>2
  <1>7. \A f \in Firms, u \in Users :
          member[f][u].status # "none" =>
            /\ member'[f][u].status # "none"
            /\ member[f][u].role # "firm_owner" => member'[f][u].role # "firm_owner"
    BY <1>3
  <1> QED BY <1>4, <1>5, <1>6, <1>7

LEMMA RevokeFirmStaffKeepsIInv ==
  ASSUME IInv, NEW s \in Slots, RevokeFirmStaff(s)
  PROVE  IInv'
  <1> USE DEF IInv
  <1>1. call' = [call EXCEPT ![s] = NoCall] /\ call[s].op = "revokeFirmStaff"
        /\ call[s].stage = "write"
    BY WriterTyped DEF RevokeFirmStaff, Writing, CreatesInvitation
  <1>2. /\ member' = [member EXCEPT ![call[s].firm][call[s].user] =
                        [status |-> "revoked", role |-> @.role]]
        /\ UNCHANGED <<firms, companies, ownerOf, firmOf, invitation, joined, engaged>>
    BY DEF RevokeFirmStaff
  <1>3. /\ member' \in [Firms -> [Users -> Membership]]
        /\ OneActiveOwner' /\ RowsOfFirms'
        /\ \A f \in Firms, u \in Users :
             member[f][u].status # "none" =>
               /\ member'[f][u].status # "none"
               /\ member[f][u].role # "firm_owner" => member'[f][u].role # "firm_owner"
    BY <1>1, <1>2, StatusChangeKeepsOwner
  <1>4. /\ assignment' \in [Triples -> {"none", "active", "revoked"}]
        /\ \A t \in Triples : assignment'[t] = "none" <=> assignment[t] = "none"
    BY DEF RevokeFirmStaff, RowsTyped
  <1>5. RowsTyped'
    BY <1>1, <1>2, <1>3, <1>4, WriterTyped DEF RowsTyped
  <1>6. ConsentOnBothSides'
    BY <1>2, <1>4 DEF ConsentOnBothSides, Triples
  <1>7. TablesGrow
    BY <1>2, <1>3, <1>4 DEF TablesGrow
  <1> QED BY <1>1, <1>3, <1>5, <1>6, <1>7, InFlightKept

LEMMA AcceptFirmInvitationKeepsIInv ==
  ASSUME IInv, NEW s \in Slots, AcceptFirmInvitation(s)
  PROVE  IInv'
  <1> USE DEF IInv
  <1> DEFINE k == call[s]
  <1>1. call' = [call EXCEPT ![s] = NoCall] /\ k.op = "acceptFirmInvitation"
        /\ k.stage = "write"
    BY WriterTyped DEF AcceptFirmInvitation, Writing, CreatesInvitation
  <1>2. /\ member' = [member EXCEPT ![k.firm][k.user] = [status |-> "active", role |-> @.role]]
        /\ joined' = joined \cup {<<k.firm, k.user>>}
        /\ UNCHANGED <<firms, companies, ownerOf, firmOf, assignment, invitation, engaged>>
    BY DEF AcceptFirmInvitation
  <1>3. k.firm \in Firms /\ k.user \in Users
    BY <1>1, WriterTyped DEF CallShape, MembershipOps
  <1>4. /\ member' \in [Firms -> [Users -> Membership]]
        /\ OneActiveOwner' /\ RowsOfFirms'
        /\ \A f \in Firms, u \in Users :
             member[f][u].status # "none" =>
               /\ member'[f][u].status # "none"
               /\ member[f][u].role # "firm_owner" => member'[f][u].role # "firm_owner"
    BY <1>1, <1>2, StatusChangeKeepsOwner
  <1>5. RowsTyped'
    <2>1. call' \in [Slots -> Call]
      BY <1>1, WriterTyped DEF RowsTyped
    <2>2. joined' \subseteq Firms \X Users
      BY <1>2, <1>3 DEF RowsTyped
    <2> QED BY <1>2, <1>4, <2>1, <2>2 DEF RowsTyped
  <1>6. ConsentOnBothSides'
    BY <1>2 DEF ConsentOnBothSides
  <1>7. TablesGrow
    BY <1>2, <1>4 DEF TablesGrow
  <1> QED BY <1>1, <1>4, <1>5, <1>6, <1>7, InFlightKept

(* The remaining writes leave memberships alone. *)
LEMMA MembershipsUntouched ==
  ASSUME IInv, UNCHANGED <<firms, member, joined>>
  PROVE  OneActiveOwner' /\ RowsOfFirms'
  BY DEF IInv, OneActiveOwner, RowsOfFirms

LEMMA CreateCompanyKeepsIInv ==
  ASSUME IInv, NEW s \in Slots, CreateCompany(s)
  PROVE  IInv'
  <1> USE DEF IInv
  <1>1. call' = [call EXCEPT ![s] = NoCall] /\ call[s].op = "createCompany"
        /\ UNCHANGED <<firms, member, firmOf, assignment, invitation, joined, engaged>>
    BY DEF CreateCompany, Writing
  <1>2. call[s].company \in Companies /\ call[s].actor \in Users
    BY <1>1, WriterTyped DEF CallShape
  <1>3. RowsTyped'
    BY <1>1, <1>2, WriterTyped DEF CreateCompany, RowsTyped
  <1>4. ConsentOnBothSides'
    BY <1>1 DEF ConsentOnBothSides
  <1>5. \A c \in Companies : ownerOf[c] # None => ownerOf'[c] = ownerOf[c]
    BY <1>2 DEF CreateCompany, RowsTyped
  <1>6. TablesGrow
    BY <1>1, <1>5 DEF TablesGrow
  <1> QED BY <1>1, <1>3, <1>4, <1>6, MembershipsUntouched, InFlightKept

LEMMA CreateClientCompanyKeepsIInv ==
  ASSUME IInv, NEW s \in Slots, CreateClientCompany(s)
  PROVE  IInv'
  <1> USE DEF IInv
  <1> DEFINE k == call[s]
             t == <<k.firm, k.actor, k.company>>
  <1>1. call' = [call EXCEPT ![s] = NoCall] /\ k.op = "createClientCompany"
        /\ UNCHANGED <<firms, member, ownerOf, invitation, joined>>
    BY DEF CreateClientCompany, Writing
  <1>2. k.firm \in Firms /\ k.actor \in Users /\ k.company \in Companies
        /\ <<k.firm, k.actor>> \in joined
    BY <1>1, WriterTyped DEF CallShape, ConsentRead, FirmOps, RowsTyped
  <1>3. CASE k.company \in companies
    <2>1. UNCHANGED <<companies, firmOf, assignment, engaged>>
      BY <1>3 DEF CreateClientCompany
    <2>2. RowsTyped' /\ ConsentOnBothSides' /\ TablesGrow
      BY <1>1, <2>1, WriterTyped DEF RowsTyped, ConsentOnBothSides, TablesGrow
    <2> QED BY <1>1, <2>2, MembershipsUntouched, InFlightKept
  <1>4. CASE k.company \notin companies
    <2>1. /\ companies' = companies \cup {k.company}
          /\ firmOf' = [firmOf EXCEPT ![k.company] = k.firm]
          /\ assignment' = [assignment EXCEPT ![t] = "active"]
          /\ engaged' = engaged \cup {<<k.firm, k.company>>}
      BY <1>4 DEF CreateClientCompany
    <2>2. t \in Triples
      BY <1>2 DEF Triples
    <2>3. RowsTyped'
      BY <1>1, <1>2, <2>1, <2>2, WriterTyped DEF RowsTyped
    <2>4. ConsentOnBothSides'
      <3>1. \A x \in Triples : assignment'[x] = IF x = t THEN "active" ELSE assignment[x]
        BY <2>1, <2>2 DEF RowsTyped
      <3>2. \A c \in Companies : firmOf'[c] = IF c = k.company THEN k.firm ELSE firmOf[c]
        BY <2>1 DEF RowsTyped
      <3>3. ASSUME NEW f \in Firms, NEW u \in Users, NEW c \in Companies,
                   assignment'[<<f, u, c>>] # "none"
            PROVE  <<f, u>> \in joined' /\ <<f, c>> \in engaged'
        <4>1. <<f, u, c>> \in Triples
          BY DEF Triples
        <4> QED BY <1>1, <1>2, <2>1, <3>1, <3>3, <4>1 DEF ConsentOnBothSides
      <3>4. \A c \in Companies : firmOf'[c] # None => <<firmOf'[c], c>> \in engaged'
        BY <2>1, <3>2 DEF ConsentOnBothSides
      <3> QED BY <3>3, <3>4 DEF ConsentOnBothSides
    <2>5. TablesGrow
      BY <1>1, <2>1, <2>2 DEF TablesGrow, RowsTyped
    <2> QED BY <1>1, <2>3, <2>4, <2>5, MembershipsUntouched, InFlightKept
  <1> QED BY <1>3, <1>4

LEMMA InviteClientCompanyKeepsIInv ==
  ASSUME IInv, NEW s \in Slots, InviteClientCompany(s)
  PROVE  IInv'
  <1> USE DEF IInv
  <1> DEFINE k == call[s]
  <1>1. call' = [call EXCEPT ![s] = NoCall] /\ k.op = "inviteClientCompany"
        /\ UNCHANGED <<firms, member, companies, ownerOf, firmOf, assignment, joined, engaged>>
    BY DEF InviteClientCompany, Writing
  <1>2. k.firm \in Firms /\ k.company \in Companies
    BY <1>1, WriterTyped DEF CallShape, FirmOps, RowsTyped
  <1>3. PICK i \in Invitations :
          /\ invitation[i].status = "none"
          /\ invitation' = [invitation EXCEPT ![i] =
               [status |-> "pending", firm |-> k.firm, company |-> k.company]]
    BY DEF InviteClientCompany
  <1>4. RowsTyped'
    <2>1. [status |-> "pending", firm |-> k.firm, company |-> k.company] \in Invitation
      BY <1>2 DEF Invitation
    <2> QED BY <1>1, <1>3, <2>1, WriterTyped DEF RowsTyped
  <1>5. ConsentOnBothSides'
    BY <1>1 DEF ConsentOnBothSides
  <1>6. TablesGrow
    BY <1>1, <1>3 DEF TablesGrow, RowsTyped
  <1> QED BY <1>1, <1>4, <1>5, <1>6, MembershipsUntouched, InFlightKept

(* An answer is written to a row that exists; an acceptance engages the firm. *)
LEMMA RespondToClientInvitationKeepsIInv ==
  ASSUME IInv, NEW s \in Slots, RespondToClientInvitation(s)
  PROVE  IInv'
  <1> USE DEF IInv
  <1> DEFINE k == call[s]
             row == invitation[k.inv]
  <1>1. call' = [call EXCEPT ![s] = NoCall] /\ k.op = "respondToClientInvitation"
        /\ k.stage = "write"
        /\ UNCHANGED <<firms, member, companies, ownerOf, assignment, joined>>
    BY WriterTyped DEF RespondToClientInvitation, Writing, CreatesInvitation
  <1>2. k.inv \in Invitations /\ row.status # "none"
    BY <1>1, WriterTyped DEF CallShape, ConsentRead
  <1>3. row.firm \in Firms /\ row.company \in Companies
    <2>1. row \in Invitation
      BY <1>2 DEF RowsTyped
    <2> QED BY <1>2, <2>1 DEF Invitation
  <1>4. PICK st \in {"accepted", "declined"} :
          invitation' = [invitation EXCEPT ![k.inv] =
                           [status |-> st, firm |-> row.firm, company |-> row.company]]
    BY DEF RespondToClientInvitation
  <1>5. /\ invitation' \in [Invitations -> Invitation]
        /\ \A i \in Invitations : invitation[i].status # "none" =>
             invitation'[i].status # "none" /\ invitation'[i].company = invitation[i].company
    <2>1. [status |-> st, firm |-> row.firm, company |-> row.company] \in Invitation
      BY <1>3 DEF Invitation
    <2> QED BY <1>2, <1>4, <2>1 DEF RowsTyped
  <1>6. \/ UNCHANGED <<firmOf, engaged>>
        \/ /\ firmOf' = [firmOf EXCEPT ![row.company] = row.firm]
           /\ engaged' = engaged \cup {<<row.firm, row.company>>}
    <2>1. ownerOf[row.company] = k.actor
      BY <1>1, WriterTyped DEF ConsentRead
    <2>2. OwnersWord(k.actor, row) = {<<row.firm, row.company>>}
      BY <2>1 DEF OwnersWord
    <2> QED BY <2>2 DEF RespondToClientInvitation
  <1>7. RowsTyped'
    BY <1>1, <1>3, <1>5, <1>6, WriterTyped DEF RowsTyped
  <1>8. ConsentOnBothSides'
    <2>1. \A c \in Companies :
            firmOf'[c] = firmOf[c] \/ <<firmOf'[c], c>> \in engaged'
      BY <1>3, <1>6 DEF RowsTyped
    <2>2. engaged \subseteq engaged'
      BY <1>6
    <2> QED BY <1>1, <2>1, <2>2 DEF ConsentOnBothSides
  <1>9. TablesGrow
    BY <1>1, <1>5, <1>6 DEF TablesGrow
  <1> QED BY <1>1, <1>7, <1>8, <1>9, MembershipsUntouched, InFlightKept

LEMMA RemoveClientCompanyKeepsIInv ==
  ASSUME IInv, NEW s \in Slots, RemoveClientCompany(s)
  PROVE  IInv'
  <1> USE DEF IInv
  <1>1. call' = [call EXCEPT ![s] = NoCall]
        /\ UNCHANGED <<firms, member, companies, ownerOf, invitation, joined, engaged>>
    BY DEF RemoveClientCompany, Writing
  <1>2. /\ assignment' \in [Triples -> {"none", "active", "revoked"}]
        /\ \A t \in Triples : assignment'[t] = "none" <=> assignment[t] = "none"
    BY DEF RemoveClientCompany, RowsTyped
  <1>3. /\ firmOf' \in [Companies -> Firms \cup {None}]
        /\ \A c \in Companies : firmOf'[c] \in {firmOf[c], None}
    BY DEF RemoveClientCompany, RowsTyped
  <1>4. RowsTyped'
    BY <1>1, <1>2, <1>3, WriterTyped DEF RowsTyped
  <1>5. ConsentOnBothSides'
    BY <1>1, <1>2, <1>3 DEF ConsentOnBothSides, Triples
  <1>6. TablesGrow
    BY <1>1, <1>2 DEF TablesGrow
  <1> QED BY <1>1, <1>4, <1>5, <1>6, MembershipsUntouched, InFlightKept

LEMMA AssignStaffToCompanyKeepsIInv ==
  ASSUME IInv, NEW s \in Slots, AssignStaffToCompany(s)
  PROVE  IInv'
  <1> USE DEF IInv
  <1> DEFINE k == call[s]
             t == <<k.firm, k.user, k.company>>
  <1>1. call' = [call EXCEPT ![s] = NoCall] /\ k.op = "assignStaffToCompany"
        /\ k.stage = "write" /\ assignment' = [assignment EXCEPT ![t] = "active"]
        /\ UNCHANGED <<firms, member, companies, ownerOf, firmOf, invitation, joined, engaged>>
    BY WriterTyped DEF AssignStaffToCompany, Writing, CreatesInvitation
  <1>2. /\ k.firm \in Firms /\ k.user \in Users /\ k.company \in Companies
        /\ <<k.firm, k.user>> \in joined /\ <<k.firm, k.company>> \in engaged
    BY <1>1, WriterTyped DEF CallShape, ConsentRead
  <1>3. t \in Triples
    BY <1>2 DEF Triples
  <1>4. RowsTyped'
    BY <1>1, <1>3, WriterTyped DEF RowsTyped
  <1>5. ConsentOnBothSides'
    BY <1>1, <1>2 DEF ConsentOnBothSides, RowsTyped, Triples
  <1>6. TablesGrow
    BY <1>1, <1>3 DEF TablesGrow, RowsTyped
  <1> QED BY <1>1, <1>4, <1>5, <1>6, MembershipsUntouched, InFlightKept

LEMMA RevokeAssignmentKeepsIInv ==
  ASSUME IInv, NEW s \in Slots, RevokeAssignment(s)
  PROVE  IInv'
  <1> USE DEF IInv
  <1> DEFINE k == call[s]
             t == <<k.firm, k.user, k.company>>
  <1>1. call' = [call EXCEPT ![s] = NoCall] /\ k.op = "revokeAssignment"
        /\ k.stage = "write" /\ assignment' = [assignment EXCEPT ![t] = "revoked"]
        /\ UNCHANGED <<firms, member, companies, ownerOf, firmOf, invitation, joined, engaged>>
    BY WriterTyped DEF RevokeAssignment, Writing, CreatesInvitation
  <1>2. t \in Triples /\ assignment[t] # "none"
    BY <1>1, WriterTyped DEF CallShape, ConsentRead, Triples
  <1>3. \A x \in Triples : assignment'[x] # "none" <=> assignment[x] # "none"
    BY <1>1, <1>2 DEF RowsTyped
  <1>4. RowsTyped'
    BY <1>1, <1>2, WriterTyped DEF RowsTyped
  <1>5. ConsentOnBothSides'
    BY <1>1, <1>3 DEF ConsentOnBothSides, Triples
  <1>6. TablesGrow
    BY <1>1, <1>3 DEF TablesGrow
  <1> QED BY <1>1, <1>4, <1>5, <1>6, MembershipsUntouched, InFlightKept

-----------------------------------------------------------------------------
(* The theorems *)

LEMMA InitIInv == Init => IInv
  <1> SUFFICES ASSUME Init PROVE IInv
    OBVIOUS
  <1>1. RowsTyped
    BY NoCallTyped DEF Init, RowsTyped, Membership, Invitation
  <1>2. OneActiveOwner /\ RowsOfFirms
    BY DEF Init, OneActiveOwner, RowsOfFirms
  <1>3. ConsentOnBothSides
    BY DEF Init, ConsentOnBothSides, Triples
  <1>4. InFlight
    BY DEF Init, InFlight, NoCall, CallShape, NoOwnerTargeted, CreatesInvitation,
           ConsentRead, FirmOps, MembershipOps
  <1> QED BY <1>1, <1>2, <1>3, <1>4 DEF IInv

LEMMA StepKeepsIInv == IInv /\ [Next]_vars => IInv'
  <1> SUFFICES ASSUME IInv, [Next]_vars PROVE IInv'
    OBVIOUS
  <1>1. CASE Next
    <2>1. CASE \E u \in Users, f \in Firms : CreateFirm(u, f)
      BY <2>1, CreateFirmKeepsIInv
    <2>2. ASSUME NEW s \in Slots, Handle(s)
          PROVE  IInv'
      BY <2>2, ArrivalKeepsIInv, ReadKeepsIInv, InviteFirmStaffKeepsIInv,
         UpdateFirmStaffRoleKeepsIInv, RevokeFirmStaffKeepsIInv,
         AcceptFirmInvitationKeepsIInv, CreateCompanyKeepsIInv,
         CreateClientCompanyKeepsIInv, InviteClientCompanyKeepsIInv,
         RespondToClientInvitationKeepsIInv, RemoveClientCompanyKeepsIInv,
         AssignStaffToCompanyKeepsIInv, RevokeAssignmentKeepsIInv DEF Handle
    <2> QED BY <1>1, <2>1, <2>2 DEF Next
  <1>2. CASE UNCHANGED vars
    BY <1>2 DEF vars, tables, IInv, RowsTyped, OneActiveOwner, ConsentOnBothSides, RowsOfFirms,
                InFlight, CallShape, NoOwnerTargeted, CreatesInvitation, ConsentRead
  <1> QED BY <1>1, <1>2

(* firm.service.ts: the invariant of the firms' side holds at all times, whichever        *)
(* requests race.                                                                         *)
THEOREM Inductive == Spec => []IInv
  BY InitIInv, StepKeepsIInv, PTL DEF Spec

(* The tables, the requests and the histories always have their types. *)
THEOREM TypeCorrect == Spec => []TypeOK
  <1> DEFINE Marked == overlapped \in BOOLEAN
  <1>1. Init => Marked
    BY DEF Init
  <1>2. Marked /\ [Next]_vars => Marked'
    BY DEF Next, vars
  <1>3. IInv /\ Marked => TypeOK
    BY DEF IInv, TypeOK
  <1> HIDE DEF Marked
  <1> QED BY <1>1, <1>2, <1>3, Inductive, PTL DEF Spec

(* A firm is never without an owner and never has two, for any number of
   memberships and of invitations, role changes, revocations and acceptances
   racing on them. *)
THEOREM FirmKeepsItsOwner == Spec => []OneActiveOwner
  BY Inductive, PTL DEF IInv

(* Nobody serves a client company without having entered the firm, and no firm
   holds a company or an assignment on one without having created it or its
   owner having accepted, however the requests interleave. *)
THEOREM AccessNeedsConsent == Spec => []ConsentOnBothSides
  BY Inductive, PTL DEF IInv

-----------------------------------------------------------------------------
(* One request at a time *)

(* What a step must do to the tables if nothing overlaps. *)
TablesStaySound ==
  AssignmentsFollowMembership' /\ OnePendingRequest' /\ AnswersKept /\ RevokedKept

LEMMA IdleReadNothing == StillAsRead(NoCall)'
  BY DEF StillAsRead, NoCall

(* The tables as a step leaves them that writes none of them. *)
LEMMA UnwrittenStaysSound ==
  ASSUME AssignmentsFollowMembership, OnePendingRequest, UNCHANGED tables
  PROVE  TablesStaySound
  BY DEF TablesStaySound, AssignmentsFollowMembership, OnePendingRequest, PendingFrom,
         AnswersKept, RevokedKept, tables

(* One membership row written, invitations left alone. *)
LEMMA MembershipStaysSound ==
  ASSUME AssignmentsFollowMembership, OnePendingRequest, UNCHANGED invitation,
         NEW f \in Firms, NEW u \in Users, NEW m,
         \A g \in Firms, v \in Users :
           member'[g][v] = IF g = f /\ v = u THEN m ELSE member[g][v],
         \A t \in Triples : assignment'[t] = "active" => assignment[t] = "active",
         m.status # "active" => \A c \in Companies : assignment'[<<f, u, c>>] # "active",
         member[f][u].status = "revoked" => m.status # "active"
  PROVE  TablesStaySound
  <1>1. AssignmentsFollowMembership'
    <2> SUFFICES ASSUME NEW g \in Firms, NEW v \in Users, NEW c \in Companies,
                        assignment'[<<g, v, c>>] = "active"
                 PROVE  member'[g][v].status = "active"
      BY DEF AssignmentsFollowMembership
    <2>1. <<g, v, c>> \in Triples
      BY DEF Triples
    <2>2. member[g][v].status = "active"
      BY <2>1 DEF AssignmentsFollowMembership
    <2>3. CASE g = f /\ v = u
      BY <2>3
    <2>4. CASE ~(g = f /\ v = u)
      BY <2>2, <2>4
    <2> QED BY <2>3, <2>4
  <1>2. OnePendingRequest' /\ AnswersKept
    BY DEF OnePendingRequest, PendingFrom, AnswersKept
  <1>3. RevokedKept
    BY DEF RevokedKept
  <1> QED BY <1>1, <1>2, <1>3 DEF TablesStaySound

LEMMA StaffWritesStaySound ==
  ASSUME IInv, NEW s \in Slots, StillAsRead(call[s]),
         AssignmentsFollowMembership, OnePendingRequest,
         InviteFirmStaff(s) \/ UpdateFirmStaffRole(s) \/ RevokeFirmStaff(s) \/ AcceptFirmInvitation(s)
  PROVE  TablesStaySound
  <1> DEFINE k == call[s]
  <1>1. /\ k.op \in MembershipOps /\ k.stage \in {"create", "write"}
        /\ UNCHANGED invitation
    BY DEF InviteFirmStaff, UpdateFirmStaffRole, RevokeFirmStaff, AcceptFirmInvitation,
           Writing, MembershipOps
  <1>2. k.firm \in Firms /\ k.user \in Users
    BY <1>1, WriterTyped DEF CallShape, MembershipOps
  <1>3. \A c \in Companies : assignment[<<k.firm, k.user, c>>] = "active"
                               => member[k.firm][k.user].status = "active"
    BY <1>2 DEF AssignmentsFollowMembership
  <1>4. CASE InviteFirmStaff(s)
    <2>1. member[k.firm][k.user].status # "active" /\ UNCHANGED assignment
      BY <1>1, <1>4 DEF StillAsRead, CanInviteStaff, InviteFirmStaff, Writing
    <2>2. CASE UNCHANGED member
      <3>1. UNCHANGED tables
        BY <1>4, <2>2 DEF InviteFirmStaff, tables
      <3> QED BY <3>1, UnwrittenStaysSound
    <2>3. CASE member' = [member EXCEPT ![k.firm][k.user] = [status |-> "pending", role |-> k.dto]]
      <3>1. PICK m \in {[status |-> "pending", role |-> k.dto]} : m.status = "pending"
        OBVIOUS
      <3>2. member' = [member EXCEPT ![k.firm][k.user] = m]
        BY <2>3, <3>1
      <3>3. \A g \in Firms, v \in Users :
              member'[g][v] = IF g = k.firm /\ v = k.user THEN m ELSE member[g][v]
        BY <1>2, <3>2 DEF IInv, RowsTyped
      <3> HIDE DEF k
      <3> QED BY <1>1, <1>2, <1>3, <2>1, <3>1, <3>3, MembershipStaysSound
    <2> QED BY <1>4, <2>2, <2>3 DEF InviteFirmStaff
  <1>5. CASE UpdateFirmStaffRole(s)
    <2>1. PICK m \in {[status |-> member[k.firm][k.user].status, role |-> k.dto]} :
            m.status = member[k.firm][k.user].status
      OBVIOUS
    <2>2. member' = [member EXCEPT ![k.firm][k.user] = m] /\ UNCHANGED assignment
      BY <1>2, <1>5, <2>1 DEF UpdateFirmStaffRole, IInv, RowsTyped
    <2>3. \A g \in Firms, v \in Users :
            member'[g][v] = IF g = k.firm /\ v = k.user THEN m ELSE member[g][v]
      BY <1>2, <2>2 DEF IInv, RowsTyped
    <2> HIDE DEF k
    <2> QED BY <1>1, <1>2, <1>3, <2>1, <2>2, <2>3, MembershipStaysSound
  <1>6. CASE RevokeFirmStaff(s)
    <2>1. PICK m \in {[status |-> "revoked", role |-> member[k.firm][k.user].role]} :
            m.status = "revoked"
      OBVIOUS
    <2>2. member' = [member EXCEPT ![k.firm][k.user] = m]
      BY <1>2, <1>6, <2>1 DEF RevokeFirmStaff, IInv, RowsTyped
    <2>3. \A g \in Firms, v \in Users :
            member'[g][v] = IF g = k.firm /\ v = k.user THEN m ELSE member[g][v]
      BY <1>2, <2>2 DEF IInv, RowsTyped
    <2>4. /\ \A t \in Triples : assignment'[t] = "active" => assignment[t] = "active"
          /\ \A c \in Companies : assignment'[<<k.firm, k.user, c>>] # "active"
      BY <1>2, <1>6 DEF RevokeFirmStaff, Triples
    <2> HIDE DEF k
    <2> QED BY <1>1, <1>2, <2>1, <2>3, <2>4, MembershipStaysSound
  <1>7. CASE AcceptFirmInvitation(s)
    <2>1. PICK m \in {[status |-> "active", role |-> member[k.firm][k.user].role]} :
            m.status = "active"
      OBVIOUS
    <2>2. member' = [member EXCEPT ![k.firm][k.user] = m] /\ UNCHANGED assignment
      BY <1>2, <1>7, <2>1 DEF AcceptFirmInvitation, IInv, RowsTyped
    <2>3. \A g \in Firms, v \in Users :
            member'[g][v] = IF g = k.firm /\ v = k.user THEN m ELSE member[g][v]
      BY <1>2, <2>2 DEF IInv, RowsTyped
    <2>4. member[k.firm][k.user].status = "pending"
      <3>1. k.op = "acceptFirmInvitation" /\ k.stage = "write"
        BY <1>1, <1>7, WriterTyped DEF AcceptFirmInvitation, Writing, CreatesInvitation
      <3> QED BY <3>1, WriterTyped DEF StillAsRead, CanAccept, CallShape
    <2> HIDE DEF k
    <2> QED BY <1>1, <1>2, <2>1, <2>2, <2>3, <2>4, MembershipStaysSound
  <1> QED BY <1>4, <1>5, <1>6, <1>7

(* An assignment written for an active member, or made to serve less. *)
LEMMA AssignmentStaysSound ==
  ASSUME AssignmentsFollowMembership, OnePendingRequest, UNCHANGED <<member, invitation>>,
         \A f \in Firms, u \in Users, c \in Companies :
           /\ assignment'[<<f, u, c>>] = "active"
           /\ assignment[<<f, u, c>>] # "active"
           => member[f][u].status = "active"
  PROVE  TablesStaySound
  BY DEF TablesStaySound, AssignmentsFollowMembership, OnePendingRequest, PendingFrom,
         AnswersKept, RevokedKept

LEMMA ClientWritesStaySound ==
  ASSUME IInv, NEW s \in Slots, StillAsRead(call[s]),
         AssignmentsFollowMembership, OnePendingRequest,
         \/ CreateCompany(s) \/ CreateClientCompany(s) \/ RemoveClientCompany(s)
         \/ AssignStaffToCompany(s) \/ RevokeAssignment(s)
  PROVE  TablesStaySound
  <1> DEFINE k == call[s]
  <1>1. UNCHANGED <<member, invitation>>
    BY DEF CreateCompany, CreateClientCompany, RemoveClientCompany, AssignStaffToCompany,
           RevokeAssignment
  <1>2. CASE CreateCompany(s)
    BY <1>1, <1>2, AssignmentStaysSound DEF CreateCompany
  <1>3. CASE CreateClientCompany(s)
    <2>1. k.op = "createClientCompany" /\ member[k.firm][k.actor].status = "active"
      BY <1>3 DEF CreateClientCompany, Writing, StillAsRead
    <2>2. k.firm \in Firms /\ k.actor \in Users /\ k.company \in Companies
      BY <2>1, WriterTyped DEF CallShape, FirmOps, IInv, RowsTyped
    <2>3. \/ assignment' = assignment
          \/ assignment' = [assignment EXCEPT ![<<k.firm, k.actor, k.company>>] = "active"]
      BY <1>3 DEF CreateClientCompany
    <2>4. \A f \in Firms, u \in Users, c \in Companies :
            assignment'[<<f, u, c>>] = assignment[<<f, u, c>>] \/ (f = k.firm /\ u = k.actor)
      BY <2>2, <2>3 DEF IInv, RowsTyped, Triples
    <2> QED BY <1>1, <2>1, <2>4, AssignmentStaysSound
  <1>4. CASE RemoveClientCompany(s)
    <2>1. \A t \in Triples : assignment'[t] = "active" => assignment[t] = "active"
      BY <1>4 DEF RemoveClientCompany
    <2> QED BY <1>1, <2>1, AssignmentStaysSound DEF Triples
  <1>5. CASE AssignStaffToCompany(s)
    <2>1. k.op = "assignStaffToCompany" /\ k.stage = "write"
      BY <1>5, WriterTyped DEF AssignStaffToCompany, Writing, CreatesInvitation
    <2>2. member[k.firm][k.user].status = "active"
      BY <2>1 DEF StillAsRead, IsActiveMember
    <2>3. k.firm \in Firms /\ k.user \in Users /\ k.company \in Companies
      BY <2>1, WriterTyped DEF CallShape
    <2>4. \A f \in Firms, u \in Users, c \in Companies :
            assignment'[<<f, u, c>>] = assignment[<<f, u, c>>] \/ (f = k.firm /\ u = k.user)
      BY <1>5, <2>3 DEF AssignStaffToCompany, IInv, RowsTyped, Triples
    <2> QED BY <1>1, <2>2, <2>4, AssignmentStaysSound
  <1>6. CASE RevokeAssignment(s)
    <2>1. \A f \in Firms, u \in Users, c \in Companies :
            assignment'[<<f, u, c>>] \in {assignment[<<f, u, c>>], "revoked"}
      BY <1>6 DEF RevokeAssignment, IInv, RowsTyped, Triples
    <2> QED BY <1>1, <2>1, AssignmentStaysSound
  <1> QED BY <1>2, <1>3, <1>4, <1>5, <1>6

(* A request to a company: none was open when it was written. *)
LEMMA InvitationStaysSound ==
  ASSUME IInv, NEW s \in Slots, StillAsRead(call[s]),
         AssignmentsFollowMembership, OnePendingRequest, InviteClientCompany(s)
  PROVE  TablesStaySound
  <1> DEFINE k == call[s]
  <1>1. UNCHANGED <<member, assignment>> /\ k.op = "inviteClientCompany" /\ k.stage = "write"
    BY WriterTyped DEF InviteClientCompany, Writing, CreatesInvitation
  <1>2. PICK i \in Invitations :
          /\ invitation[i].status = "none"
          /\ invitation' = [invitation EXCEPT ![i] =
               [status |-> "pending", firm |-> k.firm, company |-> k.company]]
    BY DEF InviteClientCompany
  <1>3. /\ invitation'[i].firm = k.firm /\ invitation'[i].company = k.company
        /\ \A j \in Invitations : j # i => invitation'[j] = invitation[j]
    BY <1>2 DEF IInv, RowsTyped
  <1>4. PendingFrom(k.firm, k.company) = {}
    BY <1>1 DEF StillAsRead, NonePending
  <1>5. \A f \in Firms, c \in Companies :
          \A j \in PendingFrom(f, c)' :
            \/ j \in PendingFrom(f, c)
            \/ j = i /\ f = k.firm /\ c = k.company
    BY <1>3 DEF PendingFrom
  <1>6. OnePendingRequest'
    <2> SUFFICES ASSUME NEW f \in Firms, NEW c \in Companies,
                        NEW a \in PendingFrom(f, c)', NEW b \in PendingFrom(f, c)'
                 PROVE  a = b
      BY DEF OnePendingRequest
    <2>1. CASE f = k.firm /\ c = k.company
      BY <1>4, <1>5, <2>1
    <2>2. CASE ~(f = k.firm /\ c = k.company)
      BY <1>5, <2>2 DEF OnePendingRequest
    <2> QED BY <2>1, <2>2
  <1>7. AnswersKept
    BY <1>2, <1>3 DEF AnswersKept
  <1>8. AssignmentsFollowMembership' /\ RevokedKept
    BY <1>1 DEF AssignmentsFollowMembership, RevokedKept
  <1> QED BY <1>6, <1>7, <1>8 DEF TablesStaySound

(* An answer is written to a request that is still pending. *)
LEMMA AnswerStaysSound ==
  ASSUME IInv, NEW s \in Slots, StillAsRead(call[s]),
         AssignmentsFollowMembership, OnePendingRequest, RespondToClientInvitation(s)
  PROVE  TablesStaySound
  <1> DEFINE k == call[s]
  <1>1. /\ UNCHANGED <<member, assignment>>
        /\ k.op = "respondToClientInvitation" /\ k.stage = "write"
    BY WriterTyped DEF RespondToClientInvitation, Writing, CreatesInvitation
  <1>2. k.inv \in Invitations /\ invitation[k.inv].status = "pending"
    BY <1>1, WriterTyped DEF StillAsRead, CallShape
  <1>3. PICK st \in {"accepted", "declined"} :
          invitation' = [invitation EXCEPT ![k.inv] =
            [status |-> st, firm |-> invitation[k.inv].firm, company |-> invitation[k.inv].company]]
    BY DEF RespondToClientInvitation
  <1>4. /\ invitation'[k.inv].status = st
        /\ \A j \in Invitations : j # k.inv => invitation'[j] = invitation[j]
    BY <1>2, <1>3 DEF IInv, RowsTyped
  <1>5. \A f \in Firms, c \in Companies : PendingFrom(f, c)' \subseteq PendingFrom(f, c)
    BY <1>4 DEF PendingFrom
  <1>6. OnePendingRequest'
    BY <1>5 DEF OnePendingRequest
  <1>7. AnswersKept
    BY <1>2, <1>4 DEF AnswersKept
  <1>8. AssignmentsFollowMembership' /\ RevokedKept
    BY <1>1 DEF AssignmentsFollowMembership, RevokedKept
  <1> QED BY <1>6, <1>7, <1>8 DEF TablesStaySound

(* A new firm's rows were all empty, and a request about a row read one that exists. *)
LEMMA NewFirmStaysSound ==
  ASSUME IInv, NEW u \in Users, NEW f \in Firms, CreateFirm(u, f),
         AssignmentsFollowMembership, OnePendingRequest
  PROVE  /\ TablesStaySound
         /\ \A s \in Slots : StillAsRead(call[s]) => StillAsRead(call[s])'
  <1>1. PICK m \in {[status |-> "active", role |-> "firm_owner"]} : m.status = "active"
    OBVIOUS
  <1>2. \A g \in Firms, v \in Users :
          member'[g][v] = IF g = f /\ v = u THEN m ELSE member[g][v]
    <2>1. member' = [member EXCEPT ![f][u] = m]
      BY <1>1 DEF CreateFirm
    <2> QED BY <2>1 DEF IInv, RowsTyped
  <1>3. member[f][u].status = "none"
    BY DEF CreateFirm, IInv, RowsOfFirms, RowsTyped, Membership
  <1>4. TablesStaySound
    BY <1>1, <1>2, <1>3, MembershipStaysSound DEF CreateFirm
  <1>5. ASSUME NEW s \in Slots, StillAsRead(call[s])
        PROVE  StillAsRead(call[s])'
    <2> DEFINE k == call[s]
    <2>1. UNCHANGED <<call, invitation>> /\ f \notin firms /\ CallShape(k)
      BY WriterTyped DEF CreateFirm
    <2>2. k.op = "inviteFirmStaff" => CanInviteStaff(k)' \/ ~CanInviteStaff(k)
      <3>1. k.op = "inviteFirmStaff" => k.firm \in firms /\ k.firm \in Firms /\ k.user \in Users
        BY <2>1 DEF CallShape, FirmOps, MembershipOps
      <3> QED BY <1>2, <2>1, <3>1 DEF CanInviteStaff
    <2>3. k.op = "acceptFirmInvitation" => CanAccept(k)' \/ ~CanAccept(k)
      <3>1. k.op = "acceptFirmInvitation" => k.firm \in Firms /\ k.user \in Users /\ k.actor = k.user
        BY <2>1 DEF CallShape, MembershipOps
      <3> QED BY <1>2, <1>3, <2>1, <3>1 DEF CanAccept
    <2>4. \A g \in Firms, v \in Users : member[g][v].status = "active" => member'[g][v].status = "active"
      BY <1>1, <1>2
    <2>5. k.op = "createClientCompany" => k.firm \in Firms /\ k.actor \in Users
      BY <2>1 DEF CallShape, FirmOps, IInv, RowsTyped
    <2>6. k.op = "assignStaffToCompany" => k.firm \in Firms /\ k.user \in Users
      BY <2>1 DEF CallShape
    <2>7. NonePending(k)' = NonePending(k)
      BY <2>1 DEF NonePending, PendingFrom
    <2> QED BY <1>5, <2>1, <2>2, <2>3, <2>4, <2>5, <2>6, <2>7 DEF StillAsRead, IsActiveMember
  <1> QED BY <1>4, <1>5

(* A request that arrives has read nothing but its guard's row. *)
LEMMA ArrivalReads ==
  ASSUME IInv, NEW s \in Slots,
         StaffRequest(s) \/ ClientRequest(s) \/ AssignmentRequest(s) \/ UserRequest(s)
  PROVE  \E k : /\ Begin(s, k) /\ k # NoCall /\ k.stage = "read"
                /\ k.op = "createClientCompany" => member[k.firm][k.actor].status = "active"
  <1>1. \A op, a, f, u, c, i, d :
          LET k == Request(op, a, f, u, c, i, d)
          IN  k # NoCall /\ k.stage = "read" /\ k.op = op /\ k.firm = f /\ k.actor = a
    BY DEF Request, NoCall
  <1>2. CASE StaffRequest(s)
    <2>1. PICK op, a, f, u, d :
            /\ op \in {"inviteFirmStaff", "updateFirmStaffRole", "revokeFirmStaff"}
            /\ Begin(s, Request(op, a, f, u, None, None, d))
      BY <1>2 DEF StaffRequest
    <2> QED BY <1>1, <2>1
  <1>3. CASE ClientRequest(s)
    <2>1. PICK op, a, f, c :
            FirmGuard(a, f, op) /\ Begin(s, Request(op, a, f, None, c, None, None))
      BY <1>3 DEF ClientRequest
    <2> QED BY <1>1, <2>1 DEF FirmGuard
  <1>4. CASE AssignmentRequest(s)
    <2>1. PICK op, a, f, u, c :
            /\ op \in {"assignStaffToCompany", "revokeAssignment"}
            /\ Begin(s, Request(op, a, f, u, c, None, None))
      BY <1>4 DEF AssignmentRequest
    <2> QED BY <1>1, <2>1
  <1>5. CASE UserRequest(s)
    <2>1. PICK op, a, f, u, c, i, d :
            /\ op \in {"acceptFirmInvitation", "respondToClientInvitation", "createCompany"}
            /\ Begin(s, Request(op, a, f, u, c, i, d))
      BY <1>5 DEF UserRequest
    <2> QED BY <1>1, <2>1
  <1> QED BY <1>2, <1>3, <1>4, <1>5

(* What a query returned is so when it returned. *)
LEMMA QueryReads ==
  ASSUME IInv, NEW s \in Slots, Read(s), StillAsRead(call[s]), Passes(call[s]),
         NEW k \in {[call[s] EXCEPT !.stage = NextStage(call[s])]}
  PROVE  StillAsRead(k)
  <1>1. call[s] \in Call /\ CallShape(call[s]) /\ call[s].stage \in {"read", "reread"}
    BY WriterTyped DEF Read
  <1>2. /\ k.op = call[s].op /\ k.stage = NextStage(call[s]) /\ k.actor = call[s].actor
        /\ k.firm = call[s].firm /\ k.user = call[s].user /\ k.company = call[s].company
        /\ k.inv = call[s].inv
    BY <1>1 DEF Call
  <1>3. k.op = "inviteFirmStaff" => CanInviteStaff(k)
    BY <1>2 DEF Passes, CanInviteStaff
  <1>4. k.op = "acceptFirmInvitation" => CanAccept(k)
    BY <1>2 DEF Passes, CanAccept
  <1>5. k.op = "createClientCompany" => member[k.firm][k.actor].status = "active"
    BY <1>2 DEF StillAsRead
  <1>6. k.op \in {"assignStaffToCompany", "inviteClientCompany"} /\ k.stage = "write"
          => call[s].stage = "reread"
    BY <1>1, <1>2, NextStageTyped DEF HasSecondQuery
  <1>7. k.op = "assignStaffToCompany" /\ k.stage = "write" => IsActiveMember(k)
    BY <1>2, <1>6 DEF Passes, IsActiveMember
  <1>8. k.op = "inviteClientCompany" /\ k.stage = "write" => NonePending(k)
    BY <1>2, <1>6 DEF Passes, NonePending
  <1>9. k.op = "respondToClientInvitation" => invitation[k.inv].status = "pending"
    BY <1>2 DEF Passes, CanRespond
  <1> QED BY <1>3, <1>4, <1>5, <1>7, <1>8, <1>9 DEF StillAsRead

LEMMA StepAlone ==
  ASSUME IInv, Alone, Next, ~overlapped'
  PROVE  Alone' /\ AnswersKept /\ RevokedKept
  <1>1. /\ ~overlapped /\ OneAtATime /\ OneAtATime'
        /\ AssignmentsFollowMembership /\ OnePendingRequest
        /\ \A s \in Slots : StillAsRead(call[s])
    BY DEF Next, Alone
  <1> SUFFICES TablesStaySound /\ \A t \in Slots : StillAsRead(call[t])'
    BY <1>1 DEF Alone, TablesStaySound
  <1>2. CASE \E u \in Users, f \in Firms : CreateFirm(u, f)
    BY <1>1, <1>2, NewFirmStaysSound
  <1>3. ASSUME NEW s \in Slots,
               StaffRequest(s) \/ ClientRequest(s) \/ AssignmentRequest(s) \/ UserRequest(s)
        PROVE  TablesStaySound /\ \A t \in Slots : StillAsRead(call[t])'
    <2>1. PICK k : /\ Begin(s, k) /\ k # NoCall /\ k.stage = "read"
                   /\ k.op = "createClientCompany" => member[k.firm][k.actor].status = "active"
      BY <1>3, ArrivalReads
    <2>2. UNCHANGED tables
      BY <2>1 DEF Begin
    <2>3. call'[s] = k /\ \A t \in Slots : t # s => call'[t] = NoCall
      BY <1>1, <2>1 DEF Begin, OneAtATime, IInv, RowsTyped
    <2>4. StillAsRead(k)'
      BY <2>1, <2>2 DEF StillAsRead, tables
    <2>5. \A t \in Slots : StillAsRead(call[t])'
      BY <2>3, <2>4, IdleReadNothing DEF StillAsRead, CanInviteStaff, CanAccept, IsActiveMember,
                                         NonePending
    <2> QED BY <1>1, <2>2, <2>5, UnwrittenStaysSound
  <1>4. ASSUME NEW s \in Slots, Read(s)
        PROVE  TablesStaySound /\ \A t \in Slots : StillAsRead(call[t])'
    <2>1. UNCHANGED tables
      BY <1>4 DEF Read
    <2>2. call[s] # NoCall /\ \A t \in Slots : t # s => call'[t] = NoCall
      BY <1>1, <1>4 DEF Read, NoCall, OneAtATime, IInv, RowsTyped
    <2>3. call'[s] = NoCall \/ (StillAsRead(call'[s]) /\ Passes(call[s]))
      BY <1>1, <1>4, QueryReads DEF Read, IInv, RowsTyped
    <2>4. StillAsRead(call'[s]) => StillAsRead(call[s])'
      BY <2>1 DEF StillAsRead, CanInviteStaff, CanAccept, IsActiveMember, NonePending, PendingFrom,
                  tables
    <2>5. \A t \in Slots : call'[t] = NoCall => StillAsRead(call[t])'
      BY DEF StillAsRead, NoCall
    <2> QED BY <1>1, <2>1, <2>2, <2>3, <2>4, <2>5, UnwrittenStaysSound
  <1>5. ASSUME NEW s \in Slots, call[s].op # "none", call' = [call EXCEPT ![s] = NoCall]
        PROVE  \A t \in Slots : StillAsRead(call[t])'
    <2>1. \A t \in Slots : call'[t] = NoCall
      BY <1>1, <1>5 DEF OneAtATime, NoCall, IInv, RowsTyped
    <2> QED BY <2>1 DEF StillAsRead, NoCall
  <1>6. ASSUME NEW s \in Slots,
               \/ InviteFirmStaff(s) \/ UpdateFirmStaffRole(s) \/ RevokeFirmStaff(s)
               \/ AcceptFirmInvitation(s)
        PROVE  TablesStaySound /\ \A t \in Slots : StillAsRead(call[t])'
    BY <1>1, <1>5, <1>6, StaffWritesStaySound
    DEF InviteFirmStaff, UpdateFirmStaffRole, RevokeFirmStaff, AcceptFirmInvitation, Writing
  <1>7. ASSUME NEW s \in Slots,
               \/ CreateCompany(s) \/ CreateClientCompany(s) \/ RemoveClientCompany(s)
               \/ AssignStaffToCompany(s) \/ RevokeAssignment(s)
        PROVE  TablesStaySound /\ \A t \in Slots : StillAsRead(call[t])'
    BY <1>1, <1>5, <1>7, ClientWritesStaySound
    DEF CreateCompany, CreateClientCompany, RemoveClientCompany, AssignStaffToCompany,
        RevokeAssignment, Writing
  <1>8. ASSUME NEW s \in Slots, InviteClientCompany(s) \/ RespondToClientInvitation(s)
        PROVE  TablesStaySound /\ \A t \in Slots : StillAsRead(call[t])'
    BY <1>1, <1>5, <1>8, InvitationStaysSound, AnswerStaysSound
    DEF InviteClientCompany, RespondToClientInvitation, Writing
  <1> QED BY <1>2, <1>3, <1>4, <1>6, <1>7, <1>8 DEF Next, Handle

LEMMA AloneInductive == Spec => [](IInv /\ Alone)
  <1>1. Init => Alone
    BY DEF Init, Alone, OneAtATime, StillAsRead, NoCall, AssignmentsFollowMembership, Triples,
           OnePendingRequest, PendingFrom
  <1>2. IInv /\ Alone /\ [Next]_vars => Alone'
    <2>1. IInv /\ Alone /\ Next => Alone'
      BY StepAlone DEF Alone
    <2>2. Alone /\ UNCHANGED vars => Alone'
      BY DEF vars, tables, Alone, OneAtATime, StillAsRead, CanInviteStaff, CanAccept,
             IsActiveMember, NonePending, AssignmentsFollowMembership, OnePendingRequest, PendingFrom
    <2> QED BY <2>1, <2>2
  <1> QED BY <1>1, <1>2, Inductive, PTL DEF Spec

(* As long as requests do not overlap, the checks of each method of FirmService
   suffice: no revoked or pending member serves a client, and a firm has one open
   request to a company. *)
THEOREM TurnsKeepTables == Spec => []TablesAgreeUnlessOverlapped
  <1>1. Alone => TablesAgreeUnlessOverlapped
    BY DEF Alone, TablesAgreeUnlessOverlapped
  <1> QED BY <1>1, AloneInductive, PTL

(* ... and what was answered or revoked stays so. *)
THEOREM TurnsKeepDecisions == Spec => DecisionsLastUnlessOverlapped
  <1>1. IInv /\ Alone /\ [Next]_vars => [~overlapped' => AnswersKept /\ RevokedKept]_vars
    BY StepAlone
  <1> QED BY <1>1, AloneInductive, PTL DEF Spec, DecisionsLastUnlessOverlapped

(***************************************************************************)
(* The company's own side: CompanyStaff, as Org                             *)
(***************************************************************************)

LEMMA OrgRowParts ==
  ASSUME NEW w \in Org!Rows
  PROVE  w = <<w[1], w[2], w[3]>> /\ w[1] \in Users /\ w[2] \in Companies /\ w[3] \in Org!Roles
  BY DEF Org!Rows

(* The requests keep their shape, and an idle slot is pending on nothing. *)
LEMMA OrgNoCallShape == Org!NoCall \in Org!Call /\ Org!NoCall.op = "none"
  /\ Org!NoCall.stage = "idle"
  BY DEF Org!NoCall, Org!Call

(* What a request k may rely on, with the tables as they are. *)
OrgSound(k) ==
  /\ k.op = "inviteStaff" =>
       k.row[3] # Org!Owner /\ k.by \in Users /\ Org!Entitled(k.by, k.row[2])
  /\ k.op \in {"acceptInvitation", "revokeStaff"} /\ k.stage = "write" =>
       role[k.row] # "none" /\ k.row[3] # Org!Owner
  /\ k.op = "acceptInvitation" /\ k.stage = "write" =>
       k.by = k.row[1] /\ (role[k.row] = "revoked" => k.row \in revokedInFlight)

LEMMA OrgInFlightIsSound == Org!InFlight <=> \A s \in Slots : OrgSound(request[s])
  BY DEF Org!InFlight, OrgSound

LEMMA OrgNoCallSound == OrgSound(Org!NoCall) /\ OrgSound(Org!NoCall)'
  BY OrgNoCallShape DEF OrgSound

LEMMA OrgInitIInv == Org!Init => Org!IInv
  <1> SUFFICES ASSUME Org!Init PROVE Org!IInv
    OBVIOUS
  <1>1. Org!TypeOK
    BY OrgNoCallShape DEF Org!Init, Org!TypeOK
  <1>2. Org!FounderStaysOwner
    BY OrgRowParts DEF Org!Init, Org!FounderStaysOwner, Org!Rows, Org!Roles
  <1>3. Org!RolesByConsent /\ Org!Recorded
    BY DEF Org!Init, Org!RolesByConsent, Org!Recorded, Org!Rows, Org!Roles
  <1>4. Org!InFlight
    BY OrgNoCallSound, OrgInFlightIsSound DEF Org!Init
  <1>5. Org!OnlyOwnersInvite
    BY DEF Org!Init, Org!OnlyOwnersInvite, Org!GuardMayPass, Org!ActiveRoles, Org!Rows
  <1> QED BY <1>1, <1>2, <1>3, <1>4, <1>5 DEF Org!IInv

(* permissions.guard.ts: of the roles only the owner's lets staff be invited, and it
   is its founder's. *)
LEMMA OrgOwnersInvite == Org!FounderStaysOwner => Org!OnlyOwnersInvite
  <1> SUFFICES ASSUME Org!FounderStaysOwner, NEW u \in Users, NEW c \in Companies,
                      Org!GuardMayPass(u, c, "staff:invite"), <<u, c>> \notin delegates
               PROVE  <<u, c>> \in founded
    BY DEF Org!OnlyOwnersInvite
  <1>1. PICK r \in Org!ActiveRoles(u, c) : "staff:invite" \in Org!RolePermissions(r)
    BY DEF Org!GuardMayPass
  <1>2. r = Org!Owner
    BY <1>1, OrgAssumption DEF Org!InvitableAssumption, Org!ActiveRoles, Org!Roles,
       Org!RolePermissions, Org!Owner
  <1> QED BY <1>1, <1>2 DEF Org!ActiveRoles, Org!FounderStaysOwner

LEMMA OrgOwnersInvitePrimed == Org!FounderStaysOwner' => Org!OnlyOwnersInvite'
  BY OrgOwnersInvite, PTL

-----------------------------------------------------------------------------
(* Only the slot that moved is to be looked at again, if what the others rely on
   is still so. *)
LEMMA OrgInFlightKept ==
  ASSUME Org!TypeOK, Org!InFlight, NEW s \in Slots, NEW k, request' = [request EXCEPT ![s] = k],
         OrgSound(k)',
         \A t \in Slots : \A j \in {request[t]} : OrgSound(j) => OrgSound(j)'
  PROVE  Org!InFlight'
  <1> SUFFICES ASSUME NEW t \in Slots PROVE \A j \in {request'[t]} : OrgSound(j)'
    BY DEF Org!InFlight, OrgSound
  <1>1. CASE t = s
    BY <1>1 DEF Org!TypeOK
  <1>2. CASE t # s
    <2>1. request'[t] = request[t]
      BY <1>2 DEF Org!TypeOK
    <2> QED BY <2>1, OrgInFlightIsSound
  <1> QED BY <1>1, <1>2

(* A request that arrives, and a step that leaves the tables alone. *)
LEMMA OrgTablesUntouched ==
  ASSUME Org!IInv, UNCHANGED <<created, role, delegates, Org!history>>, NEW s \in Slots,
         NEW k \in Org!Call, request' = [request EXCEPT ![s] = k], OrgSound(k)
  PROVE  Org!IInv'
  <1> USE DEF Org!IInv, Org!history
  <1>1. Org!TypeOK'
    BY DEF Org!TypeOK
  <1>2. Org!FounderStaysOwner' /\ Org!OnlyOwnersInvite'
    BY DEF Org!FounderStaysOwner, Org!OnlyOwnersInvite, Org!GuardMayPass, Org!ActiveRoles
  <1>3. Org!RolesByConsent' /\ Org!Recorded'
    BY DEF Org!RolesByConsent, Org!Recorded, Org!Entitled
  <1>4. OrgSound(k)' /\ \A t \in Slots : \A j \in {request[t]} : OrgSound(j) => OrgSound(j)'
    BY DEF OrgSound, Org!Entitled
  <1>5. Org!InFlight'
    BY <1>4, OrgInFlightKept
  <1> QED BY <1>1, <1>2, <1>3, <1>5

LEMMA OrgArrivalKeepsIInv ==
  ASSUME Org!IInv, NEW s \in Slots,
         Org!InviteRequest(s) \/ Org!AcceptRequest(s) \/ Org!RevokeRequest(s)
  PROVE  Org!IInv'
  <1>1. created \subseteq Companies
    BY DEF Org!IInv, Org!TypeOK
  <1>2. CASE Org!InviteRequest(s)
    <2>1. PICK a \in Users, u \in Users, c \in created, r \in Org!Offered :
            /\ Org!GuardMayPass(a, c, "staff:invite")
            /\ Org!Begin(s, Org!Request("inviteStaff", a, c, <<u, c, r>>))
      BY <1>2 DEF Org!InviteRequest
    <2> DEFINE k == Org!Request("inviteStaff", a, c, <<u, c, r>>)
    <2>2. k \in Org!Call /\ k.op = "inviteStaff" /\ k.by = a /\ k.row = <<u, c, r>>
          /\ r # Org!Owner
      BY <1>1, OrgAssumption DEF Org!InvitableAssumption, Org!Request, Org!Call, Org!Rows,
         Org!Roles, Org!Offered, Org!Owner
    <2>3. Org!Entitled(a, c)
      BY <1>1, <2>1 DEF Org!IInv, Org!OnlyOwnersInvite, Org!Recorded, Org!Entitled
    <2> HIDE DEF k
    <2>4. OrgSound(k)
      BY <2>2, <2>3 DEF OrgSound
    <2> QED BY <2>1, <2>2, <2>4, OrgTablesUntouched DEF Org!Begin, k
  <1>3. CASE Org!AcceptRequest(s)
    <2>1. PICK u \in Users, w \in Org!Rows :
            Org!Begin(s, Org!Request("acceptInvitation", u, w[2], w))
      BY <1>3 DEF Org!AcceptRequest
    <2> DEFINE k == Org!Request("acceptInvitation", u, w[2], w)
    <2>2. k \in Org!Call /\ k.op = "acceptInvitation" /\ k.stage = "read"
      BY OrgRowParts DEF Org!Request, Org!Call
    <2> HIDE DEF k
    <2>3. OrgSound(k)
      BY <2>2 DEF OrgSound
    <2> QED BY <2>1, <2>2, <2>3, OrgTablesUntouched DEF Org!Begin, k
  <1>4. CASE Org!RevokeRequest(s)
    <2>1. PICK a \in Users, c \in created,
               w \in Org!Rows : Org!Begin(s, Org!Request("revokeStaff", None, c, w))
      BY <1>4 DEF Org!RevokeRequest
    <2> DEFINE k == Org!Request("revokeStaff", None, c, w)
    <2>2. k \in Org!Call /\ k.op = "revokeStaff" /\ k.stage = "read"
      BY <1>1 DEF Org!Request, Org!Call
    <2> HIDE DEF k
    <2>3. OrgSound(k)
      BY <2>2 DEF OrgSound
    <2> QED BY <2>1, <2>2, <2>3, OrgTablesUntouched DEF Org!Begin, k
  <1> QED BY <1>2, <1>3, <1>4

(* The look-ups establish what the writes rely on. *)
LEMMA OrgReadKeepsIInv ==
  ASSUME Org!IInv, NEW s \in Slots, Org!Read(s)
  PROVE  Org!IInv'
  <1> DEFINE k == IF Org!Passes(request[s]) THEN [request[s] EXCEPT !.stage = "write"]
                                           ELSE Org!NoCall
  <1>1. request[s] \in Org!Call /\ request' = [request EXCEPT ![s] = k]
    BY DEF Org!IInv, Org!TypeOK, Org!Read
  <1>2. CASE ~Org!Passes(request[s])
    <2>1. k = Org!NoCall
      BY <1>2
    <2> HIDE DEF k
    <2> QED BY <1>1, <2>1, OrgNoCallShape, OrgNoCallSound, OrgTablesUntouched DEF Org!Read
  <1>3. CASE Org!Passes(request[s])
    <2>1. /\ k \in Org!Call /\ k.op = request[s].op /\ k.row = request[s].row
          /\ k.by = request[s].by /\ request[s].row \in Org!Rows
          /\ request[s].op \in {"inviteStaff", "acceptInvitation", "revokeStaff"}
      BY <1>1, <1>3 DEF Org!Call, Org!Passes, Org!NoCall
    <2>2. k.op = "inviteStaff" =>
            k.row[3] # Org!Owner /\ k.by \in Users /\ Org!Entitled(k.by, k.row[2])
      BY <2>1 DEF Org!IInv, Org!InFlight
    <2>3. k.op = "acceptInvitation" => role[k.row] = "pending" /\ k.by = k.row[1]
      BY <1>3, <2>1 DEF Org!Passes, Org!IsPending
    <2>4. k.op = "revokeStaff" => role[k.row] # "none" /\ k.row[3] # Org!Owner
      BY <1>3, <2>1 DEF Org!Passes, Org!IsStaffOf
    <2>5. role[k.row] = "pending" => k.row[3] # Org!Owner
      <3> HIDE DEF k
      <3>1. PICK u \in Users, c \in Companies, r \in Org!Roles : k.row = <<u, c, r>>
        BY <2>1, OrgRowParts
      <3>2. role[<<u, c, Org!Owner>>] # "pending"
        BY DEF Org!IInv, Org!Recorded
      <3> QED BY <3>1, <3>2
    <2> HIDE DEF k
    <2>6. OrgSound(k)
      BY <2>2, <2>3, <2>4, <2>5 DEF OrgSound
    <2> QED BY <1>1, <2>1, <2>6, OrgTablesUntouched DEF Org!Read
  <1> QED BY <1>2, <1>3

-----------------------------------------------------------------------------
(* The writes *)

LEMMA OrgCreateCompanyKeepsIInv ==
  ASSUME Org!IInv, NEW u \in Users, NEW c \in Companies, Org!CreateCompany(u, c)
  PROVE  Org!IInv'
  <1> USE DEF Org!IInv, Org!CreateCompany
  <1>1. Org!TypeOK'
    BY DEF Org!TypeOK, Org!Rows, Org!Roles
  <1>2. \A v \in Users, d \in Companies :
          role'[<<v, d, Org!Owner>>] = IF v = u
            /\ d = c THEN "active" ELSE role[<<v, d, Org!Owner>>]
    <2> SUFFICES ASSUME NEW v \in Users, NEW d \in Companies
                 PROVE  role'[<<v, d, Org!Owner>>] =
                          IF v = u /\ d = c THEN "active" ELSE role[<<v, d, Org!Owner>>]
      OBVIOUS
    <2>1. <<v, d, Org!Owner>> \in Org!Rows
      BY DEF Org!Rows, Org!Roles
    <2>2. <<v, d, Org!Owner>> = <<u, c, Org!Owner>> <=> v = u /\ d = c
      OBVIOUS
    <2> QED BY <2>1, <2>2 DEF Org!TypeOK
  <1>3. Org!FounderStaysOwner'
    <2>1. \A v \in Users : <<v, c>> \notin founded
      BY DEF Org!Recorded
    <2>2. \A v \in Users, d \in Companies :
            <<v, d>> \in founded' <=> <<v, d>> \in founded \/ (v = u /\ d = c)
      OBVIOUS
    <2>3. \A v \in Users, d \in Companies :
            role'[<<v, d, Org!Owner>>] = "active" <=> <<v, d>> \in founded'
      <3> SUFFICES ASSUME NEW v \in Users, NEW d \in Companies
                   PROVE  role'[<<v, d, Org!Owner>>] = "active" <=> <<v, d>> \in founded'
        OBVIOUS
      <3>1. role[<<v, d, Org!Owner>>] = "active" <=> <<v, d>> \in founded
        BY DEF Org!FounderStaysOwner
      <3>2. role'[<<v, d, Org!Owner>>] =
              IF v = u /\ d = c THEN "active" ELSE role[<<v, d, Org!Owner>>]
        BY <1>2
      <3> HIDE DEF Org!CreateCompany, Org!IInv
      <3> QED BY <2>2, <3>1, <3>2
    <2>4. \A v, x \in Users, d \in Companies :
            <<v, d>> \in founded' /\ <<x, d>> \in founded' => x = v
      BY <2>1, <2>2 DEF Org!FounderStaysOwner
    <2> QED BY <2>3, <2>4 DEF Org!FounderStaysOwner
  <1>4. \A w \in Org!Rows : w[3] # Org!Owner => role'[w] = role[w]
    BY DEF Org!TypeOK
  <1>5. \A a \in Users, d \in Companies : Org!Entitled(a, d) => Org!Entitled(a, d)'
    BY DEF Org!Entitled
  <1>6. Org!RolesByConsent'
    BY <1>4, <1>5, OrgRowParts DEF Org!RolesByConsent
  <1>7. Org!Recorded'
    BY <1>2, <1>4, <1>5, OrgRowParts DEF Org!Recorded
  <1>8. Org!InFlight'
    <2> SUFFICES ASSUME NEW t \in Slots, NEW j \in {request[t]}, OrgSound(j) PROVE OrgSound(j)'
      BY OrgInFlightIsSound DEF Org!InFlight, OrgSound
    <2>1. j.op \in {"inviteStaff", "acceptInvitation", "revokeStaff"} => j.row \in Org!Rows
      BY OrgNoCallShape DEF Org!TypeOK, Org!Call
    <2>2. j.op \in {"acceptInvitation", "revokeStaff"} /\ j.stage = "write" =>
            role'[j.row] = role[j.row]
      BY <1>4, <2>1 DEF OrgSound
    <2>3. j.op = "inviteStaff" => Org!Entitled(j.by, j.row[2])'
      BY <1>5, <2>1, OrgRowParts DEF OrgSound
    <2> QED BY <2>2, <2>3 DEF OrgSound
  <1>9. Org!OnlyOwnersInvite'
    <2> HIDE DEF Org!IInv, Org!CreateCompany
    <2> QED BY <1>3, OrgOwnersInvitePrimed
  <1> QED BY <1>1, <1>3, <1>6, <1>7, <1>8, <1>9

(* The firm's side only adds to who may invite. *)
LEMMA FirmKeepsIInv ==
  ASSUME Org!IInv, NEW u \in Users, NEW c \in Companies, Org!Delegate(u, c) \/ Org!Undelegate(u, c)
  PROVE  Org!IInv'
  <1> USE DEF Org!IInv, Org!Delegate, Org!Undelegate, Org!history
  <1>1. Org!TypeOK'
    BY DEF Org!TypeOK
  <1>2. \A a, d : Org!Entitled(a, d) => Org!Entitled(a, d)'
    BY DEF Org!Entitled
  <1>3. Org!FounderStaysOwner'
    BY DEF Org!FounderStaysOwner
  <1>4. Org!RolesByConsent'
    BY <1>2 DEF Org!RolesByConsent
  <1>5. Org!Recorded'
    <2>1. \A w \in Org!Rows : w[3] # Org!Owner /\ role'[w] # "none" =>
            \E a \in Users : <<a, w>> \in invited' /\ Org!Entitled(a, w[2])'
      BY <1>2 DEF Org!Recorded
    <2>2. created \subseteq created' /\ delegates' \subseteq delegated'
      BY DEF Org!Recorded
    <2> QED BY <2>1, <2>2 DEF Org!Recorded
  <1>6. Org!InFlight'
    BY <1>2 DEF Org!InFlight
  <1> QED BY <1>1, <1>3, <1>4, <1>5, <1>6, OrgOwnersInvitePrimed

(* A write to a row that is not an owner's keeps the founders, and the requests
   that read it earlier: only a revocation takes something from them. *)
LEMMA OrgRowWritten ==
  ASSUME Org!IInv, NEW s \in Slots, NEW w \in Org!Rows, w[3] # Org!Owner,
         NEW status \in {"pending", "active", "revoked"},
         role' = [role EXCEPT ![w] = status],
         request' = [request EXCEPT ![s] = Org!NoCall],
         UNCHANGED <<created, delegates, founded, delegated>>,
         invited \subseteq invited', accepted \subseteq accepted',
         revokedInFlight \subseteq revokedInFlight',
         invited' \subseteq Users \X Org!Rows, accepted' \subseteq Users \X Org!Rows,
         revokedInFlight' \subseteq Org!Rows,
         \E a \in Users : <<a, w>> \in invited' /\ Org!Entitled(a, w[2]),
         status = "active" => <<w[1], w>> \in accepted',
         status = "revoked" => \A t \in Slots : Org!AboutToAccept(t, w) => w \in revokedInFlight'
  PROVE  Org!IInv'
  <1> USE DEF Org!IInv
  <1>1. Org!TypeOK'
    BY OrgNoCallShape DEF Org!TypeOK
  <1>2. \A v \in Users, d \in Companies : role'[<<v, d, Org!Owner>>] = role[<<v, d, Org!Owner>>]
    BY DEF Org!TypeOK, Org!Rows, Org!Roles
  <1>3. Org!FounderStaysOwner'
    BY <1>2 DEF Org!FounderStaysOwner
  <1>4. \A a, d : Org!Entitled(a, d) <=> Org!Entitled(a, d)'
    BY DEF Org!Entitled
  <1>5. Org!RolesByConsent'
    <2> SUFFICES ASSUME NEW x \in Org!Rows, x[3] # Org!Owner, role'[x] = "active"
                 PROVE  /\ <<x[1], x>> \in accepted'
                        /\ \E a \in Users : <<a, x>> \in invited' /\ Org!Entitled(a, x[2])
      BY <1>4 DEF Org!RolesByConsent
    <2>1. CASE x = w
      BY <2>1 DEF Org!TypeOK
    <2>2. CASE x # w
      <3>1. role[x] = "active"
        BY <2>2 DEF Org!TypeOK
      <3> QED BY <3>1 DEF Org!RolesByConsent
    <2> QED BY <2>1, <2>2
  <1>6. Org!Recorded'
    <2>1. ASSUME NEW x \in Org!Rows, x[3] # Org!Owner, role'[x] # "none"
          PROVE  \E a \in Users : <<a, x>> \in invited' /\ Org!Entitled(a, x[2])
      <3>1. CASE x = w
        BY <3>1
      <3>2. CASE x # w
        BY <2>1, <3>2 DEF Org!TypeOK, Org!Recorded
      <3> QED BY <3>1, <3>2
    <2> QED BY <1>2, <1>4, <2>1 DEF Org!Recorded
  <1>7. Org!InFlight'
    <2>1. ASSUME NEW t \in Slots, NEW j \in {request[t]}, OrgSound(j) PROVE OrgSound(j)'
      <3>1. j.op \in {"acceptInvitation", "revokeStaff"} => j.row \in Org!Rows
        BY OrgNoCallShape DEF Org!TypeOK, Org!Call
      <3>2. CASE j.op = "inviteStaff"
        BY <1>4, <2>1, <3>2 DEF OrgSound
      <3>3. CASE j.op \in {"acceptInvitation", "revokeStaff"} /\ j.stage = "write" /\ j.row = w
        BY <2>1, <3>3 DEF OrgSound, Org!AboutToAccept, Org!TypeOK
      <3>4. CASE j.op \in {"acceptInvitation", "revokeStaff"} /\ j.stage = "write" /\ j.row # w
        <4>1. role'[j.row] = role[j.row]
          BY <3>1, <3>4 DEF Org!TypeOK
        <4> QED BY <2>1, <3>4, <4>1 DEF OrgSound
      <3> QED BY <3>2, <3>3, <3>4 DEF OrgSound
    <2> QED BY <2>1, OrgNoCallSound, OrgInFlightKept
  <1> QED BY <1>1, <1>3, <1>5, <1>6, <1>7, OrgOwnersInvitePrimed

LEMMA OrgWriteKeepsIInv ==
  ASSUME Org!IInv, NEW s \in Slots,
         Org!InviteStaff(s) \/ Org!AcceptInvitation(s) \/ Org!RevokeStaff(s)
  PROVE  Org!IInv'
  <1> DEFINE w == request[s].row
  <1>1. request[s] \in Org!Call /\ request[s].stage = "write" /\ w \in Org!Rows
    BY DEF Org!IInv, Org!TypeOK, Org!InviteStaff, Org!AcceptInvitation, Org!RevokeStaff,
       Org!Writing, Org!Call, Org!NoCall
  <1>2. CASE Org!InviteStaff(s)
    <2>1. w[3] # Org!Owner /\ request[s].by \in Users /\ Org!Entitled(request[s].by, w[2])
      BY <1>2 DEF Org!IInv, Org!InFlight, Org!InviteStaff, Org!Writing
    <2>2. CASE role[w] = "none"
      <3>1. /\ role' = [role EXCEPT ![w] = "pending"]
            /\ invited' = invited \cup {<<request[s].by, w>>}
            /\ UNCHANGED <<accepted, revokedInFlight>>
            /\ request' = [request EXCEPT ![s] = Org!NoCall]
            /\ UNCHANGED <<created, delegates, founded, delegated>>
        BY <1>2, <2>2 DEF Org!InviteStaff, Org!Writing
      <3> HIDE DEF w
      <3>2. invited' \subseteq Users \X Org!Rows
        BY <1>1, <2>1, <3>1 DEF Org!IInv, Org!TypeOK
      <3>3. \E a \in Users : <<a, w>> \in invited' /\ Org!Entitled(a, w[2])
        BY <2>1, <3>1
      <3> QED BY <1>1, <2>1, <3>1, <3>2, <3>3, OrgRowWritten DEF Org!IInv, Org!TypeOK
    <2>3. CASE role[w] # "none"
      BY <1>2, <2>3, OrgNoCallShape, OrgNoCallSound, OrgTablesUntouched
      DEF Org!InviteStaff, Org!Writing, Org!history, Org!IInv, Org!TypeOK
    <2> QED BY <2>2, <2>3
  <1>3. ASSUME w[3] # Org!Owner, role[w] # "none"
        PROVE  \E a \in Users : <<a, w>> \in invited /\ Org!Entitled(a, w[2])
    BY <1>1, <1>3 DEF Org!IInv, Org!Recorded
  <1>4. CASE Org!AcceptInvitation(s)
    <2>1. w[3] # Org!Owner /\ role[w] # "none" /\ request[s].by = w[1]
      BY <1>1, <1>4 DEF Org!IInv, Org!InFlight, Org!AcceptInvitation, Org!Writing
    <2>2. /\ role' = [role EXCEPT ![w] = "active"]
          /\ accepted' = accepted \cup {<<request[s].by, w>>}
          /\ UNCHANGED <<invited, revokedInFlight>>
          /\ request' = [request EXCEPT ![s] = Org!NoCall]
          /\ UNCHANGED <<created, delegates, founded, delegated>>
      BY <1>4 DEF Org!AcceptInvitation, Org!Writing
    <2> HIDE DEF w
    <2>3. accepted' \subseteq Users \X Org!Rows /\ <<w[1], w>> \in accepted'
      BY <1>1, <2>1, <2>2, OrgRowParts DEF Org!IInv, Org!TypeOK
    <2> QED BY <1>1, <1>3, <2>1, <2>2, <2>3, OrgRowWritten DEF Org!IInv, Org!TypeOK
  <1>5. CASE Org!RevokeStaff(s)
    <2>1. w[3] # Org!Owner /\ role[w] # "none"
      BY <1>1, <1>5 DEF Org!IInv, Org!InFlight, Org!RevokeStaff, Org!Writing
    <2>2. /\ role' = [role EXCEPT ![w] = "revoked"] /\ UNCHANGED <<invited, accepted>>
          /\ revokedInFlight' = revokedInFlight \cup
               {x \in {w} : \E t \in Slots : Org!AboutToAccept(t, x)}
          /\ request' = [request EXCEPT ![s] = Org!NoCall]
          /\ UNCHANGED <<created, delegates, founded, delegated>>
      BY <1>5 DEF Org!RevokeStaff, Org!Writing
    <2> HIDE DEF w
    <2>3. /\ revokedInFlight' \subseteq Org!Rows /\ revokedInFlight \subseteq revokedInFlight'
          /\ \A t \in Slots : Org!AboutToAccept(t, w) => w \in revokedInFlight'
      BY <1>1, <2>2 DEF Org!IInv, Org!TypeOK
    <2> QED BY <1>1, <1>3, <2>1, <2>2, <2>3, OrgRowWritten DEF Org!IInv, Org!TypeOK
  <1> QED BY <1>2, <1>4, <1>5

-----------------------------------------------------------------------------
LEMMA OrgStepKeepsIInv == Org!IInv /\ [Org!Next]_Org!vars => Org!IInv'
  <1> SUFFICES ASSUME Org!IInv, [Org!Next]_Org!vars PROVE Org!IInv'
    OBVIOUS
  <1>1. CASE Org!Next
    BY <1>1, OrgCreateCompanyKeepsIInv, FirmKeepsIInv, OrgArrivalKeepsIInv, OrgReadKeepsIInv,
       OrgWriteKeepsIInv DEF Org!Next
  <1>2. CASE UNCHANGED Org!vars
    BY <1>2 DEF Org!vars, Org!history, Org!IInv, Org!TypeOK, Org!FounderStaysOwner,
       Org!RolesByConsent, Org!OnlyOwnersInvite, Org!GuardMayPass, Org!ActiveRoles,
       Org!InFlight, Org!Recorded, Org!Entitled
  <1> QED BY <1>1, <1>2

(* org.service.ts: so does that of a company's own staff.                                 *)
THEOREM OrgInductive == Org!Spec => []Org!IInv
  BY OrgInitIInv, OrgStepKeepsIInv, PTL DEF Org!Spec

(* Rows, requests and histories always have their types. *)
THEOREM StaffTyped == Org!Spec => []Org!TypeOK
  BY OrgInductive, PTL DEF Org!IInv

(* The founder of a company is its one active owner for good, for any number of
   users and overlapping requests: the fact FirmAccess takes for granted when
   it asks the owner's consent to an engagement. *)
THEOREM FounderIsOwner == Org!Spec => []FounderStaysOwner
  BY OrgInductive, PTL DEF Org!IInv, FounderStaysOwner

(* Nobody holds a staff role without an invitation by the founder or a delegate and
   an acceptance by that very user, whoever else sends the invitation's id. *)
THEOREM StaffConsents == Org!Spec => []RolesByConsent
  BY OrgInductive, PTL DEF Org!IInv, RolesByConsent

(* Only the owner and a firm's delegates ever pass the guard on staff. *)
THEOREM StaffCannotInvite == Org!Spec => []OnlyOwnersInvite
  BY OrgInductive, PTL DEF Org!IInv, OnlyOwnersInvite

(* revokeStaff and acceptInvitation: a role that was revoked never comes back, for any
   users, companies, roles and overlapping requests, except the one whose acceptance
   had looked at it before it was revoked. *)
THEOREM RevocationLasts == Org!Spec => RevokedForGood
  <1>1. Org!IInv /\ [Org!Next]_Org!vars
          => [\A w \in Org!Rows : role[w] = "revoked" =>
                role'[w] = "revoked" \/ w \in revokedInFlight]_role
    <2> SUFFICES ASSUME Org!IInv, Org!Next, NEW w \in Org!Rows, role[w] = "revoked",
                        w \notin revokedInFlight
                 PROVE  role'[w] = "revoked"
      BY DEF Org!vars
    <2>1. ASSUME NEW u \in Users, NEW c \in Companies, Org!CreateCompany(u, c)
          PROVE  role'[w] = "revoked"
      <3>1. w # <<u, c, Org!Owner>>
        BY DEF Org!IInv, Org!Recorded
      <3> QED BY <2>1, <3>1 DEF Org!CreateCompany, Org!IInv, Org!TypeOK
    <2>2. ASSUME NEW s \in Slots, Org!InviteStaff(s) \/ Org!RevokeStaff(s)
          PROVE  role'[w] = "revoked"
      BY <2>2 DEF Org!InviteStaff, Org!RevokeStaff, Org!Writing, Org!IInv, Org!TypeOK
    <2>3. ASSUME NEW s \in Slots, Org!AcceptInvitation(s)
          PROVE  role'[w] = "revoked"
      <3>1. request[s].row # w
        BY <2>3 DEF Org!AcceptInvitation, Org!Writing, Org!IInv, Org!InFlight
      <3> QED BY <2>3, <3>1 DEF Org!AcceptInvitation, Org!IInv, Org!TypeOK
    <2> QED BY <2>1, <2>2, <2>3
      DEF Org!Next, Org!Delegate, Org!Undelegate, Org!InviteRequest, Org!AcceptRequest,
          Org!RevokeRequest, Org!Begin, Org!Read
  <1> QED BY <1>1, OrgInductive, PTL DEF Org!Spec, RevokedForGood, Org!RevokedForGood
=============================================================================
