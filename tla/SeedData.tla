------------------------------ MODULE SeedData ------------------------------
(***************************************************************************)
(* What prisma/seed.ts puts into the database, in its order, one entry for  *)
(* each upsert.  A rate is in half per cents, so that 2.5% is 5; amounts    *)
(* are in pesos.                                                            *)
(***************************************************************************)
EXTENDS Integers, Sequences, SequencesExt

(* A loop over codes, and the loop over roles: each role, then its grants. *)
Each(table, codes) == [k \in 1..Len(codes) |-> <<table, codes[k]>>]
RolesThenGrants(role, grant, roles, granted) ==
  FlattenSeq([k \in 1..Len(roles) |->
    << <<role, roles[k]>> >>
      \o [g \in 1..Len(granted[roles[k]]) |-> <<grant, roles[k], granted[roles[k]][g]>>]])

(* Every role lists its permissions in the order of the permissions. *)
Permissions ==
  <<"company:read", "company:write", "staff:invite", "payroll:read", "payroll:write",
    "payroll:finalize", "tax:compute", "tax:confirm", "compliance:read", "compliance:write",
    "documents:read", "documents:write", "ai_assistant:use">>
NotGranted ==
  [business_owner |->
     {"payroll:write", "payroll:finalize", "tax:compute", "tax:confirm", "compliance:write"},
   accountant |-> {"company:write", "staff:invite"},
   bookkeeper |->
     {"company:write", "staff:invite", "payroll:finalize", "tax:confirm", "compliance:write"},
   firm_admin |-> {}, administrator |-> {}]
RolePermissions ==
  [role \in DOMAIN NotGranted |->
     SelectSeq(Permissions, LAMBDA p : p \notin NotGranted[role])]

RolesAndPermissions ==
  Each("permission", Permissions)
    \o RolesThenGrants("role", "grant",
         <<"business_owner", "accountant", "bookkeeper", "firm_admin", "administrator">>,
         RolePermissions)

FirmPermissions ==
  <<"firm:dashboard:view", "firm:manage", "firm:staff:invite", "firm:staff:manage_roles",
    "firm:clients:manage", "firm:clients:assign", "firm:billing:manage">>
FirmRoles == <<"firm_owner", "firm_admin", "firm_accountant", "firm_bookkeeper", "firm_auditor">>
FirmRolePermissions ==
  [role \in ToSet(FirmRoles) |->
     CASE role = "firm_owner" -> FirmPermissions
       [] role = "firm_admin" -> Front(FirmPermissions)
       [] OTHER -> <<"firm:dashboard:view">>]

FirmRolesAndPermissions ==
  Each("firm permission", FirmPermissions)
    \o RolesThenGrants("firm role", "firm grant", FirmRoles, FirmRolePermissions)

-----------------------------------------------------------------------------
(* Stands for JavaScript's Infinity: above every amount in use. *)
Infinity == 2000000000

Bracket(min, max, rate) == [min |-> min, max |-> max, rate |-> rate]
Flat(rate) == <<Bracket(0, Infinity, rate)>>
CappedAt(limit, rate) == <<Bracket(0, limit, rate), Bracket(limit, Infinity, 0)>>

FlatRates ==
  [VAT_RATE |-> Flat(24), PERCENTAGE_TAX_RATE |-> Flat(6), EWT_RATE_DEFAULT |-> Flat(4)]

ContributionRates ==
  [SSS_EMPLOYEE_CONTRIBUTION_RATE |-> CappedAt(35000, 10),
   PHILHEALTH_EMPLOYEE_CONTRIBUTION_RATE |-> CappedAt(100000, 5),
   PAGIBIG_EMPLOYEE_CONTRIBUTION_RATE |-> CappedAt(10000, 4)]

IncomeTaxBrackets ==
  <<Bracket(0, 250000, 0), Bracket(250000, 400000, 30), Bracket(400000, 800000, 40),
    Bracket(800000, 2000000, 50), Bracket(2000000, 8000000, 60), Bracket(8000000, Infinity, 70)>>

WithholdingBrackets ==
  <<Bracket(0, 20833, 0), Bracket(20833, 33333, 30), Bracket(33333, 66667, 40),
    Bracket(66667, 166667, 50), Bracket(166667, 666667, 60), Bracket(666667, Infinity, 70)>>

Rates ==
  FlatRates @@ ContributionRates
    @@ [VAT_REGISTRATION_THRESHOLD |-> <<Bracket(0, Infinity, 3000000)>>,
        INCOME_TAX_BRACKETS |-> IncomeTaxBrackets,
        WITHHOLDING_COMP_BRACKETS |-> WithholdingBrackets]

RuleOrder ==
  <<"VAT_RATE", "PERCENTAGE_TAX_RATE", "EWT_RATE_DEFAULT",
    "SSS_EMPLOYEE_CONTRIBUTION_RATE", "PHILHEALTH_EMPLOYEE_CONTRIBUTION_RATE",
    "PAGIBIG_EMPLOYEE_CONTRIBUTION_RATE", "VAT_REGISTRATION_THRESHOLD",
    "INCOME_TAX_BRACKETS", "WITHHOLDING_COMP_BRACKETS">>

RuleRow(r) == <<"rule", r>>
RateRow(r, k) == <<"rate", r, k>>
TaxRules ==
  FlattenSeq([i \in 1..Len(RuleOrder) |->
    <<RuleRow(RuleOrder[i])>>
      \o [k \in 1..Len(Rates[RuleOrder[i]]) |-> RateRow(RuleOrder[i], k)]])

-----------------------------------------------------------------------------
FormTemplates ==
  Each("form template",
       <<"2303", "2307", "0619E", "1601EQ", "1601C", "1701Q", "1701", "1702Q", "1702RT", "2550Q",
         "2551Q", "SSS_CONTRIBUTION", "PHILHEALTH_CONTRIBUTION", "PAGIBIG_CONTRIBUTION">>)
PlatformAdmin == << <<"platform admin">> >>

(* main. The administrator is seeded when its variables are set. *)
SeedList ==
  RolesAndPermissions \o FirmRolesAndPermissions \o TaxRules \o FormTemplates \o PlatformAdmin

(* What an upsert looks up first is behind it: findUniqueOrThrow finds the
   permission of a grant, and the role and the rule were upserted just before. *)
ASSUME GrantsFindTheirPermission ==
  \A k \in DOMAIN SeedList :
    \A of \in {<<"grant", "permission">>, <<"firm grant", "firm permission">>} :
      SeedList[k][1] = of[1] => \E j \in 1..(k - 1) : SeedList[j] = <<of[2], SeedList[k][3]>>
=============================================================================
