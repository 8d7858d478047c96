------------------------------ MODULE TaxEngine ------------------------------
(***************************************************************************)
(* The tax engine, the two callers that keep its amounts, and the script    *)
(* that gives it its rates: TaxEngineService, the payslips of               *)
(* PayrollService, and prisma/seed.ts through Seeding.                      *)
(*                                                                          *)
(* Nothing stops the engine from being asked while the script runs, or      *)
(* after it stopped half way: it then finds a rule with some of its rates.  *)
(*                                                                          *)
(* Bases are whole pesos and amounts whole centavos.  toFixed(2) of a       *)
(* product that ends in half a centavo goes up or down, as its floating     *)
(* point value has it.  At most one rate of a rule has half per cents, so   *)
(* rounding each bracket is rounding their sum.  All rates are in force in  *)
(* all periods asked for; a rule and its rates are read at once.            *)
(***************************************************************************)
EXTENDS SeedData, FiniteSets

CONSTANTS
  Script,   \* what the seed script upserts: SeedList, or (bound) its TaxRules, which are
            \* all the engine looks up
  Bases,    \* bound: the bases computed with, but for payslips
  Spent,    \* bound: expenses and deductions of an income tax
  Salaries, \* bound: the basic salaries
  Ids,      \* bound: rows of tax_computations and of payslips
  Slots,    \* requests handled at a time
  Seeders,  \* runs of the seed script at a time
  None      \* not given, no row, no amount

VARIABLES
  present, at, finished,  \* the script: see Seeding
  class,   \* companies.vat_classification
  call,    \* the requests in flight
  row      \* the tax computations and payslips there are

Seed == INSTANCE Seeding WITH List <- Script

ASSUME RowsAreDistinct == Seed!DistinctRows
ASSUME NumbersAssumption == Bases \cup Spent \cup Salaries \subseteq Nat /\ None \notin Nat

seeding == <<present, at, finished>>
vars == <<seeding, class, call, row>>

-----------------------------------------------------------------------------
(* The rules of a computation, in the order they are looked up *)

FlatRuleOf ==
  [vat |-> "VAT_RATE", percentage_tax |-> "PERCENTAGE_TAX_RATE", ewt |-> "EWT_RATE_DEFAULT"]
GraduatedRuleOf ==
  [withholding_comp |-> "WITHHOLDING_COMP_BRACKETS", income_tax |-> "INCOME_TAX_BRACKETS"]
RuleOf == FlatRuleOf @@ GraduatedRuleOf
Types == DOMAIN FlatRuleOf \cup DOMAIN GraduatedRuleOf

StatutoryRules ==
  <<"SSS_EMPLOYEE_CONTRIBUTION_RATE", "PHILHEALTH_EMPLOYEE_CONTRIBUTION_RATE",
    "PAGIBIG_EMPLOYEE_CONTRIBUTION_RATE">>
PayslipRules(numbered) ==
  (IF numbered THEN StatutoryRules ELSE <<>>) \o <<"WITHHOLDING_COMP_BRACKETS">>

-----------------------------------------------------------------------------
(* What a rule makes of a base, in half centavos *)

(* findActiveRule: the rates it finds, none if the rule has no row. *)
RatesFound(rule) ==
  IF RuleRow(rule) \notin present THEN {}
  ELSE {Rates[rule][k] : k \in {j \in DOMAIN Rates[rule] : RateRow(rule, j) \in present}}

ByMinimum(brackets) == SetToSortSeq(brackets, LAMBDA a, b : a.min < b.min)

\* mutant: the rate of a bracket is taken of the whole base
WholeBase(base, b) == IF base < b.max THEN base ELSE b.max

TaxableIn(base, b) == (IF base < b.max THEN base ELSE b.max) - b.min

(* One turn of the loop; once nothing is left it has ended. *)
AddBracket(base, acc, b) ==
  LET part == TaxableIn(base, b)
  IN  IF acc.left <= 0 \/ part <= 0 THEN acc
      ELSE [left |-> acc.left - part, due |-> acc.due + part * b.rate]

Graduated(base, brackets) ==
  FoldLeft(LAMBDA acc, b : AddBracket(base, acc, b),
           [left |-> base, due |-> 0], ByMinimum(brackets)).due

(* A flat rule uses the first of its rates, whichever that is. *)
Amounts(rule, base, brackets) ==
  IF rule \in {FlatRuleOf[t] : t \in DOMAIN FlatRuleOf}
  THEN {base * b.rate : b \in brackets}
  ELSE {Graduated(base, brackets)}

(* Half centavos as centavos. *)
Rounded(half) == {half \div 2, (half + 1) \div 2}

-----------------------------------------------------------------------------
Statuses == {"draft", "confirmed"}
Kinds == Types \cup {"payslip"}

(* `settled` is history: every rule was looked up after a run of the script
   came to its end. *)
NoCall == [kind |-> None]
Request(kind, base, missing, todo) ==
  [kind |-> kind, base |-> base, missing |-> missing, todo |-> todo, due |-> 0, settled |-> TRUE]
(* Bound: nothing is asked for that there is no row left for. *)
MayAsk(s) == call[s] = NoCall /\ \E i \in Ids : row[i] = None
Asks(s, request) == call' = [call EXCEPT ![s] = request]

Init ==
  /\ Seed!Init
  /\ class \in {"vat", "non_vat"}
  /\ call = [s \in Slots |-> NoCall]
  /\ row = [i \in Ids |-> None]

(* The notes of a VAT asked for by another company, and of a percentage tax
   asked for by a VAT company: pushed next to what is missing. *)
Mismatch(type) ==
  IF <<type, class>> \in {<<"vat", "non_vat">>, <<"percentage_tax", "vat">>}
  THEN {"class"} ELSE {}

MissingBase(base) == IF base = None THEN {"base"} ELSE {}

(* The company is read first; every base but the income tax's goes as it is. *)
Compute(s) ==
  \E type \in Types \ {"income_tax"}, base \in Bases \cup {None} :
    /\ MayAsk(s)
    /\ Asks(s, Request(type, base, MissingBase(base) \cup Mismatch(type), <<RuleOf[type]>>))
    /\ UNCHANGED <<seeding, class, row>>

(* Without gross sales or receipts no rule is looked up. *)
ComputeIncomeTax(s) ==
  \E gross \in Bases \cup {None}, spent \in Spent :
    /\ MayAsk(s)
    /\ Asks(s, IF gross = None THEN Request("income_tax", None, {"base"}, <<>>)
               ELSE Request("income_tax", IF gross > spent THEN gross - spent ELSE 0, {},
                            <<RuleOf["income_tax"]>>))
    /\ UNCHANGED <<seeding, class, row>>

(* One employee's turn in the loop of computePayrollRun. *)
Pay(s) ==
  \E salary \in Salaries, numbered \in BOOLEAN :
    /\ MayAsk(s)
    /\ Asks(s, Request("payslip", salary, IF numbered THEN {} ELSE {"numbers"},
                       PayslipRules(numbered)))
    /\ UNCHANGED <<seeding, class, row>>

(* computeFlatRate and computeGraduated, from the rule's query on. *)
LookUp(s) ==
  /\ call[s] # NoCall /\ call[s].todo # <<>>
  /\ LET c == call[s]
         rule == Head(c.todo)
         found == RatesFound(rule)
         missing == IF found = {} THEN c.missing \cup {rule} ELSE c.missing
     IN  \E due \in IF found = {} \/ c.base = None THEN {0}
                    ELSE UNION {Rounded(h) : h \in Amounts(rule, c.base, found)} :
           Asks(s, [c EXCEPT !.missing = missing, !.todo = Tail(c.todo), !.due = c.due + due,
                             !.settled = c.settled /\ finished])
  /\ UNCHANGED <<seeding, class, row>>

(* A note on the company's class does not take the result away. *)
ResultOf(c) == IF c.missing \subseteq {"class"} THEN c.due ELSE None

NetPay(c) == 100 * c.base - c.due

(* The row of the computation, or of the payslip. *)
Create(s) ==
  \E i \in Ids :
    /\ call[s] # NoCall /\ call[s].todo = <<>>
    /\ row[i] = None
    /\ LET c == call[s]
       IN  row' = [row EXCEPT ![i] =
                     [kind |-> c.kind, base |-> c.base, missing |-> c.missing,
                      amount |-> IF c.kind = "payslip" THEN NetPay(c) ELSE ResultOf(c),
                      status |-> "draft", settled |-> c.settled]]
    /\ Asks(s, NoCall)
    /\ UNCHANGED <<seeding, class>>

UpdateClass ==
  /\ class' \in {"vat", "non_vat"} \ {class}
  /\ UNCHANGED <<seeding, call, row>>

(* A computation of the company in the route: listForCompany, getById, confirm. *)
Exists(i) == row[i] # None /\ row[i].kind # "payslip"

(* Any client of the route, the tax page among them, asks for any computation
   of the company: neither its status nor its result is looked at. *)
Confirm(i) ==
  /\ Exists(i)
  /\ row' = [row EXCEPT ![i].status = "confirmed"]
  /\ UNCHANGED <<seeding, class, call>>

Next ==
  \/ \E s \in Slots : Compute(s) \/ ComputeIncomeTax(s) \/ Pay(s) \/ LookUp(s) \/ Create(s)
  \/ \E i \in Ids : Confirm(i)
  \/ UpdateClass
  \/ Seed!Next /\ UNCHANGED <<class, call, row>>

Spec == Init /\ [][Next]_vars

-----------------------------------------------------------------------------
TypeOK ==
  /\ Seed!TypeOK
  /\ \A i \in Ids : row[i] # None =>
       /\ row[i].kind \in Kinds
       /\ row[i].kind = "payslip" => row[i].base \in Salaries /\ row[i].status = "draft"
       /\ row[i].status \in Statuses

(* The records of requests, and of rows, are those made above. *)
RequestsFormed ==
  /\ call = [s \in Slots |-> call[s]]
  /\ \A s \in Slots : LET c == call[s] IN c # NoCall =>
       /\ c = [kind |-> c.kind, base |-> c.base, missing |-> c.missing, todo |-> c.todo,
               due |-> c.due, settled |-> c.settled]
       /\ c.kind \in Kinds /\ (c.kind = "payslip" => c.base \in Salaries)

RowsFormed ==
  /\ row = [i \in Ids |-> row[i]]
  /\ \A i \in Ids : LET r == row[i] IN r # None =>
       r = [kind |-> r.kind, base |-> r.base, missing |-> r.missing, amount |-> r.amount,
            status |-> r.status, settled |-> r.settled]

(* The schedule as the law words it: every bracket's rate is what it adds, on
   what is above its minimum. *)
Schedule(rule, base) ==
  LET r == Rates[rule]
      Adds(k) == r[k].rate - (IF k = 1 THEN 0 ELSE r[k - 1].rate)
  IN  MapThenSumSet(LAMBDA k : IF base > r[k].min THEN Adds(k) * (base - r[k].min) ELSE 0,
                    DOMAIN r)

(* n: how many contributions a payslip deducts, all or none. *)
Owed(kind, base, n) ==
  MapThenSumSet(LAMBDA r : Schedule(r, base),
                IF kind = "payslip" THEN ToSet(PayslipRules(n # 0)) ELSE {RuleOf[kind]})

Contributions(c) == IF "numbers" \in c.missing THEN 0 ELSE 3
Lawful(i) == Owed(row[i].kind, row[i].base, Contributions(row[i]))
Charged(i) == IF row[i].kind = "payslip" THEN 100 * row[i].base - row[i].amount ELSE row[i].amount
HasAmount(i) == row[i] # None /\ row[i].amount # None

(* Once the script has come to its end, every amount is the schedule's, to the
   centavo, wherever the base lies: on a limit, in the open last bracket, above
   a ceiling; and a payslip deducts the sum of four. *)
SeededIsExact ==
  \A i \in Ids : HasAmount(i) /\ row[i].settled =>
    2 * Charged(i) - Lawful(i) \in {-1, 0, 1}

(* Rates found half way through the script, or after it stopped there, may make
   an amount too small but never too big. *)
NeverOvercharged ==
  /\ TypeOK
  /\ \A i \in Ids : HasAmount(i) => 2 * Charged(i) <= Lawful(i) + 1

(* What the user manual says of computations: once a result exists, Confirm
   locks it in. The service confirms one that never had a result. *)
ConfirmedHasResult ==
  \A i \in Ids : Exists(i) /\ row[i].status = "confirmed" => row[i].amount # None

-----------------------------------------------------------------------------
(* Invariants that imply these. *)

IInv == TypeOK /\ RequestsFormed /\ RowsFormed /\ Seed!IInv

(* What the dues may be once a rule is looked up: with all of its rates if the
   script had come to its end, else with any of them. *)
AllRates(rule) == {Rates[rule][k] : k \in DOMAIN Rates[rule]}
Founds(rule, settled) == IF settled THEN {AllRates(rule)} ELSE SUBSET AllRates(rule)
DueFrom(rule, base, found) ==
  IF found = {} THEN {0} ELSE UNION {Rounded(h) : h \in Amounts(rule, base, found)}
More(rule, base, settled) == UNION {DueFrom(rule, base, found) : found \in Founds(rule, settled)}
Adding(dues, rule, base, settled) ==
  {due + more : due \in dues, more \in More(rule, base, settled)}

(* The dues of a payslip after its first n contributions, and of a request. *)
Contributed(n, base, settled) ==
  LET Then(dues, k) == Adding(dues, StatutoryRules[k], base, settled)
  IN  CASE n = 0 -> {0}
        [] n = 1 -> Then({0}, 1)
        [] n = 2 -> Then(Then({0}, 1), 2)
        [] n = 3 -> Then(Then(Then({0}, 1), 2), 3)
DuesOf(kind, base, n, settled) ==
  IF kind # "payslip" THEN Adding({0}, RuleOf[kind], base, settled)
  ELSE Adding(Contributed(n, base, settled), "WITHHOLDING_COMP_BRACKETS", base, settled)

Asked(kind) ==
  CASE kind = "payslip" -> Salaries
    [] kind = "income_tax" -> {IF g > d THEN g - d ELSE 0 : g \in Bases, d \in Spent}
    [] OTHER -> Bases

(* The dues of a request so far are those of the rules it has looked up. *)
PayslipRest(n) ==
  LET tax == "WITHHOLDING_COMP_BRACKETS" IN
  CASE n = 0 -> <<StatutoryRules[1], StatutoryRules[2], StatutoryRules[3], tax>>
    [] n = 1 -> <<StatutoryRules[2], StatutoryRules[3], tax>>
    [] n = 2 -> <<StatutoryRules[3], tax>>
    [] n = 3 -> <<tax>>
DuesSoFar(c) ==
  /\ c.settled \in BOOLEAN
  /\ "base" \in c.missing \/ c.base \in Asked(c.kind)
  /\ \/ c.kind # "payslip" /\ "base" \in c.missing
     \/ c.kind # "payslip" /\ c.todo = <<RuleOf[c.kind]>> /\ c.due = 0
     \/ c.kind = "payslip" /\ \E n \in 3 - Contributions(c)..3 :
          /\ c.todo = PayslipRest(n)
          /\ c.due \in Contributed(IF n = 3 THEN Contributions(c) ELSE n, c.base, c.settled)
     \/ c.todo = <<>> /\ c.due \in DuesOf(c.kind, c.base, Contributions(c), c.settled)

AmountOK(r) ==
  /\ r.settled \in BOOLEAN /\ r.base \in Asked(r.kind)
  /\ \E due \in DuesOf(r.kind, r.base, Contributions(r), r.settled) :
       r.amount = IF r.kind = "payslip" THEN 100 * r.base - due ELSE due

(* No request, and no row with an amount, has any other. *)
SumsOK ==
  /\ \A s \in Slots : call[s] # NoCall => DuesSoFar(call[s])
  /\ \A i \in Ids : HasAmount(i) => AmountOK(row[i])

(* What the engine makes of a base is never more than is owed, whichever rates
   it finds, and with all of them it is that, to the centavo: a fact about the
   bracket loop and the rates, the same in every state. *)
EngineIsRight ==
  \A kind \in Kinds : \A base \in Asked(kind), n \in {0, 3}, settled \in BOOLEAN :
    \A due \in DuesOf(kind, base, n, settled) :
      /\ due \in Int /\ 2 * due <= Owed(kind, base, n) + 1
      /\ settled => 2 * due - Owed(kind, base, n) \in {-1, 0, 1}

(* The script holds every rate of the rules looked up. *)
ASSUME RatesAreListed ==
  \A rule \in {RuleOf[t] : t \in Types} \cup ToSet(PayslipRules(TRUE)) :
    /\ RuleRow(rule) \in Seed!Rows
    /\ \A k \in DOMAIN Rates[rule] : RateRow(rule, k) \in Seed!Rows
=============================================================================
