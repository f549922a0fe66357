------------------------------ MODULE TaxReturns ------------------------------
(* The income tax of one company and one year: its profile, heads of income,  *)
(* deductions, losses, credits and payments, the computations made of them    *)
(* with their snapshots, and the preparation of the return                    *)
(* (app/services/income_tax_*, capital_gain_, deduction_, tax_credit_,        *)
(* business_income_ and itr_preparation_service.py).                          *)
EXTENDS CaseDesk, IncomeTaxFigures

CONSTANTS Entries,       \* ids for what is recorded under the heads
          Payloads,      \* by head, what a creation may record
          Patched,       \* by head, the columns that an update may set together
          Books,         \* what the posted documents and journals add up to
          Rules,         \* <<taxpayer type, regime>> to the active rule set
          Computations,  \* ids for computations
          MaxSnapshots   \* a computation is calculated so many times

(* What can be recorded, and its columns: heads of income, deductions,        *)
(* losses, credits.  Most columns are amounts.                                *)
Columns ==
  [salary     |-> {"gross", "allowances", "perquisites", "profit", "standard", "professional", "tds"},
   house      |-> {"rent", "municipal", "letOut", "interest"},
   other      |-> {"gross", "tds"},
   gains      |-> {"sale", "transfer", "purchase", "improvement", "byIndex", "indexed"},
   deduction  |-> {"section", "claimed"},
   loss       |-> {"amount", "setoff"},
   adjustment |-> {"book", "tax"},
   exempt |-> {"amount"}, credit |-> {"amount"}, advance |-> {"amount"}, self |-> {"amount"}]
Heads    == DOMAIN Columns
NotMoney == {"section", "letOut", "byIndex"}

(* A payload says any amount, with any decimals and of either sign; a loss    *)
(* has no set-off when it is recorded.                                        *)
ASSUME TaxAssumption ==
  /\ MaxSnapshots \in Nat /\ DOMAIN Payloads = Heads /\ DOMAIN Patched = Heads
  /\ \A head \in Heads : \A g \in Payloads[head] :
       g = [c \in Columns[head] |-> g[c]] /\ \A c \in Columns[head] \ NotMoney : g[c] \in Int
  /\ \A g \in Payloads["loss"] : g.setoff = 0

VARIABLES profile,    \* income_tax_profiles: the taxpayer type, or None
          hasBank,    \* whether an active bank account is on record
          treatment,  \* income_tax_ledger_classifications, by ledger
          entry,      \* what is recorded: None, or a row of its head
          comp,       \* tax_computations, by id, or None
          snap,       \* tax_computation_snapshots, by computation and version
          prep        \* itr_preparations, by computation, or None

taxVars == <<profile, hasBank, treatment, entry, comp, snap, prep>>

TaxComputationStatus ==
  {"DRAFT", "CALCULATED", "REVIEW_REQUIRED", "READY_FOR_REVIEW", "APPROVED", "LOCKED", "CANCELLED"}
ITRPreparationStatus ==
  {"DRAFT", "IN_PROGRESS", "VALIDATION_REQUIRED", "READY_FOR_REVIEW", "APPROVED", "LOCKED"}
TaxpayerType == {"INDIVIDUAL", "HUF", "PARTNERSHIP", "LLP", "COMPANY", "TRUST", "OTHER"}

(* _TRANSITIONS of a computation.                                             *)
ComputationMoves ==
  ({"CALCULATED", "REVIEW_REQUIRED"} \X {"submit_review"} \X {"READY_FOR_REVIEW"})
  \cup {<<"READY_FOR_REVIEW", "approve", "APPROVED">>, <<"APPROVED", "lock", "LOCKED">>}
  \cup ({"DRAFT", "CALCULATED", "REVIEW_REQUIRED", "READY_FOR_REVIEW"} \X {"cancel"} \X {"CANCELLED"})
Calculable == {"DRAFT", "CALCULATED", "REVIEW_REQUIRED"}

(* _TRANSITIONS of a preparation.                                             *)
PreparationMoves ==
  ({"IN_PROGRESS", "VALIDATION_REQUIRED"} \X {"submit_review"} \X {"READY_FOR_REVIEW"})
  \cup {<<"READY_FOR_REVIEW", "approve", "APPROVED">>, <<"APPROVED", "lock", "LOCKED">>}

FigureNames ==
  {"salary", "house", "business", "gains", "other", "gross", "deductions", "taxable", "tax", "rebate",
   "surcharge", "cess", "liability", "tds", "advance", "self", "balance"}

TaxInit ==
  /\ profile = None /\ hasBank = FALSE
  /\ treatment = [l \in ExpenseLedgers |-> "NOT_CLASSIFIED"]
  /\ entry = [e \in Entries |-> None]
  /\ comp  = [c \in Computations |-> None]
  /\ snap  = [c \in Computations |-> <<>>]
  /\ prep  = [c \in Computations |-> None]

-------------------------------------------------------------------------------
(* Profile, bank accounts and the classification of ledgers.                  *)

(* The PAN is validated on creation and cannot be changed afterwards.         *)
SetProfile(w) ==
  /\ \/ Asked(w, "profile", "create") /\ profile = None
     \/ Asked(w, "profile", "update") /\ profile # None
  /\ profile' \in scene.types
  /\ UNCHANGED <<hasBank, treatment, entry, comp, snap, prep>> /\ UNCHANGED deskVars

SetBankAccount(w) ==
  /\ Asked(w, "bank", "set") /\ hasBank' = ~hasBank
  /\ UNCHANGED <<profile, treatment, entry, comp, snap, prep>> /\ UNCHANGED deskVars

Classify(w) ==
  /\ Asked(w, "ledger", "classify")
  /\ \E l \in ExpenseLedgers, t \in Treatments : treatment' = [treatment EXCEPT ![l] = t]
  /\ UNCHANGED <<profile, hasBank, entry, comp, snap, prep>> /\ UNCHANGED deskVars

-------------------------------------------------------------------------------
(* What is recorded under a head: given is what the request said, as the      *)
(* columns hold it, derived the column the service computes from what the     *)
(* request said.                                                              *)

Rows(head)         == {e \in Entries : entry[e] # None /\ entry[e].head = head}
SumOf(head, column) == Total([e \in Rows(head) |-> entry[e].given[column]])
SumDerived(head)    == Total([e \in Rows(head) |-> entry[e].derived])

(* What columns take of a payload, and what a session has of columns.         *)
Stored(g)   == [c \in DOMAIN g |-> IF c \in NotMoney THEN g[c] ELSE RoundMoney(g[c])]
Loaded(row) == [c \in DOMAIN row |-> IF c \in NotMoney THEN row[c] ELSE Exact(row[c])]

(* The derived amount: eligible_amount of a deduction is computed without a   *)
(* rule set, and what is exempt or was paid is only recorded.                 *)
Derive(head, g) ==
  IF head = "salary" THEN SalaryTaxable(g)
  ELSE IF head = "house" THEN HouseIncome(g)
  ELSE IF head = "other" THEN OtherNet(g)
  ELSE IF head = "gains" THEN GainAmount(g)
  ELSE IF head = "deduction" THEN Rounded(g.claimed)
  ELSE IF head = "loss" THEN CarriedForward(g)
  ELSE IF head = "adjustment" THEN Difference(g)
  ELSE 0

(* What an update makes of a loaded row.  A loss is recorded without a        *)
(* set-off, and then only its set-off is updated, between 0 and the loss.     *)
Revisions(head, g) ==
  IF head = "loss" THEN {[g EXCEPT !.setoff = n] : n \in 0..g.amount}
  ELSE {[c \in DOMAIN g |-> IF c \in set THEN p[c] ELSE g[c]] : p \in Payloads[head], set \in Patched[head]}

EntryRow(head, g) == [head |-> head, given |-> Stored(g), derived |-> RoundMoney(Derive(head, g))]

CreateEntry(w, head) ==
  /\ Asked(w, head, "create")
  /\ \E e \in Entries, g \in Payloads[head] :
       entry[e] = None /\ entry' = [entry EXCEPT ![e] = EntryRow(head, g)]
  /\ UNCHANGED <<profile, hasBank, treatment, comp, snap, prep>> /\ UNCHANGED deskVars

AskUpdate(w, head) ==
  /\ Asked(w, head, "update")
  /\ \E e \in Rows(head) : \E g \in Revisions(head, Loaded(entry[e].given)) :
       Serve(w, "entry", "update", e, g, entry[e])
  /\ UNCHANGED taxVars

(* A column is written when what it is set to is not what was loaded, be it   *)
(* by less than the column can hold.                                          *)
StoredOver(new, seen, now) ==
  [c \in DOMAIN now |-> IF new[c] = Loaded(seen)[c] THEN now[c] ELSE Stored(new)[c]]

MutantWriteUpdate(w, head) ==
  LET q == worker[w] IN
  /\ q.pc = "entry" /\ q.seen.head = head /\ entry[q.id].head = head
  /\ entry' = [entry EXCEPT ![q.id].given = StoredOver(q.args, q.seen.given, @)]
  /\ Done(w) /\ UNCHANGED <<profile, hasBank, treatment, comp, snap, prep>>

(* The UPDATE of a row that has been deleted since fails.                     *)
WriteUpdate(w, head) ==
  LET q == worker[w]
      derived == Derive(head, q.args)
  IN /\ q.pc = "entry" /\ q.seen.head = head /\ entry[q.id].head = head
     /\ entry' = [entry EXCEPT
                    ![q.id].given   = StoredOver(q.args, q.seen.given, @),
                    ![q.id].derived = IF derived = Exact(q.seen.derived) THEN @ ELSE RoundMoney(derived)]
     /\ Done(w) /\ UNCHANGED <<profile, hasBank, treatment, comp, snap, prep>>

(* Ids are not used again.                                                    *)
DeleteEntry(w, head) ==
  /\ Asked(w, head, "delete")
  /\ \E e \in Rows(head) : entry' = [entry EXCEPT ![e] = [head |-> "deleted"]]
  /\ UNCHANGED <<profile, hasBank, treatment, comp, snap, prep>> /\ UNCHANGED deskVars

(* The heads.                                                                 *)
Edit(w, head) == AskUpdate(w, head) \/ WriteUpdate(w, head)

Salary(w)        == CreateEntry(w, "salary") \/ Edit(w, "salary") \/ DeleteEntry(w, "salary")
HouseProperty(w) == CreateEntry(w, "house") \/ Edit(w, "house") \/ DeleteEntry(w, "house")
OtherIncome(w)   == CreateEntry(w, "other") \/ Edit(w, "other") \/ DeleteEntry(w, "other")
CapitalGain(w)   == CreateEntry(w, "gains") \/ Edit(w, "gains") \/ DeleteEntry(w, "gains")
Deduction(w)     == CreateEntry(w, "deduction") \/ Edit(w, "deduction") \/ DeleteEntry(w, "deduction")
Loss(w)          == CreateEntry(w, "loss") \/ Edit(w, "loss")
Adjustment(w)    == CreateEntry(w, "adjustment") \/ DeleteEntry(w, "adjustment")
ExemptIncome(w)  == CreateEntry(w, "exempt") \/ DeleteEntry(w, "exempt")

TaxCredit(w)         == CreateEntry(w, "credit")
AdvanceTax(w)        == CreateEntry(w, "advance")
SelfAssessmentTax(w) == CreateEntry(w, "self")

-------------------------------------------------------------------------------
(* Computations.                                                              *)

(* create looks for a computation that is not cancelled, and inserts one: no  *)
(* index keeps a second out.                                                  *)
Active == {c \in Computations : comp[c] # None /\ comp[c].status # "CANCELLED"}

ComputationRow(regime) == [status |-> "DRAFT", regime |-> regime, fig |-> [n \in FigureNames |-> 0]]

AskComputation(w) ==
  /\ Asked(w, "computation", "create") /\ Active = {}
  /\ \E regime \in {k[2] : k \in DOMAIN Rules} : Serve(w, "computation", "create", None, regime, None)
  /\ UNCHANGED taxVars

(* A new id has neither a row nor snapshots.                                  *)
CreateComputation(w) ==
  /\ worker[w].pc = "computation"
  /\ \E c \in Computations :
       /\ comp[c] = None /\ snap[c] = <<>>
       /\ comp' = [comp EXCEPT ![c] = ComputationRow(worker[w].args)]
  /\ Done(w) /\ UNCHANGED <<profile, hasBank, treatment, entry, snap, prep>>

(* calculate: the row and its status, the profile and the rule set; then the  *)
(* rows of every head, one SELECT after another; then the columns and the     *)
(* snapshot in one commit.                                                    *)
RulesNow(c) == <<profile, comp[c].regime>>

AskCalculate(w) ==
  /\ Asked(w, "computation", "calculate") /\ profile # None
  /\ \E c \in Computations :
       /\ comp[c] # None /\ comp[c].status \in Calculable /\ Len(snap[c]) < MaxSnapshots
       /\ RulesNow(c) \in DOMAIN Rules
       /\ Serve(w, "income", "calculate", c, [rules |-> RulesNow(c)], comp[c])
  /\ UNCHANGED taxVars

Adding(read, before) ==
  [n \in DOMAIN read \cup DOMAIN before |-> IF n \in DOMAIN read THEN read[n] ELSE before[n]]

Carry(w, pc, read) ==
  /\ worker' = [worker EXCEPT ![w].pc = pc, ![w].args = Adding(read, @)]
  /\ UNCHANGED scene /\ UNCHANGED taxVars

BooksNow == [sales |-> Books.sales, salesReturns |-> Books.salesReturns, purchases |-> Books.purchases,
             purchaseReturns |-> Books.purchaseReturns, income |-> Books.income, expense |-> Books.expense,
             treatment |-> treatment]

IncomeNow ==
  [salary   |-> SumDerived("salary"), house |-> SumDerived("house"),
   business |-> BusinessIncome(BooksNow, SumDerived("adjustment")), review |-> NeedsReview(BooksNow)]
ReadIncome(w) == worker[w].pc = "income" /\ Carry(w, "rest", IncomeNow)

RestNow(k) ==
  [gains  |-> SumDerived("gains"), other |-> SumDerived("other"), setoff |-> SumOf("loss", "setoff"),
   claims |-> Total([e \in Rows("deduction") |-> EligibleAmount(entry[e].given, Rules[k])])]
ReadRest(w) == worker[w].pc = "rest" /\ Carry(w, "credits", RestNow(worker[w].args.rules))

CreditsNow ==
  [tds     |-> SumOf("salary", "tds") + SumOf("other", "tds") + SumOf("credit", "amount"),
   advance |-> SumOf("advance", "amount"), self |-> SumOf("self", "amount")]
ReadCredits(w) == worker[w].pc = "credits" /\ Carry(w, "figures", CreditsNow)

(* The figures of what has been read, with the tax that is due on it.         *)
GrossTotal(r) == AtLeastZero(r.salary + r.house + r.business + r.gains + r.other - r.setoff)
Taxable(r)    == GrossTotal(r) - Min({r.claims, GrossTotal(r)})

Statement(r, due) ==
  [salary |-> r.salary, house |-> r.house, business |-> r.business, gains |-> r.gains, other |-> r.other,
   gross |-> GrossTotal(r), deductions |-> GrossTotal(r) - Taxable(r), taxable |-> Taxable(r),
   tax |-> due.tax, rebate |-> due.rebate, surcharge |-> due.surcharge, cess |-> due.cess,
   liability |-> due.liability, tds |-> r.tds, advance |-> r.advance, self |-> r.self,
   balance |-> due.liability - r.tds - r.advance - r.self]
Figures(r) == Statement(r, Liability(Taxable(r), Rules[r.rules]))

Outcome(r) ==
  IF Liability(Taxable(r), Rules[r.rules]).above \/ r.review THEN "REVIEW_REQUIRED" ELSE "CALCULATED"

MutantWriteFigures(w) ==
  LET q == worker[w] IN
  /\ q.pc = "figures"
  /\ comp' = [comp EXCEPT ![q.id].fig = Written(Figures(q.args), q.seen.fig, @),
                          ![q.id].status = Column(Outcome(q.args), q.seen.status, @)]
  /\ snap' = [snap EXCEPT ![q.id] = Append(@, Figures(q.args))]
  /\ Done(w) /\ UNCHANGED <<profile, hasBank, treatment, entry, prep>>

(* The row is refreshed after its UPDATE, which locks it until the commit:    *)
(* the snapshot copies what the row then holds.                               *)
WriteFigures(w) ==
  LET q == worker[w]
      row == [comp[q.id] EXCEPT !.fig = Written(Figures(q.args), q.seen.fig, @),
                                !.status = Column(Outcome(q.args), q.seen.status, @)]
  IN /\ q.pc = "figures"
     /\ comp' = [comp EXCEPT ![q.id] = row]
     /\ snap' = [snap EXCEPT ![q.id] = Append(@, row.fig)]
     /\ Done(w) /\ UNCHANGED <<profile, hasBank, treatment, entry, prep>>

LoadComputation(w) ==
  /\ \E c \in Computations, op \in {m[2] : m \in ComputationMoves} :
       /\ Asked(w, "computation", op) /\ comp[c] # None /\ Allows(ComputationMoves, comp[c].status, op)
       /\ Serve(w, "move", op, c, None, comp[c])
  /\ UNCHANGED taxVars

MoveComputation(w) ==
  LET q == worker[w] IN
  /\ q.pc = "move"
  /\ comp' = [comp EXCEPT ![q.id].status = Target(ComputationMoves, q.seen.status, q.op)]
  /\ Done(w) /\ UNCHANGED <<profile, hasBank, treatment, entry, snap, prep>>

-------------------------------------------------------------------------------
(* The preparation of the return.                                             *)

(* The form follows the figures and the profile of the time of creation; a    *)
(* unique index allows one preparation of a computation.                      *)
PreparationRow(form) == [status |-> "DRAFT", form |-> form]

AskPreparation(w) ==
  /\ Asked(w, "preparation", "create") /\ profile # None
  /\ \E c \in Computations :
       /\ comp[c] # None /\ prep[c] = None
       /\ Serve(w, "preparation", "create", c, FormType(profile, comp[c].fig.business, comp[c].fig.gains), None)
  /\ UNCHANGED taxVars

CreatePreparation(w) ==
  LET q == worker[w] IN
  /\ q.pc = "preparation" /\ prep[q.id] = None
  /\ prep' = [prep EXCEPT ![q.id] = PreparationRow(q.args)]
  /\ Done(w) /\ UNCHANGED <<profile, hasBank, treatment, entry, comp, snap>>

(* validate takes a preparation in any status, LOCKED included; approve       *)
(* validates as well.                                                         *)
LoadPreparation(w) ==
  /\ \E c \in Computations, op \in {"validate"} \cup {m[2] : m \in PreparationMoves} :
       /\ Asked(w, "preparation", op) /\ prep[c] # None
       /\ op # "validate" => Allows(PreparationMoves, prep[c].status, op)
       /\ Serve(w, IF op \in {"validate", "approve"} THEN "issues" ELSE "status", op, c, None, prep[c])
  /\ UNCHANGED taxVars

(* The issue that is an ERROR once there is a profile, whose PAN was checked: *)
(* no active bank account.                                                    *)
ReadIssues(w) ==
  LET q == worker[w] IN
  /\ q.pc = "issues" /\ (q.op = "approve" => hasBank)
  /\ worker' = [worker EXCEPT ![w].pc = "status", ![w].args = hasBank]
  /\ UNCHANGED scene /\ UNCHANGED taxVars

NewStatus(q) ==
  IF q.op # "validate" THEN Target(PreparationMoves, q.seen.status, q.op)
  ELSE IF q.args THEN "IN_PROGRESS" ELSE "VALIDATION_REQUIRED"

MovePreparation(w) ==
  LET q == worker[w] IN
  /\ q.pc = "status"
  /\ prep' = [prep EXCEPT ![q.id].status = Column(NewStatus(q), q.seen.status, @)]
  /\ Done(w) /\ UNCHANGED <<profile, hasBank, treatment, entry, comp, snap>>

TaxRequest(w) ==
  \/ SetProfile(w) \/ SetBankAccount(w) \/ Classify(w)
  \/ Salary(w) \/ HouseProperty(w) \/ OtherIncome(w) \/ CapitalGain(w) \/ Deduction(w) \/ Loss(w)
  \/ Adjustment(w) \/ ExemptIncome(w) \/ TaxCredit(w) \/ AdvanceTax(w) \/ SelfAssessmentTax(w)
  \/ AskComputation(w) \/ CreateComputation(w) \/ AskCalculate(w) \/ ReadIncome(w) \/ ReadRest(w)
  \/ ReadCredits(w) \/ WriteFigures(w) \/ LoadComputation(w) \/ MoveComputation(w)
  \/ AskPreparation(w) \/ CreatePreparation(w) \/ LoadPreparation(w) \/ ReadIssues(w) \/ MovePreparation(w)
================================================================================
