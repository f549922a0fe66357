--------------------------- MODULE IncomeTaxFigures ---------------------------
(* The arithmetic of income tax: the slab calculator                          *)
(* (app/services/income_tax_calculator.py), what each head of income and each *)
(* deduction comes to (the income, capital gain, deduction and loss           *)
(* services), business income from the books (business_income_service.py) and *)
(* the form of the return (itr_validation_service.py).                        *)
(*                                                                            *)
(* Rates are percent.  Amounts are whole paise, except under the heads of     *)
(* income: there they are what a payload says, counted as Money counts them.  *)
EXTENDS Money, Sequences, Sums

(* A limit that is NULL: no limit is negative.                                *)
Missing == 0 - 1

AtLeastZero(a) == Max({a, 0})
Total(f) == SumOver(f, DOMAIN f)

(* round_money of an amount in hundredths of a paisa: half a paisa goes up.   *)
Round(hundredths) == (hundredths + 50) \div 100
Percent(amount, rate) == Round(amount * rate)

-------------------------------------------------------------------------------
(* Slabs, rebate, surcharge with marginal relief, cess.                       *)

(* The part of the income that falls into a slab.                             *)
Band(income, slab) ==
  AtLeastZero((IF slab.upper = Missing THEN income ELSE Min({slab.upper, income})) - slab.lower)

SlabTax(income, slabs) ==
  Round(Total([i \in DOMAIN slabs |-> Band(income, slabs[i]) * slabs[i].rate]))

(* The first rule whose maximum income is not passed gives the rebate.        *)
Rebate(income, tax, rules) ==
  LET fits == {i \in DOMAIN rules : income <= rules[i].maximum} IN
  IF fits = {} THEN 0 ELSE Min({tax, rules[Min(fits)].rebate})

TaxAfterRebate(income, rules) ==
  SlabTax(income, rules.slabs) - Rebate(income, SlabTax(income, rules.slabs), rules.rebates)

MutantMarginalRelief(income, flat, n, rules) == 0

(* Tax and surcharge together may not exceed what they are at the threshold   *)
(* of the n-th rule, with the surcharge of the rule before, by more than the  *)
(* income exceeds the threshold.                                              *)
MarginalRelief(income, flat, n, rules) ==
  LET threshold == rules.surcharges[n].threshold
      prior == IF n = 1 THEN 0 ELSE rules.surcharges[n - 1].rate
      there == TaxAfterRebate(threshold, rules)
      cap == there + Percent(there, prior) + (income - threshold)
  IN IF flat = 0 THEN 0 ELSE Min({flat, AtLeastZero(TaxAfterRebate(income, rules) + flat - cap)})

(* How many of the thresholds, in ascending order, the income is above.       *)
Crossed(income, rules) == Cardinality({i \in DOMAIN rules.surcharges : income > rules.surcharges[i].threshold})

Surcharge(income, rules) ==
  LET n == Crossed(income, rules)
      flat == Percent(TaxAfterRebate(income, rules), rules.surcharges[n].rate)
  IN IF n = 0 THEN 0 ELSE AtLeastZero(flat - MarginalRelief(income, flat, n, rules))

(* compute_gross_tax_liability.                                               *)
Liability(income, rules) ==
  LET tax   == SlabTax(income, rules.slabs)
      after == TaxAfterRebate(income, rules)
      extra == Surcharge(income, rules)
      cess  == Percent(after + extra, rules.cess)
  IN [tax |-> tax, rebate |-> tax - after, surcharge |-> extra, cess |-> cess,
      liability |-> after + extra + cess, above |-> Crossed(income, rules) > 0]

(* The rule sets that are on record, which seed.py alone inserts: slabs that   *)
(* follow each other up to one without an upper limit, rebates that never     *)
(* grow, for incomes below every surcharge threshold, and thresholds and      *)
(* rates that rise, so far apart that the relief above one threshold has run  *)
(* out at the next.                                                           *)
SlabsAscend(slabs) ==
  /\ slabs \in Seq([lower : Nat, upper : Nat \cup {Missing}, rate : 0..100])
  /\ \A i \in DOMAIN slabs : slabs[i].upper = Missing \/ slabs[i].lower <= slabs[i].upper
  /\ \A i, j \in DOMAIN slabs : i < j => slabs[i].upper \in 0..slabs[j].lower

RebatesDescend(rules) ==
  /\ rules.rebates \in Seq([maximum : Nat, rebate : Nat])
  /\ \A i, j \in DOMAIN rules.rebates : i < j => rules.rebates[i].rebate >= rules.rebates[j].rebate
  /\ \A i \in DOMAIN rules.rebates, n \in DOMAIN rules.surcharges :
       rules.rebates[i].maximum < rules.surcharges[n].threshold

SurchargesAscend(rules) ==
  LET at(n) == rules.surcharges[n].threshold IN
  /\ rules.surcharges \in Seq([threshold : Nat, rate : Nat])
  /\ \A m, n \in DOMAIN rules.surcharges :
       m < n => at(m) < at(n) /\ rules.surcharges[m].rate <= rules.surcharges[n].rate
  /\ \A n \in DOMAIN rules.surcharges :
       n > 1 => MarginalRelief(at(n), Percent(TaxAfterRebate(at(n), rules), rules.surcharges[n - 1].rate), n - 1, rules) = 0

Ascending(rules) == SlabsAscend(rules.slabs) /\ RebatesDescend(rules) /\ SurchargesAscend(rules)

-------------------------------------------------------------------------------
(* Heads of income.                                                           *)

(* round_money: a Decimal with two decimals.                                  *)
Rounded(n) == Exact(RoundMoney(n))

SalaryTaxable(r) ==
  Rounded(AtLeastZero(r.gross + r.allowances + r.perquisites + r.profit - r.standard - r.professional))

(* 30 % of the net annual value is deducted for a property that is let out.   *)
HouseIncome(r) ==
  LET net == RoundMoney(AtLeastZero(r.rent - r.municipal)) IN
  Rounded(Exact(net - (IF r.letOut THEN Percent(net, 30) ELSE 0)) - r.interest)

OtherNet(r)   == Rounded(r.gross - r.tds)
GainAmount(r) == Rounded(r.sale - r.transfer - (IF r.byIndex THEN r.indexed ELSE r.purchase + r.improvement))

(* What a claimed deduction counts for under a rule set, in paise.            *)
EligibleAmount(r, rules) ==
  IF r.section \notin DOMAIN rules.deductions \/ ~rules.deductions[r.section].allowed THEN 0
  ELSE IF rules.deductions[r.section].limit = Missing THEN r.claimed
  ELSE Min({r.claimed, rules.deductions[r.section].limit})

CarriedForward(r) == r.amount - r.setoff
Difference(r)     == Rounded(r.tax - r.book)

-------------------------------------------------------------------------------
(* Business income.                                                           *)

ExpenseLedgers == {"purchase", "other"}
Treatments == {"NOT_CLASSIFIED", "REVIEW_REQUIRED", "ALLOWABLE", "DISALLOWABLE"}

(* What the posted journals moved on INCOME ledgers, those of invoices left   *)
(* out by their source_reference: manual ones, and those of credit notes.     *)
LedgerIncome(d) == d.income - d.salesReturns

(* What they moved on each EXPENSE ledger: debit notes post a purchase return *)
(* to the purchase account.                                                   *)
LedgerExpense(d) == [l \in ExpenseLedgers |-> IF l = "purchase" THEN 0 - d.purchaseReturns ELSE d.expense]

Disallowed(d) ==
  Total([l \in ExpenseLedgers |-> IF d.treatment[l] = "DISALLOWABLE" THEN LedgerExpense(d)[l] ELSE 0])

(* Some expense ledger with postings has no settled treatment.  Bound: an     *)
(* amount other than zero stands for the presence of postings.                *)
NeedsReview(d) ==
  \E l \in ExpenseLedgers : LedgerExpense(d)[l] # 0 /\ d.treatment[l] \in {"NOT_CLASSIFIED", "REVIEW_REQUIRED"}

(* calculate: invoices less notes, the ledgers, and the adjustments.          *)
BusinessIncome(d, adjustments) ==
  (d.sales - d.salesReturns) + LedgerIncome(d)
  - ((d.purchases - d.purchaseReturns) + Total(LedgerExpense(d)) - Disallowed(d))
  + adjustments

(* The same books with every document counted once.                           *)
CountedOnce(d, adjustments) ==
  d.sales - d.salesReturns + d.income
  - (d.purchases - d.purchaseReturns) - d.expense
  + (IF d.treatment["other"] = "DISALLOWABLE" THEN d.expense ELSE 0)
  + adjustments

-------------------------------------------------------------------------------
(* determine_itr_form_type.                                                   *)

FormType(taxpayer, business, gains) ==
  IF taxpayer = "COMPANY" THEN "ITR_6"
  ELSE IF taxpayer \in {"PARTNERSHIP", "LLP"} THEN "ITR_5"
  ELSE IF taxpayer = "TRUST" THEN "ITR_7"
  ELSE IF taxpayer \notin {"INDIVIDUAL", "HUF"} THEN "NOT_DETERMINED"
  ELSE IF business # 0 THEN "ITR_3"
  ELSE IF gains # 0 THEN "ITR_2"
  ELSE "ITR_1"
================================================================================
