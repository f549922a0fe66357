------------------------------ MODULE MCCasework ------------------------------
(* The scenes of the desks, each on one question: a whole engagement, served  *)
(* one request at a time; its gates against the findings, the checklist and   *)
(* the sign-offs of a second request; findings, checklist and reviews against *)
(* themselves; every head of income alone and together with a calculation;    *)
(* the computation and the preparation in order and against themselves; and   *)
(* every kind of import, two jobs of it, in order, and the kinds that are     *)
(* kept apart differently also against themselves.                            *)
EXTENDS Casework

CONSTANTS w1, w2, s1, i1, i2, f1, r1, r2, v1, c1, c2, j1, j2

Alike ==
  Permutations({w1, w2}) \cup Permutations({c1, c2}) \cup Permutations({j1, j2}) \cup Permutations({r1, r2})

Ops(about, ops) == {about} \X ops
Opening == Ops("engagement", {"create", "open", "start_review"})
Gated   == Ops("engagement", {"submit_for_review", "approve", "return_for_changes"})
Ending  == Ops("engagement", {"record_sign_off", "sign_off", "close", "lock"})
Lifecycle ==
  Opening \cup Gated \cup Ending \cup Ops("engagement", {"request_client_action", "resume_review", "cancel"})
FindingOps == Ops("finding", {"create", "update"} \cup {m[2] : m \in FindingMoves})

Responding ==
  Ops("finding", {"create", "assign", "submit_response", "accept_response", "reject_response", "reopen"})

Starting   == {<<"profile", "create">>, <<"computation", "create">>}
TaxSetUp   == Starting \cup {<<"computation", "calculate">>}
Decisions  == Ops("computation", {"submit_review", "approve", "lock", "cancel"})
Preparing  == Ops("preparation", {"create", "validate", "submit_review", "approve", "lock"}) \cup {<<"bank", "set">>}

ImportOps  == Ops("import", {"create", "commit", "cancel"})

Scene(serial, ops, types, kinds) ==
  [serial |-> serial, crew |-> {w1, w2}, ops |-> ops, types |-> types, kinds |-> kinds]
InOrder(ops) == Scene(TRUE, ops, {"INDIVIDUAL"}, {})
Race(ops)    == Scene(FALSE, ops, {"INDIVIDUAL"}, {})

AuditScenes ==
  {InOrder(Lifecycle \cup Ops("staff", {"assign", "unassign"})),
   InOrder(Opening \cup Gated \cup FindingOps),
   Race(Opening \cup Gated \cup Ending \cup {<<"staff", "assign">>, <<"engagement", "cancel">>}),
   Race(Opening \cup Gated \cup {<<"finding", "create">>, <<"finding", "resolve">>, <<"finding", "reopen">>}),
   Race(Opening \cup Gated \cup Ops("checklist", {"get", "update"})),
   Race({<<"engagement", "create">>} \cup Responding),
   Race({<<"engagement", "create">>} \cup Ops("checklist", {"get", "update"})),
   Race({<<"engagement", "create">>} \cup Ops("checklist", {"get", "add"})),
   InOrder({<<"engagement", "create">>} \cup Ops("checklist", {"get", "add", "update"})),
   Race({<<"engagement", "create">>} \cup Ops("review", {"start", "complete", "return"}))}

TaxScenes ==
  {Race(Ops(head, {"create", "update", "delete"})) : head \in {"other", "loss"}}
  \cup {InOrder(Ops(head, {"create", "update", "delete"})) : head \in Heads}
  \cup {InOrder(TaxSetUp \cup Ops(head, {"create"}) \cup {<<"salary", "create">>}) : head \in Heads}
  \cup {InOrder(TaxSetUp \cup {<<"ledger", "classify">>}),
        InOrder(TaxSetUp \cup Decisions \cup {<<"salary", "create">>}),
        Scene(TRUE, TaxSetUp \cup Preparing \cup {<<"profile", "update">>}, {"INDIVIDUAL", "COMPANY"}, {}),
        Scene(TRUE, Starting \cup {<<"preparation", "create">>}, TaxpayerType, {}),
        Race(TaxSetUp \cup {<<"credit", "create">>}),
        Race(Ops("computation", {"create", "cancel"})),
        Race(TaxSetUp \cup Ops("computation", {"submit_review", "approve", "lock"})),
        Race(Starting \cup (Preparing \ {<<"preparation", "lock">>}))}

ImportScenes ==
  {Scene(TRUE, ImportOps, {}, {kind}) : kind \in ImportType}
  \cup {Scene(TRUE, ImportOps, {}, {"SALES", "TALLY"})}
  \cup {Scene(FALSE, ImportOps, {}, {kind}) : kind \in {"SALES", "CUSTOMERS", "LEDGERS", "JOURNALS", "TDS", "BANK_STATEMENT"}}

AllScenes == AuditScenes \cup TaxScenes \cup ImportScenes
Counted   == {InOrder(TaxSetUp)}

(* What the heads record, in tenths of a paisa: amounts so large that the     *)
(* schedule bends where they lie, and amounts with a digit that the columns   *)
(* cannot hold, on either side of the half.                                   *)
Salaried(gross, part, standard, tds) ==
  [gross |-> gross, allowances |-> part, perquisites |-> part, profit |-> part,
   standard |-> standard, professional |-> 0, tds |-> tds]
Gain(byIndex) ==
  [sale |-> 5004, transfer |-> 45, purchase |-> 1995, improvement |-> 205, byIndex |-> byIndex,
   indexed |-> IF byIndex THEN 6005 ELSE 0]
Recorded ==
  [head \in Heads |->
     IF head = "salary" THEN {Salaried(8964, 14, 505, 404), Salaried(300, 0, 500, 0)}
     ELSE IF head = "house" THEN {[rent |-> 3004, municipal |-> 195, letOut |-> TRUE, interest |-> 405],
                                  [rent |-> 0, municipal |-> 0, letOut |-> FALSE, interest |-> 2000]}
     ELSE IF head = "other" THEN {[gross |-> 604, tds |-> 65], [gross |-> 15000, tds |-> 65]}
     ELSE IF head = "gains" THEN {Gain(FALSE), Gain(TRUE)}
     ELSE IF head = "deduction" THEN {[section |-> "80C", claimed |-> 2000], [section |-> "80D", claimed |-> 255],
                                      [section |-> "80G", claimed |-> 100]}
     ELSE IF head = "loss" THEN {[amount |-> 6, setoff |-> 0]}
     ELSE IF head = "adjustment" THEN {[book |-> 704, tax |-> 305], [book |-> 0, tax |-> 0 - 205]}
     ELSE {[amount |-> 104]}]

(* An update sets everything, one column, or, where there is no such cost,    *)
(* nothing; an indexed cost is there or not there as one.                     *)
Indexed == {"byIndex", "indexed"}
Updated ==
  [head \in Heads |-> {Columns[head], Indexed \cap Columns[head]} \cup {{c} : c \in Columns[head] \ Indexed}]

Quiet   == [sales |-> 800, salesReturns |-> 0, purchases |-> 300, purchaseReturns |-> 0, income |-> 20, expense |-> 90]
Returns == [Quiet EXCEPT !.salesReturns = 100]

Slab(lower, upper, rate) == [lower |-> lower, upper |-> upper, rate |-> rate]
NewRegime ==
  [slabs      |-> <<Slab(0, 400, 0), Slab(400, 800, 5), Slab(800, Missing, 30)>>,
   rebates    |-> <<[maximum |-> 600, rebate |-> 10]>>,
   surcharges |-> <<[threshold |-> 1000, rate |-> 10], [threshold |-> 2000, rate |-> 15]>>,
   cess       |-> 4,
   deductions |-> [section \in {"80C", "80D"} |-> [allowed |-> section = "80D", limit |-> Missing]]]
OldRegime ==
  [NewRegime EXCEPT !.deductions = [section \in {"80C", "80D"} |-> [allowed |-> TRUE, limit |-> IF section = "80C" THEN 150 ELSE Missing]]]
(* About every place where the schedule bends, the ranges of marginal relief  *)
(* included.                                                                  *)
Bends == (398..402) \cup (598..602) \cup (798..802) \cup (995..1050) \cup (1995..2060) \cup {2500}
RuleSets == (<<"INDIVIDUAL", "NEW">> :> NewRegime) @@ (<<"INDIVIDUAL", "OLD">> :> OldRegime)

(* Files: one without a fault, one with two rows that share a key, one with   *)
(* rows that are refused, or turn out bad on commit, and a journal of halves  *)
(* of a paisa.                                                                *)
Good(n) == [number |-> n, date |-> 1, party |-> "known", ledger |-> "known", amount |-> 100, debit |-> 50, credit |-> 0, bad |-> {}]
Second  == [Good("b") EXCEPT !.debit = 0, !.credit = 50, !.amount = 200]
Fraction(debit, credit) == [Good("a") EXCEPT !.debit = debit, !.credit = credit]
Uploads ==
  [kind \in ImportType |->
     (IF kind = "JOURNALS" THEN {<<Fraction(5, 0), Fraction(5, 0), Fraction(0, 10)>>} ELSE {}) \cup
     {<<Good("a"), Second>>, <<Good("a"), Good("a")>>, <<Good("a"), [Good("a") EXCEPT !.date = 2, !.party = "other"]>>,
      <<[Good("a") EXCEPT !.number = None], [Good("b") EXCEPT !.bad = {"gstin", "item_type", "ledger_type", "taxes", "pan"}]>>,
      IF kind = "TDS" THEN <<Good("a"), [Second EXCEPT !.bad = {"financial_year"}]>>
      ELSE IF kind = "JOURNALS" THEN <<Good("a"), [Second EXCEPT !.number = "a"], Good("b")>>
      ELSE <<[Good("a") EXCEPT !.amount = 0, !.party = "unknown", !.ledger = "unknown"], [Good("b") EXCEPT !.credit = 50]>>}]
================================================================================
