-------------------------- MODULE ComplianceReadiness --------------------------
(* What stands between a compliance obligation and its review                 *)
(* (app/services/compliance_readiness_service.py): each area of the platform  *)
(* is asked a few questions about its own tables, and the worst answer is the *)
(* obligation's readiness.                                                    *)
(*                                                                            *)
(* The tables are abstracted to the answers: a record of facts.  An           *)
(* obligation's nature says which questions are asked: its module and its     *)
(* category, whether it names a financial year and whether its code is that   *)
(* of a GSTR-3B.                                                              *)

(* What the tables of the other modules say, one field per question.          *)
Facts == {"gstin", "sales", "draftSales", "draftPurchases", "gstr2b", "tan", "deductees",
          "unallocatedTds", "pan", "computation", "engagement", "openFindings",
          "bankAccounts", "bankStatements", "unmatched"}

(* An answer: a PASS never matters, so only failures and warnings are kept,   *)
(* with whether the check is a blocking one.                                  *)
Fail == [status |-> "FAIL", blocking |-> TRUE]
Warn == [status |-> "WARN", blocking |-> FALSE]
When(condition, answer) == IF condition THEN {answer} ELSE {}

CheckGst(nature, books) ==
  When(~books["gstin"], Fail) \cup When(books["draftSales"], Fail)
    \cup When(~books["draftSales"] /\ ~books["sales"], Warn)
    \cup When(nature.gstr3b /\ ~books["gstr2b"], Warn)

CheckTds(nature, books) ==
  When(~books["tan"], Fail) \cup When(~books["deductees"], Warn)
    \cup When(books["unallocatedTds"], Fail)

(* Without a financial year the computation is not asked for; with a year and *)
(* a computation the check does not answer (Evaluable).                       *)
CheckIncomeTax(nature, books) ==
  When(~books["pan"], Fail)
    \cup When(books["draftSales"] \/ books["draftPurchases"], Fail)
    \cup When(nature.hasYear /\ ~books["computation"], Fail)

CheckAudit(nature, books) ==
  When(~books["engagement"], Fail) \cup When(books["openFindings"], Fail)

(* A missing statement is a warning even though the check calls itself        *)
(* blocking; without an account nothing more is asked.                        *)
CheckBankReconciliation(nature, books) ==
  IF ~books["bankAccounts"] THEN {Fail}
  ELSE When(~books["bankStatements"], [Warn EXCEPT !.blocking = TRUE])
         \cup When(books["unmatched"], Warn)

CheckAccounting(nature, books) ==
  When(books["draftSales"] \/ books["draftPurchases"], Fail)

Of(nature, module, category) == nature.module = module \/ nature.category = category

(* The first area the module or the category names, in this order.            *)
Checks(nature, books) ==
  IF Of(nature, "GST", "GST") THEN CheckGst(nature, books)
  ELSE IF Of(nature, "TDS", "TDS") THEN CheckTds(nature, books)
  ELSE IF Of(nature, "INCOME_TAX", "INCOME_TAX") THEN CheckIncomeTax(nature, books)
  ELSE IF Of(nature, "AUDIT", "AUDIT") THEN CheckAudit(nature, books)
  ELSE IF Of(nature, "BANK_RECONCILIATION", "BANK") THEN CheckBankReconciliation(nature, books)
  ELSE IF Of(nature, "ACCOUNTING", "ACCOUNTING") THEN CheckAccounting(nature, books)
  ELSE {}

(* Whether the evaluation returns: a computation of the year is compared with *)
(* TaxComputationStatus.FINALIZED and COMPUTED, which that enumeration does   *)
(* not have, so the first one raises AttributeError and the request fails.    *)
Evaluable(nature, books) ==
  \/ Of(nature, "GST", "GST") \/ Of(nature, "TDS", "TDS") \/ ~Of(nature, "INCOME_TAX", "INCOME_TAX")
  \/ ~nature.hasYear \/ ~books["computation"]

(* The readiness of an obligation: evaluate_obligation.                       *)
Readiness(nature, books) ==
  LET checks == Checks(nature, books) IN
  IF \E c \in checks : c.blocking /\ c.status = "FAIL" THEN "BLOCKED"
  ELSE IF \E c \in checks : ~c.blocking /\ c.status = "FAIL" THEN "MISSING_DATA"
  ELSE IF \E c \in checks : c.status = "WARN" THEN "READY_WITH_WARNINGS"
  ELSE "READY"
================================================================================
