------------------------------ MODULE ApiRoutes ------------------------------
(* The operations of the HTTP API, one definition per router of app/api (the  *)
(* long routers in several): which check guards each handler, and whether the *)
(* handler commits.  A handler is one call of a service between that check    *)
(* and `await db.commit()`: what the call does to the tables is the subject   *)
(* of the other modules; filters, pages and response shapes are left out.     *)
(*                                                                            *)
(* needs is the set of permissions of which the caller must hold one          *)
(* (require_permission, require_any_permission, the Tally routers' own check) *)
(* or one of the three markers; also is a permission the handler asks for     *)
(* besides, for the import types of GST, TDS and the bank, and for users.     *)

Open     == {"open"}        \* no dependency on the caller
SignedIn == {"signed in"}   \* get_current_user
Platform == {"platform"}    \* require_platform_super_admin

Route(router, needs, also, ops, commits) ==
  {[router |-> router, op |-> op, needs |-> needs, also |-> also, commits |-> commits] :
     op \in ops}

Reads(router, needs, ops)             == Route(router, needs, {}, ops, FALSE)
Commits(router, needs, ops)           == Route(router, needs, {}, ops, TRUE)
CommitsAlso(router, needs, also, ops) == Route(router, needs, {also}, ops, TRUE)

AccountingPeriodRoutes ==
  Commits("accounting_periods", {"ACCOUNTING_CREATE"}, {"create_period"})
  \cup Reads("accounting_periods", {"ACCOUNTING_VIEW"}, {"list_periods"})
  \cup Commits("accounting_periods", {"ACCOUNTING_UPDATE"}, {"update_period"})

ActionCenterRoutes ==
  Reads("action_center", {"DASHBOARD_VIEW"}, {"list_action_center_items"})

AuditChecklistRoutes ==
  Commits("audit_checklists", {"AUDIT_CHECKLIST_VIEW"}, {"get_checklist"})
  \cup Commits("audit_checklists", {"AUDIT_CHECKLIST_MANAGE"}, {"add_checklist_item",
         "update_checklist_item"})

AuditEngagementRoutes ==
  Commits("audit_engagements", {"AUDIT_ENGAGEMENT_CREATE"}, {"create_engagement"})
  \cup Reads("audit_engagements", {"AUDIT_ENGAGEMENT_VIEW"}, {"list_engagements", "get_engagement"})
  \cup Commits("audit_engagements", {"AUDIT_ENGAGEMENT_UPDATE"}, {"update_engagement",
         "open_engagement", "request_client_action", "resume_review", "submit_for_review"})
  \cup Commits("audit_engagements", {"AUDIT_ENGAGEMENT_REVIEW"}, {"start_review"})

AuditEngagementClosingRoutes ==
  Commits("audit_engagements", {"AUDIT_ENGAGEMENT_APPROVE"}, {"approve_engagement",
         "return_for_changes"})
  \cup Commits("audit_engagements", {"AUDIT_ENGAGEMENT_SIGNOFF"}, {"mark_signed_off",
         "create_signoff"})
  \cup Commits("audit_engagements", {"AUDIT_ENGAGEMENT_LOCK"}, {"close_engagement", "lock_engagement"})
  \cup Commits("audit_engagements", {"AUDIT_ENGAGEMENT_UPDATE"}, {"cancel_engagement"})
  \cup Reads("audit_engagements", {"AUDIT_ENGAGEMENT_VIEW"}, {"list_signoffs"})

AuditAssignmentRoutes ==
  Commits("audit_engagements", {"AUDIT_ENGAGEMENT_ASSIGN"}, {"create_assignment",
         "remove_assignment"})
  \cup Reads("audit_engagements", {"AUDIT_ENGAGEMENT_VIEW"}, {"list_assignments"})

AuditFindingRoutes ==
  Commits("audit_findings", {"AUDIT_FINDING_CREATE"}, {"create_finding"})
  \cup Reads("audit_findings", {"AUDIT_FINDING_VIEW"}, {"list_engagement_findings",
         "list_company_findings", "get_finding"})
  \cup Commits("audit_findings", {"AUDIT_FINDING_UPDATE"}, {"update_finding"})
  \cup Commits("audit_findings", {"AUDIT_FINDING_ASSIGN"}, {"assign_finding"})

AuditFindingReviewRoutes ==
  Commits("audit_findings", {"AUDIT_FINDING_REVIEW"}, {"start_finding_review"})
  \cup Commits("audit_findings", {"AUDIT_FINDING_UPDATE"}, {"request_finding_action"})
  \cup Commits("audit_findings", {"AUDIT_FINDING_RESOLVE"}, {"resolve_finding", "close_finding",
         "reject_finding"})
  \cup Commits("audit_findings", {"AUDIT_FINDING_REOPEN"}, {"reopen_finding"})

AuditFindingEvidenceRoutes ==
  Commits("audit_findings", {"AUDIT_FINDING_UPDATE"}, {"add_comment"})
  \cup Reads("audit_findings", {"AUDIT_FINDING_VIEW"}, {"list_comments", "list_evidence",
         "list_responses"})
  \cup Commits("audit_findings", {"AUDIT_EVIDENCE_MANAGE"}, {"add_evidence", "remove_evidence"})
  \cup Commits("audit_findings", {"AUDIT_FINDING_RESPOND"}, {"submit_response"})
  \cup Commits("audit_findings", {"AUDIT_FINDING_REVIEW"}, {"review_response"})

AuditLogRoutes ==
  Reads("audit_logs", {"AUDIT_LOG_VIEW"}, {"list_audit_logs"})

AuditReportRoutes ==
  Reads("audit_reports", {"AUDIT_REPORT_VIEW"}, {"get_dashboard", "get_engagement_progress"})
  \cup Commits("audit_reports", {"AUDIT_REPORT_EXPORT"}, {"export_engagement_findings"})

AuditReviewRoutes ==
  Commits("audit_reviews", {"AUDIT_ENGAGEMENT_REVIEW"}, {"start_review", "complete_review",
         "return_review"})
  \cup Reads("audit_reviews", {"AUDIT_ENGAGEMENT_VIEW"}, {"list_reviews"})

AuthRoutes ==
  Commits("auth", Open, {"register", "login", "refresh"})
  \cup Commits("auth", SignedIn, {"logout", "select_company"})
  \cup Reads("auth", SignedIn, {"get_me"})

BankAccountRoutes ==
  Commits("bank_accounts", {"BANK_CREATE"}, {"create_bank_account"})
  \cup Reads("bank_accounts", {"BANK_VIEW"}, {"list_bank_accounts", "get_bank_account"})
  \cup Commits("bank_accounts", {"BANK_UPDATE"}, {"update_bank_account"})

BankMatchRoutes ==
  Reads("bank_matches", {"BANK_MATCH_VIEW"}, {"get_match_candidates",
         "list_matches_for_transaction"})
  \cup Commits("bank_matches", {"BANK_MATCH_CREATE"}, {"create_match"})
  \cup Commits("bank_matches", {"BANK_MATCH_REVERSE"}, {"reverse_match"})

BankReconciliationRoutes ==
  Commits("bank_reconciliations", {"BANK_RECONCILE_RUN"}, {"start_reconciliation", "run_matching",
         "cancel_reconciliation"})
  \cup Reads("bank_reconciliations", {"BANK_RECONCILE_VIEW"}, {"list_reconciliations",
         "get_reconciliation", "get_reconciliation_summary"})
  \cup Commits("bank_reconciliations", {"BANK_RECONCILE_SUBMIT"}, {"submit_reconciliation"})
  \cup Commits("bank_reconciliations", {"BANK_RECONCILE_APPROVE"}, {"approve_reconciliation",
         "reject_reconciliation"})
  \cup Commits("bank_reconciliations", {"BANK_RECONCILE_LOCK"}, {"lock_reconciliation"})

BankReportRoutes ==
  Reads("bank_reports", {"BANK_REPORT_VIEW"}, {"get_unmatched_bank_transactions",
         "get_unmatched_book_transactions", "get_matching_report"})
  \cup Commits("bank_reports", {"BANK_REPORT_EXPORT"}, {"export_reconciliation_report"})

BankStatementRoutes ==
  Commits("bank_statements", {"BANK_STATEMENT_IMPORT"}, {"create_bank_statement",
         "archive_bank_statement"})
  \cup Reads("bank_statements", {"BANK_STATEMENT_VIEW"}, {"list_bank_statements", "get_bank_statement",
         "check_bank_statement_balance"})
  \cup Reads("bank_statements", {"BANK_TRANSACTION_VIEW"}, {"list_bank_statement_transactions"})

BankTransactionRoutes ==
  Reads("bank_transactions", {"BANK_TRANSACTION_VIEW"}, {"list_bank_transactions",
         "get_bank_transaction"})
  \cup Commits("bank_transactions", {"BANK_TRANSACTION_UPDATE"}, {"exclude_bank_transaction",
         "flag_bank_transaction_for_review"})
  \cup Commits("bank_transactions", {"BANK_ADJUST"}, {"create_bank_adjustment"})

BiStatementRoutes ==
  Reads("bi_reports", {"DASHBOARD_VIEW"}, {"get_management_dashboard"})
  \cup Reads("bi_reports", {"LEDGER_VIEW"}, {"get_trial_balance", "get_general_ledger"})
  \cup Reads("bi_reports", {"ACCOUNTING_VIEW"}, {"get_profit_loss", "get_balance_sheet", "get_ageing"})
  \cup Reads("bi_reports", {"CUSTOMER_VIEW"}, {"get_receivables"})
  \cup Reads("bi_reports", {"VENDOR_VIEW"}, {"get_payables"})
  \cup Reads("bi_reports", {"SALES_VIEW"}, {"get_sales_analytics"})
  \cup Reads("bi_reports", {"BANK_REPORT_VIEW"}, {"get_cash_bank"})
  \cup Reads("bi_reports", {"GST_VIEW"}, {"get_gst_summary"})

BiSummaryRoutes ==
  Reads("bi_reports", {"TDS_REPORT_VIEW"}, {"get_tds_summary"})
  \cup Reads("bi_reports", {"AUDIT_REPORT_VIEW"}, {"get_audit_summary"})
  \cup Reads("bi_reports", {"COMPLIANCE_VIEW"}, {"get_compliance_summary"})
  \cup Commits("bi_reports", {"ACCOUNTING_VIEW"}, {"export_report"})

CompanyRoutes ==
  Commits("companies", Platform, {"create_company"})
  \cup Commits("companies", SignedIn, {"onboard_company"})
  \cup Reads("companies", SignedIn, {"list_companies"})
  \cup Reads("companies", {"COMPANY_VIEW"}, {"get_company"})
  \cup Commits("companies", {"COMPANY_UPDATE"}, {"update_company"})

ComplianceCalendarRoutes ==
  Reads("compliance_calendar", {"COMPLIANCE_CALENDAR_VIEW"}, {"get_calendar_range",
         "get_calendar_month", "get_calendar_week"})
  \cup Commits("compliance_calendar", {"COMPLIANCE_VIEW"}, {"get_dashboard"})

ControlCenterRoutes ==
  Reads("compliance_obligations", {"COMPLIANCE_VIEW"}, {"get_control_center_summary",
         "get_compliance_health"})

ObligationRoutes ==
  Commits("compliance_obligations", {"COMPLIANCE_OBLIGATION_MANAGE"}, {"create_obligation",
         "update_obligation"})
  \cup Reads("compliance_obligations", {"COMPLIANCE_VIEW"}, {"list_obligations", "get_obligation"})
  \cup Commits("compliance_obligations", {"COMPLIANCE_TASK_ASSIGN", "COMPLIANCE_OBLIGATION_MANAGE"},
         {"assign_obligation"})
  \cup Commits("compliance_obligations", {"COMPLIANCE_VIEW"}, {"run_obligation_readiness"})

ObligationReviewRoutes ==
  Commits("compliance_obligations", {"COMPLIANCE_TASK_COMPLETE", "COMPLIANCE_OBLIGATION_MANAGE"},
         {"submit_obligation_review", "complete_obligation"})
  \cup Commits("compliance_obligations", {"COMPLIANCE_TASK_VERIFY", "COMPLIANCE_OBLIGATION_MANAGE"},
         {"approve_obligation"})
  \cup Commits("compliance_obligations", {"COMPLIANCE_TASK_REVIEW", "COMPLIANCE_OBLIGATION_MANAGE"},
         {"reject_obligation"})
  \cup Commits("compliance_obligations", {"COMPLIANCE_OBLIGATION_MANAGE"}, {"reopen_obligation"})

ObligationEvidenceRoutes ==
  Commits("compliance_obligations", {"COMPLIANCE_TASK_UPDATE", "COMPLIANCE_OBLIGATION_MANAGE"},
         {"attach_obligation_evidence", "remove_obligation_evidence"})
  \cup Reads("compliance_obligations", {"COMPLIANCE_VIEW"}, {"list_obligation_evidence"})
  \cup Commits("compliance_obligations", {"COMPLIANCE_OBLIGATION_MANAGE"}, {"generate_task"})
  \cup Commits("compliance_obligations", {"COMPLIANCE_TASK_UPDATE"}, {"sweep_overdue_obligations"})

ComplianceReportRoutes ==
  Commits("compliance_reports", {"COMPLIANCE_REPORT_EXPORT"}, {"export_tasks",
         "export_obligations", "export_readiness"})

ComplianceRuleRoutes ==
  Commits("compliance_rules", {"COMPLIANCE_RULE_MANAGE"}, {"create_rule", "update_rule",
         "activate_rule", "deactivate_rule"})
  \cup Reads("compliance_rules", {"COMPLIANCE_VIEW"}, {"list_rules", "get_rule"})
  \cup Commits("compliance_rules", {"COMPLIANCE_OBLIGATION_MANAGE"}, {"generate_obligations"})

TaskRoutes ==
  Commits("compliance_tasks", {"COMPLIANCE_TASK_CREATE"}, {"create_task"})
  \cup Reads("compliance_tasks", {"COMPLIANCE_VIEW"}, {"list_tasks", "get_task"})
  \cup Commits("compliance_tasks", {"COMPLIANCE_TASK_UPDATE"}, {"sweep_overdue_tasks", "update_task",
         "delete_task"})
  \cup Commits("compliance_tasks", {"COMPLIANCE_TASK_ASSIGN"}, {"assign_task"})

TaskReviewRoutes ==
  Commits("compliance_tasks", {"COMPLIANCE_TASK_UPDATE"}, {"start_task"})
  \cup Commits("compliance_tasks", {"COMPLIANCE_TASK_COMPLETE"}, {"submit_review", "complete_task"})
  \cup Commits("compliance_tasks", {"COMPLIANCE_TASK_VERIFY"}, {"verify_task"})
  \cup Commits("compliance_tasks", {"COMPLIANCE_TASK_REVIEW"}, {"return_for_changes"})
  \cup Commits("compliance_tasks", {"COMPLIANCE_TASK_CANCEL"}, {"cancel_task"})
  \cup Commits("compliance_tasks", {"COMPLIANCE_TASK_LOCK"}, {"lock_task"})

TaskEvidenceRoutes ==
  Commits("compliance_tasks", {"COMPLIANCE_TASK_UPDATE"}, {"add_comment", "add_evidence",
         "remove_evidence"})
  \cup Reads("compliance_tasks", {"COMPLIANCE_VIEW"}, {"list_comments", "list_evidence"})

CreditNoteRoutes ==
  Commits("credit_notes", {"ACCOUNTING_CREATE"}, {"create_credit_note"})
  \cup Reads("credit_notes", {"ACCOUNTING_VIEW"}, {"list_credit_notes", "get_credit_note"})

CustomerRoutes ==
  Commits("customers", {"CUSTOMER_MANAGE"}, {"create_customer", "update_customer"})
  \cup Reads("customers", {"CUSTOMER_VIEW"}, {"list_customers", "get_customer"})

DashboardRoutes ==
  Reads("dashboard", {"DASHBOARD_VIEW"}, {"get_dashboard_summary", "get_dashboard_actions",
         "get_dashboard_workflow", "get_setup_progress", "get_company_health"})

DebitNoteRoutes ==
  Commits("debit_notes", {"ACCOUNTING_CREATE"}, {"create_debit_note"})
  \cup Reads("debit_notes", {"ACCOUNTING_VIEW"}, {"list_debit_notes", "get_debit_note"})

DeducteeRoutes ==
  Commits("deductees", {"TDS_DEDUCTEE_MANAGE"}, {"create_deductee", "update_deductee"})
  \cup Reads("deductees", {"TDS_DEDUCTEE_VIEW"}, {"list_deductees", "get_deductee"})

DocumentRoutes ==
  Commits("documents", {"DOCUMENT_UPLOAD"}, {"upload_document"})
  \cup Reads("documents", {"DOCUMENT_VIEW"}, {"list_documents", "get_document"})
  \cup Commits("documents", {"DOCUMENT_DOWNLOAD"}, {"download_document"})

DocumentArchiveRoutes ==
  Commits("documents", {"DOCUMENT_UPDATE"}, {"update_document"})
  \cup Commits("documents", {"DOCUMENT_ARCHIVE"}, {"archive_document"})
  \cup Commits("documents", {"DOCUMENT_RESTORE"}, {"restore_document"})

FinancialYearRoutes ==
  Commits("financial_years", {"ACCOUNTING_CREATE"}, {"create_financial_year"})
  \cup Reads("financial_years", {"ACCOUNTING_VIEW"}, {"list_financial_years", "get_financial_year"})
  \cup Commits("financial_years", {"ACCOUNTING_UPDATE"}, {"update_financial_year"})

GstProfileRoutes ==
  Commits("gst_profile", {"GST_CREATE"}, {"create_gst_profile"})
  \cup Reads("gst_profile", {"GST_VIEW"}, {"get_gst_profile"})
  \cup Commits("gst_profile", {"GST_UPDATE"}, {"update_gst_profile"})

GstReconciliationRoutes ==
  Commits("gst_reconciliation", {"GSTR2B_RECONCILE"}, {"run_reconciliation"})
  \cup Reads("gst_reconciliation", {"GSTR2B_VIEW"}, {"get_latest_reconciliation",
         "list_reconciliation_results"})

GstReportRoutes ==
  Reads("gst_reports", {"GSTR1_EXPORT"}, {"export_gstr1_report"})
  \cup Reads("gst_reports", {"GSTR3B_EXPORT"}, {"export_gstr3b_report"})
  \cup Reads("gst_reports", {"GSTR2B_VIEW"}, {"export_reconciliation_report"})
  \cup Reads("gst_reports", {"ITC_VIEW"}, {"export_itc_report"})

GstReturnPeriodRoutes ==
  Commits("gst_return_periods", {"GST_CREATE"}, {"create_return_period"})
  \cup Reads("gst_return_periods", {"GST_RETURN_VIEW"}, {"list_return_periods", "get_return_period"})

GstReturnSnapshotRoutes ==
  Commits("gst_return_snapshots", {"GST_RETURN_GENERATE"}, {"generate_return_snapshot"})
  \cup Commits("gst_return_snapshots", {"GST_RETURN_VALIDATE"}, {"submit_for_review"})
  \cup Commits("gst_return_snapshots", {"GST_RETURN_APPROVE"}, {"approve_return_snapshot",
         "request_changes"})
  \cup Commits("gst_return_snapshots", {"GST_RETURN_FINALIZE"}, {"finalize_return_snapshot"})
  \cup Reads("gst_return_snapshots", {"GST_RETURN_VIEW"}, {"list_return_snapshots",
         "get_latest_return_snapshot"})

GstTaxRateRoutes ==
  Commits("gst_tax_rates", {"GST_CREATE"}, {"create_tax_rate"})
  \cup Reads("gst_tax_rates", {"GST_VIEW"}, {"list_tax_rates"})
  \cup Commits("gst_tax_rates", {"GST_UPDATE"}, {"update_tax_rate"})

Gstr1Routes ==
  Reads("gstr1", {"GSTR1_VIEW"}, {"get_gstr1_overview", "get_gstr1_b2b", "get_gstr1_b2c_large",
         "get_gstr1_b2c_others", "get_gstr1_exports", "get_gstr1_credit_notes",
         "get_gstr1_debit_notes", "get_gstr1_hsn_summary", "get_gstr1_document_summary"})
  \cup Reads("gstr1", {"GST_RETURN_VALIDATE"}, {"get_gstr1_validation"})

Gstr2bRoutes ==
  Reads("gstr2b", {"GSTR2B_VIEW"}, {"list_gstr2b_records", "get_gstr2b_record"})

Gstr3bRoutes ==
  Reads("gstr3b", {"GSTR3B_VIEW"}, {"get_gstr3b_summary"})

HealthRoutes ==
  Reads("health", Open, {"health_check"})

ImportRoutes ==
  Reads("imports", SignedIn, {"get_import_fields"})
  \cup Reads("imports", {"ACCOUNTING_IMPORT"}, {"preview_import_columns"})
  \cup Commits("imports", {"ACCOUNTING_IMPORT"}, {"create_import_job"})
  \cup CommitsAlso("imports", {"ACCOUNTING_IMPORT"}, "GSTR2B_IMPORT", {"create_gstr2b_job"})
  \cup CommitsAlso("imports", {"ACCOUNTING_IMPORT"}, "TDS_IMPORT", {"create_tds_job"})
  \cup CommitsAlso("imports", {"ACCOUNTING_IMPORT"}, "BANK_STATEMENT_IMPORT",
         {"create_bank_statement_job"})
  \cup Reads("imports", {"ACCOUNTING_IMPORT_VIEW"}, {"list_import_jobs", "get_import_job",
         "preview_import_job", "list_import_errors"})

ImportCommitRoutes ==
  Commits("imports", {"ACCOUNTING_IMPORT_COMMIT"}, {"commit_import_job"})
  \cup CommitsAlso("imports", {"ACCOUNTING_IMPORT_COMMIT"}, "GSTR2B_IMPORT", {"commit_gstr2b_job"})
  \cup CommitsAlso("imports", {"ACCOUNTING_IMPORT_COMMIT"}, "TDS_IMPORT_COMMIT",
         {"commit_tds_job"})
  \cup CommitsAlso("imports", {"ACCOUNTING_IMPORT_COMMIT"}, "BANK_STATEMENT_IMPORT_COMMIT",
         {"commit_bank_statement_job"})
  \cup Commits("imports", {"ACCOUNTING_IMPORT"}, {"cancel_import_job"})

IncomeTaxCapitalGainRoutes ==
  Commits("income_tax_capital_gains", {"INCOME_TAX_CREATE"}, {"create_capital_gain"})
  \cup Reads("income_tax_capital_gains", {"INCOME_TAX_VIEW"}, {"list_capital_gains"})
  \cup Commits("income_tax_capital_gains", {"INCOME_TAX_UPDATE"}, {"update_capital_gain",
         "delete_capital_gain"})

IncomeTaxComputationRoutes ==
  Commits("income_tax_computations", {"INCOME_TAX_CREATE"}, {"create_computation"})
  \cup Reads("income_tax_computations", {"INCOME_TAX_VIEW"}, {"list_computations", "get_computation",
         "list_snapshots"})
  \cup Commits("income_tax_computations", {"INCOME_TAX_CALCULATE"}, {"calculate_computation"})
  \cup Commits("income_tax_computations", {"INCOME_TAX_REVIEW"}, {"submit_computation_for_review"})
  \cup Commits("income_tax_computations", {"INCOME_TAX_APPROVE"}, {"approve_computation"})
  \cup Commits("income_tax_computations", {"INCOME_TAX_LOCK"}, {"lock_computation"})
  \cup Commits("income_tax_computations", {"INCOME_TAX_UPDATE"}, {"cancel_computation"})

IncomeTaxDeductionRoutes ==
  Commits("income_tax_deductions", {"INCOME_TAX_CREATE"}, {"create_deduction",
         "create_adjustment"})
  \cup Reads("income_tax_deductions", {"INCOME_TAX_VIEW"}, {"list_deductions", "list_adjustments",
         "preview_business_income"})
  \cup Commits("income_tax_deductions", {"INCOME_TAX_UPDATE"}, {"update_deduction", "delete_deduction",
         "delete_adjustment", "set_ledger_classification"})

SalaryAndPropertyRoutes ==
  Commits("income_tax_income", {"INCOME_TAX_CREATE"}, {"create_salary_income",
         "create_house_property_income"})
  \cup Reads("income_tax_income", {"INCOME_TAX_VIEW"}, {"list_salary_income",
         "list_house_property_income"})
  \cup Commits("income_tax_income", {"INCOME_TAX_UPDATE"}, {"update_salary_income",
         "delete_salary_income", "update_house_property_income",
         "delete_house_property_income"})

OtherIncomeRoutes ==
  Commits("income_tax_income", {"INCOME_TAX_CREATE"}, {"create_other_income",
         "create_exempt_income"})
  \cup Reads("income_tax_income", {"INCOME_TAX_VIEW"}, {"list_other_income", "list_exempt_income"})
  \cup Commits("income_tax_income", {"INCOME_TAX_UPDATE"}, {"update_other_income",
         "delete_other_income", "delete_exempt_income"})

IncomeTaxLossRoutes ==
  Commits("income_tax_losses", {"INCOME_TAX_CREATE"}, {"create_loss"})
  \cup Reads("income_tax_losses", {"INCOME_TAX_VIEW"}, {"list_losses"})
  \cup Commits("income_tax_losses", {"INCOME_TAX_UPDATE"}, {"set_loss_setoff"})

IncomeTaxPaymentRoutes ==
  Commits("income_tax_payments", {"INCOME_TAX_CREATE"}, {"create_advance_tax_payment",
         "create_self_assessment_tax_payment", "create_credit_entry"})
  \cup Reads("income_tax_payments", {"INCOME_TAX_VIEW"}, {"list_advance_tax_payments",
         "list_self_assessment_tax_payments", "list_credit_entries"})

IncomeTaxProfileRoutes ==
  Reads("income_tax_profile", {"INCOME_TAX_VIEW"}, {"get_profile", "list_rule_sets"})
  \cup Commits("income_tax_profile", {"INCOME_TAX_CREATE"}, {"create_profile"})
  \cup Commits("income_tax_profile", {"INCOME_TAX_UPDATE"}, {"update_profile"})

IncomeTaxReportRoutes ==
  Commits("income_tax_reports", {"INCOME_TAX_EXPORT"}, {"export_computation"})

ItcRoutes ==
  Reads("itc", {"ITC_VIEW"}, {"get_itc_summary", "list_itc_results"})
  \cup Commits("itc", {"ITC_REVIEW"}, {"mark_itc_reviewed"})
  \cup Commits("itc", {"ITC_APPROVE"}, {"approve_or_reject_itc"})

ItrPreparationRoutes ==
  Commits("itr_preparations", {"INCOME_TAX_CREATE"}, {"create_preparation"})
  \cup Reads("itr_preparations", {"INCOME_TAX_VIEW"}, {"list_preparations", "get_preparation"})
  \cup Commits("itr_preparations", {"INCOME_TAX_VALIDATE"}, {"validate_preparation"})
  \cup Commits("itr_preparations", {"INCOME_TAX_REVIEW"}, {"submit_preparation_for_review"})
  \cup Commits("itr_preparations", {"INCOME_TAX_APPROVE"}, {"approve_preparation"})
  \cup Commits("itr_preparations", {"INCOME_TAX_LOCK"}, {"lock_preparation"})

JournalEntryRoutes ==
  Commits("journal_entries", {"JOURNAL_CREATE"}, {"create_journal_entry"})
  \cup Reads("journal_entries", {"JOURNAL_VIEW"}, {"list_journal_entries", "get_journal_entry"})
  \cup Commits("journal_entries", {"JOURNAL_POST"}, {"post_journal_entry"})

LedgerRoutes ==
  Commits("ledgers", {"LEDGER_MANAGE"}, {"create_ledger", "update_ledger"})
  \cup Reads("ledgers", {"LEDGER_VIEW"}, {"list_ledgers", "get_ledger"})

NotificationRoutes ==
  Reads("notifications", {"COMPLIANCE_NOTIFICATION_VIEW"}, {"list_notifications",
         "list_unread_notifications", "unread_count"})
  \cup Commits("notifications", {"COMPLIANCE_NOTIFICATION_MANAGE"}, {"mark_read", "mark_all_read"})

OpeningBalanceRoutes ==
  Commits("opening_balances", {"ACCOUNTING_CREATE"}, {"create_opening_balance"})
  \cup Reads("opening_balances", {"ACCOUNTING_VIEW"}, {"list_opening_balances"})

PaymentRoutes ==
  Commits("payments", {"PAYMENT_CREATE"}, {"create_payment"})
  \cup Reads("payments", {"PAYMENT_VIEW"}, {"list_payments", "get_payment"})

ProductRoutes ==
  Commits("products", {"PRODUCT_MANAGE"}, {"create_product", "update_product"})
  \cup Reads("products", {"PRODUCT_VIEW"}, {"list_products", "get_product"})

PurchaseInvoiceRoutes ==
  Commits("purchase_invoices", {"PURCHASE_CREATE"}, {"create_purchase_invoice"})
  \cup Reads("purchase_invoices", {"PURCHASE_VIEW"}, {"list_purchase_invoices",
         "get_purchase_invoice"})
  \cup Commits("purchase_invoices", {"PURCHASE_UPDATE"}, {"update_purchase_invoice"})
  \cup Commits("purchase_invoices", {"PURCHASE_POST"}, {"post_purchase_invoice"})
  \cup Commits("purchase_invoices", {"PURCHASE_CANCEL"}, {"cancel_purchase_invoice"})

ReceiptRoutes ==
  Commits("receipts", {"RECEIPT_CREATE"}, {"create_receipt"})
  \cup Reads("receipts", {"RECEIPT_VIEW"}, {"list_receipts", "get_receipt"})

ReportRoutes ==
  Reads("reports", {"SALES_VIEW"}, {"sales_summary", "export_sales_register"})
  \cup Reads("reports", {"PURCHASE_VIEW"}, {"purchase_summary", "export_purchase_register"})
  \cup Reads("reports", {"CUSTOMER_VIEW"}, {"customer_outstanding"})
  \cup Reads("reports", {"VENDOR_VIEW"}, {"vendor_outstanding"})
  \cup Reads("reports", {"LEDGER_VIEW"}, {"trial_balance", "export_trial_balance"})

RoleRoutes ==
  Reads("roles", SignedIn, {"list_roles"})

SalesInvoiceRoutes ==
  Commits("sales_invoices", {"SALES_CREATE"}, {"create_sales_invoice"})
  \cup Reads("sales_invoices", {"SALES_VIEW"}, {"list_sales_invoices", "get_sales_invoice"})
  \cup Commits("sales_invoices", {"SALES_UPDATE"}, {"update_sales_invoice"})
  \cup Commits("sales_invoices", {"SALES_POST"}, {"post_sales_invoice"})
  \cup Commits("sales_invoices", {"SALES_CANCEL"}, {"cancel_sales_invoice"})

SearchRoutes ==
  Reads("search", {"DASHBOARD_VIEW"}, {"search_company_entities"})

TallyPreviewRoutes ==
  Reads("tally", {"TALLY_IMPORT_CREATE", "ACCOUNTING_IMPORT"}, {"detect_file_format"})
  \cup Commits("tally", {"TALLY_IMPORT_CREATE", "ACCOUNTING_IMPORT"}, {"preview_tally_import"})

TallyCommitRoutes ==
  Commits("tally", {"TALLY_IMPORT_COMMIT", "ACCOUNTING_IMPORT_COMMIT"}, {"commit_tally_import"})
  \cup Reads("tally", {"TALLY_IMPORT_VIEW", "ACCOUNTING_IMPORT_VIEW"}, {"get_import_reconciliation",
         "download_import_errors_csv"})

TallyTemplateRoutes ==
  Reads("tally", {"TALLY_MAPPING_MANAGE", "ACCOUNTING_IMPORT"}, {"list_mapping_templates",
         "get_mapping_template"})
  \cup Commits("tally", {"TALLY_MAPPING_MANAGE", "ACCOUNTING_IMPORT"}, {"create_mapping_template",
         "update_mapping_template"})

TallyExportRoutes ==
  Reads("tally", {"TALLY_EXPORT_VIEW", "ACCOUNTING_IMPORT_VIEW"}, {"preview_tally_export"})
  \cup Commits("tally", {"TALLY_EXPORT_CREATE", "ACCOUNTING_IMPORT"}, {"generate_tally_export"})

TdsChallanRoutes ==
  Commits("tds_challans", {"TDS_CHALLAN_CREATE"}, {"create_tds_challan"})
  \cup Reads("tds_challans", {"TDS_CHALLAN_VIEW"}, {"list_tds_challans", "get_tds_challan"})
  \cup Commits("tds_challans", {"TDS_CHALLAN_UPDATE"}, {"update_tds_challan", "allocate_tds_challan"})

TdsProfileRoutes ==
  Commits("tds_profile", {"TDS_CREATE"}, {"create_tds_profile"})
  \cup Reads("tds_profile", {"TDS_VIEW"}, {"get_tds_profile"})
  \cup Commits("tds_profile", {"TDS_UPDATE"}, {"update_tds_profile"})

TdsReconciliationRoutes ==
  Commits("tds_reconciliation", {"TDS_CHALLAN_RECONCILE"}, {"run_tds_reconciliation"})
  \cup Reads("tds_reconciliation", {"TDS_CHALLAN_VIEW"}, {"list_tds_reconciliation"})

TdsReportRoutes ==
  Reads("tds_reports", {"TDS_REPORT_VIEW"}, {"get_quarterly_summary", "get_section_summary",
         "get_deductee_summary", "get_challan_summary"})
  \cup Reads("tds_reports", {"TDS_REPORT_EXPORT"}, {"export_quarterly_report",
         "export_reconciliation_report"})

TdsReturnPeriodRoutes ==
  Commits("tds_return_periods", {"TDS_CREATE"}, {"create_return_period"})
  \cup Reads("tds_return_periods", {"TDS_RETURN_VIEW"}, {"list_return_periods", "get_return_period"})

TdsReturnSnapshotRoutes ==
  Commits("tds_return_snapshots", {"TDS_RETURN_GENERATE"}, {"generate_return_snapshot"})
  \cup Commits("tds_return_snapshots", {"TDS_RETURN_VALIDATE"}, {"submit_for_review"})
  \cup Commits("tds_return_snapshots", {"TDS_RETURN_APPROVE"}, {"approve_return_snapshot",
         "request_changes"})
  \cup Commits("tds_return_snapshots", {"TDS_RETURN_FINALIZE"}, {"finalize_return_snapshot"})
  \cup Reads("tds_return_snapshots", {"TDS_RETURN_VIEW"}, {"list_return_snapshots",
         "get_latest_return_snapshot"})

TdsReviewNoteRoutes ==
  Commits("tds_review_notes", {"TDS_RETURN_VIEW"}, {"create_review_note", "resolve_review_note"})
  \cup Reads("tds_review_notes", {"TDS_RETURN_VIEW"}, {"list_review_notes"})

TdsRuleRoutes ==
  Commits("tds_rules", {"TDS_RULE_MANAGE"}, {"create_tds_rule", "update_tds_rule"})
  \cup Reads("tds_rules", {"TDS_RULE_VIEW"}, {"list_tds_rules"})

TdsSectionRoutes ==
  Reads("tds_sections", {"TDS_RULE_VIEW"}, {"list_tds_sections"})

TdsTransactionRoutes ==
  Commits("tds_transactions", {"TDS_TRANSACTION_CREATE"}, {"create_tds_transaction"})
  \cup Reads("tds_transactions", {"TDS_TRANSACTION_VIEW"}, {"list_tds_transactions",
         "get_payable_summary", "get_tds_transaction"})
  \cup Commits("tds_transactions", {"TDS_TRANSACTION_UPDATE"}, {"update_tds_transaction",
         "override_tds_transaction"})
  \cup Commits("tds_transactions", {"TDS_TRANSACTION_CALCULATE"}, {"calculate_tds_transaction"})

TdsDeductionRoutes ==
  Commits("tds_transactions", {"TDS_TRANSACTION_UPDATE"}, {"deduct_tds_transaction"})
  \cup Commits("tds_transactions", {"TDS_TRANSACTION_CANCEL"}, {"cancel_tds_transaction"})

UserRoutes ==
  Reads("users", {"USER_VIEW"}, {"list_company_users"})
  \cup CommitsAlso("users", {"USER_CREATE"}, "ROLE_ASSIGN", {"create_company_user"})
  \cup Commits("users", {"USER_UPDATE"}, {"update_company_user"})
  \cup Commits("users", {"USER_DEACTIVATE"}, {"deactivate_company_user"})

VendorRoutes ==
  Commits("vendors", {"VENDOR_MANAGE"}, {"create_vendor", "update_vendor"})
  \cup Reads("vendors", {"VENDOR_VIEW"}, {"list_vendors", "get_vendor"})

(* Every router main.py includes.                                             *)
Api ==
  AccountingPeriodRoutes \cup ActionCenterRoutes \cup AuditChecklistRoutes \cup
    AuditEngagementRoutes \cup AuditEngagementClosingRoutes \cup AuditAssignmentRoutes
    \cup AuditFindingRoutes \cup AuditFindingReviewRoutes \cup AuditFindingEvidenceRoutes
    \cup AuditLogRoutes \cup AuditReportRoutes \cup AuditReviewRoutes \cup AuthRoutes \cup
    BankAccountRoutes \cup BankMatchRoutes \cup BankReconciliationRoutes \cup
    BankReportRoutes \cup BankStatementRoutes \cup BankTransactionRoutes \cup
    BiStatementRoutes \cup BiSummaryRoutes \cup CompanyRoutes \cup
    ComplianceCalendarRoutes \cup ControlCenterRoutes \cup ObligationRoutes \cup
    ObligationReviewRoutes \cup ObligationEvidenceRoutes \cup ComplianceReportRoutes \cup
    ComplianceRuleRoutes \cup TaskRoutes \cup TaskReviewRoutes \cup TaskEvidenceRoutes
    \cup CreditNoteRoutes \cup CustomerRoutes \cup DashboardRoutes \cup DebitNoteRoutes
    \cup DeducteeRoutes \cup DocumentRoutes \cup DocumentArchiveRoutes \cup
    FinancialYearRoutes \cup GstProfileRoutes \cup GstReconciliationRoutes \cup
    GstReportRoutes \cup GstReturnPeriodRoutes \cup GstReturnSnapshotRoutes \cup
    GstTaxRateRoutes \cup Gstr1Routes \cup Gstr2bRoutes \cup Gstr3bRoutes \cup
    HealthRoutes \cup ImportRoutes \cup ImportCommitRoutes \cup IncomeTaxCapitalGainRoutes
    \cup IncomeTaxComputationRoutes \cup IncomeTaxDeductionRoutes \cup
    SalaryAndPropertyRoutes \cup OtherIncomeRoutes \cup IncomeTaxLossRoutes \cup
    IncomeTaxPaymentRoutes \cup IncomeTaxProfileRoutes \cup IncomeTaxReportRoutes \cup
    ItcRoutes \cup ItrPreparationRoutes \cup JournalEntryRoutes \cup LedgerRoutes \cup
    NotificationRoutes \cup OpeningBalanceRoutes \cup PaymentRoutes \cup ProductRoutes
    \cup PurchaseInvoiceRoutes \cup ReceiptRoutes \cup ReportRoutes \cup RoleRoutes \cup
    SalesInvoiceRoutes \cup SearchRoutes \cup TallyPreviewRoutes \cup TallyCommitRoutes
    \cup TallyTemplateRoutes \cup TallyExportRoutes \cup TdsChallanRoutes \cup
    TdsProfileRoutes \cup TdsReconciliationRoutes \cup TdsReportRoutes \cup
    TdsReturnPeriodRoutes \cup TdsReturnSnapshotRoutes \cup TdsReviewNoteRoutes \cup
    TdsRuleRoutes \cup TdsSectionRoutes \cup TdsTransactionRoutes \cup TdsDeductionRoutes
    \cup UserRoutes \cup VendorRoutes
==============================================================================
