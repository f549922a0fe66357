--------------------------- MODULE RolePermissions ---------------------------
(* The permission catalogue and the role matrix of app/core/permissions.py.   *)
(*                                                                            *)
(* A permission is its code.  The four sections follow the phases under which *)
(* the enumeration lists them; PermissionCode is both the enumeration and the *)
(* PERMISSIONS list the seed script stores, which name the same codes.  The   *)
(* administrator's list in the source is nearly the whole catalogue and is    *)
(* given here by what it leaves out.                                          *)

PlatformPermissions ==
   {"AUTH_VIEW", "AUTH_MANAGE", "COMPANY_VIEW", "COMPANY_CREATE", "COMPANY_UPDATE",
    "COMPANY_MANAGE_USERS", "USER_VIEW", "USER_CREATE", "USER_UPDATE", "USER_DEACTIVATE",
    "ROLE_VIEW", "ROLE_ASSIGN", "AUDIT_LOG_VIEW", "DASHBOARD_VIEW", "DOCUMENT_VIEW",
    "DOCUMENT_UPLOAD", "DOCUMENT_UPDATE", "DOCUMENT_ARCHIVE", "DOCUMENT_RESTORE",
    "DOCUMENT_DOWNLOAD", "DOCUMENT_DELETE", "DOCUMENT_MANAGE", "ACCOUNTING_VIEW",
    "ACCOUNTING_CREATE", "ACCOUNTING_UPDATE", "ACCOUNTING_DELETE", "LEDGER_VIEW",
    "LEDGER_MANAGE", "CUSTOMER_VIEW", "CUSTOMER_MANAGE", "VENDOR_VIEW", "VENDOR_MANAGE",
    "PRODUCT_VIEW", "PRODUCT_MANAGE", "SALES_VIEW", "SALES_CREATE", "SALES_UPDATE",
    "SALES_POST", "SALES_CANCEL", "PURCHASE_VIEW", "PURCHASE_CREATE", "PURCHASE_UPDATE",
    "PURCHASE_POST", "PURCHASE_CANCEL", "PAYMENT_VIEW", "PAYMENT_CREATE", "RECEIPT_VIEW",
    "RECEIPT_CREATE", "JOURNAL_VIEW", "JOURNAL_CREATE", "JOURNAL_POST", "ACCOUNTING_IMPORT",
    "ACCOUNTING_IMPORT_COMMIT", "ACCOUNTING_IMPORT_VIEW", "TALLY_IMPORT_VIEW",
    "TALLY_IMPORT_CREATE", "TALLY_IMPORT_COMMIT", "TALLY_IMPORT_EXPORT", "TALLY_MAPPING_MANAGE",
    "TALLY_EXPORT_VIEW", "TALLY_EXPORT_CREATE"}

TaxPermissions ==
   {"GST_VIEW", "GST_CREATE", "GST_UPDATE", "GST_RETURN_VIEW", "GST_RETURN_GENERATE",
    "GST_RETURN_VALIDATE", "GST_RETURN_APPROVE", "GST_RETURN_FINALIZE", "GSTR1_VIEW",
    "GSTR1_GENERATE", "GSTR1_EXPORT", "GSTR2B_IMPORT", "GSTR2B_VIEW", "GSTR2B_RECONCILE",
    "ITC_VIEW", "ITC_REVIEW", "ITC_APPROVE", "GSTR3B_VIEW", "GSTR3B_GENERATE", "GSTR3B_EXPORT",
    "TDS_VIEW", "TDS_CREATE", "TDS_UPDATE", "TDS_DEDUCTEE_VIEW", "TDS_DEDUCTEE_MANAGE",
    "TDS_RULE_VIEW", "TDS_RULE_MANAGE", "TDS_TRANSACTION_VIEW", "TDS_TRANSACTION_CREATE",
    "TDS_TRANSACTION_UPDATE", "TDS_TRANSACTION_CALCULATE", "TDS_TRANSACTION_CANCEL",
    "TDS_CHALLAN_VIEW", "TDS_CHALLAN_CREATE", "TDS_CHALLAN_UPDATE", "TDS_CHALLAN_RECONCILE",
    "TDS_RETURN_VIEW", "TDS_RETURN_GENERATE", "TDS_RETURN_VALIDATE", "TDS_RETURN_APPROVE",
    "TDS_RETURN_FINALIZE", "TDS_IMPORT", "TDS_IMPORT_COMMIT", "TDS_REPORT_VIEW",
    "TDS_REPORT_EXPORT"}

BankAndAuditPermissions ==
   {"BANK_VIEW", "BANK_CREATE", "BANK_UPDATE", "BANK_STATEMENT_VIEW", "BANK_STATEMENT_IMPORT",
    "BANK_STATEMENT_IMPORT_COMMIT", "BANK_TRANSACTION_VIEW", "BANK_TRANSACTION_UPDATE",
    "BANK_MATCH_VIEW", "BANK_MATCH_CREATE", "BANK_MATCH_REVERSE", "BANK_ADJUST",
    "BANK_RECONCILE_VIEW", "BANK_RECONCILE_RUN", "BANK_RECONCILE_SUBMIT",
    "BANK_RECONCILE_APPROVE", "BANK_RECONCILE_LOCK", "BANK_REPORT_VIEW", "BANK_REPORT_EXPORT",
    "AUDIT_ENGAGEMENT_VIEW", "AUDIT_ENGAGEMENT_CREATE", "AUDIT_ENGAGEMENT_UPDATE",
    "AUDIT_ENGAGEMENT_ASSIGN", "AUDIT_CHECKLIST_VIEW", "AUDIT_CHECKLIST_MANAGE",
    "AUDIT_FINDING_VIEW", "AUDIT_FINDING_CREATE", "AUDIT_FINDING_UPDATE",
    "AUDIT_FINDING_ASSIGN", "AUDIT_FINDING_RESPOND", "AUDIT_FINDING_REVIEW",
    "AUDIT_FINDING_RESOLVE", "AUDIT_FINDING_REOPEN", "AUDIT_EVIDENCE_MANAGE",
    "AUDIT_ENGAGEMENT_REVIEW", "AUDIT_ENGAGEMENT_APPROVE", "AUDIT_ENGAGEMENT_SIGNOFF",
    "AUDIT_ENGAGEMENT_LOCK", "AUDIT_REPORT_VIEW", "AUDIT_REPORT_EXPORT"}

IncomeTaxAndCompliancePermissions ==
   {"INCOME_TAX_VIEW", "INCOME_TAX_CREATE", "INCOME_TAX_UPDATE", "INCOME_TAX_CALCULATE",
    "INCOME_TAX_VALIDATE", "INCOME_TAX_REVIEW", "INCOME_TAX_APPROVE", "INCOME_TAX_LOCK",
    "INCOME_TAX_EXPORT", "COMPLIANCE_VIEW", "COMPLIANCE_TASK_CREATE", "COMPLIANCE_TASK_UPDATE",
    "COMPLIANCE_TASK_ASSIGN", "COMPLIANCE_TASK_COMPLETE", "COMPLIANCE_TASK_REVIEW",
    "COMPLIANCE_TASK_VERIFY", "COMPLIANCE_TASK_CANCEL", "COMPLIANCE_TASK_LOCK",
    "COMPLIANCE_OBLIGATION_MANAGE", "COMPLIANCE_RULE_MANAGE", "COMPLIANCE_CALENDAR_VIEW",
    "COMPLIANCE_NOTIFICATION_VIEW", "COMPLIANCE_NOTIFICATION_MANAGE",
    "COMPLIANCE_REPORT_EXPORT"}

(* Every permission there is: the enumeration, and ALL_PERMISSION_CODES.      *)
PermissionCode ==
   PlatformPermissions \cup TaxPermissions \cup BankAndAuditPermissions
     \cup IncomeTaxAndCompliancePermissions

(* Mutant of AccountantGrants: the preparer may also approve.                 *)
MutantAccountantApproves ==
   PlatformPermissions \cup {"GST_RETURN_GENERATE", "GST_RETURN_APPROVE", "INCOME_TAX_APPROVE"}

AdminGrants ==
   PermissionCode \
     {"AUTH_VIEW", "AUTH_MANAGE", "COMPANY_CREATE", "DOCUMENT_DELETE", "DOCUMENT_MANAGE",
      "AUDIT_FINDING_CREATE", "AUDIT_FINDING_UPDATE", "AUDIT_FINDING_ASSIGN",
      "AUDIT_FINDING_REVIEW", "AUDIT_FINDING_RESOLVE", "AUDIT_FINDING_REOPEN",
      "AUDIT_ENGAGEMENT_REVIEW", "AUDIT_ENGAGEMENT_APPROVE", "AUDIT_ENGAGEMENT_SIGNOFF",
      "AUDIT_ENGAGEMENT_LOCK", "INCOME_TAX_APPROVE", "INCOME_TAX_LOCK",
      "COMPLIANCE_TASK_REVIEW", "COMPLIANCE_TASK_VERIFY", "COMPLIANCE_TASK_LOCK"}

AccountantGrants ==
   {"COMPANY_VIEW", "USER_VIEW", "DASHBOARD_VIEW", "DOCUMENT_VIEW", "DOCUMENT_UPLOAD",
    "DOCUMENT_UPDATE", "DOCUMENT_DOWNLOAD", "ACCOUNTING_VIEW", "ACCOUNTING_CREATE",
    "ACCOUNTING_UPDATE", "LEDGER_VIEW", "LEDGER_MANAGE", "CUSTOMER_VIEW", "CUSTOMER_MANAGE",
    "VENDOR_VIEW", "VENDOR_MANAGE", "PRODUCT_VIEW", "PRODUCT_MANAGE", "SALES_VIEW",
    "SALES_CREATE", "SALES_UPDATE", "SALES_POST", "SALES_CANCEL", "PURCHASE_VIEW",
    "PURCHASE_CREATE", "PURCHASE_UPDATE", "PURCHASE_POST", "PURCHASE_CANCEL", "PAYMENT_VIEW",
    "PAYMENT_CREATE", "RECEIPT_VIEW", "RECEIPT_CREATE", "JOURNAL_VIEW", "JOURNAL_CREATE",
    "JOURNAL_POST", "ACCOUNTING_IMPORT", "ACCOUNTING_IMPORT_COMMIT", "ACCOUNTING_IMPORT_VIEW",
    "TALLY_IMPORT_VIEW", "TALLY_IMPORT_CREATE", "TALLY_IMPORT_COMMIT", "TALLY_IMPORT_EXPORT",
    "TALLY_MAPPING_MANAGE", "TALLY_EXPORT_VIEW", "TALLY_EXPORT_CREATE", "GST_VIEW",
    "GST_CREATE", "GST_UPDATE", "GST_RETURN_VIEW", "GST_RETURN_GENERATE", "GST_RETURN_VALIDATE",
    "GSTR1_VIEW", "GSTR1_GENERATE", "GSTR1_EXPORT", "GSTR2B_IMPORT", "GSTR2B_VIEW",
    "GSTR2B_RECONCILE", "ITC_VIEW", "ITC_REVIEW", "GSTR3B_VIEW", "GSTR3B_GENERATE",
    "GSTR3B_EXPORT", "TDS_VIEW", "TDS_CREATE", "TDS_UPDATE", "TDS_DEDUCTEE_VIEW",
    "TDS_DEDUCTEE_MANAGE", "TDS_RULE_VIEW", "TDS_TRANSACTION_VIEW", "TDS_TRANSACTION_CREATE",
    "TDS_TRANSACTION_UPDATE", "TDS_TRANSACTION_CALCULATE", "TDS_TRANSACTION_CANCEL",
    "TDS_CHALLAN_VIEW", "TDS_CHALLAN_CREATE", "TDS_CHALLAN_UPDATE", "TDS_CHALLAN_RECONCILE",
    "TDS_RETURN_VIEW", "TDS_RETURN_GENERATE", "TDS_RETURN_VALIDATE", "TDS_IMPORT",
    "TDS_IMPORT_COMMIT", "TDS_REPORT_VIEW", "TDS_REPORT_EXPORT", "BANK_VIEW", "BANK_CREATE",
    "BANK_UPDATE", "BANK_STATEMENT_VIEW", "BANK_STATEMENT_IMPORT",
    "BANK_STATEMENT_IMPORT_COMMIT", "BANK_TRANSACTION_VIEW", "BANK_TRANSACTION_UPDATE",
    "BANK_MATCH_VIEW", "BANK_MATCH_CREATE", "BANK_MATCH_REVERSE", "BANK_ADJUST",
    "BANK_RECONCILE_VIEW", "BANK_RECONCILE_RUN", "BANK_RECONCILE_SUBMIT", "BANK_REPORT_VIEW",
    "BANK_REPORT_EXPORT", "AUDIT_ENGAGEMENT_VIEW", "AUDIT_CHECKLIST_VIEW", "AUDIT_FINDING_VIEW",
    "AUDIT_FINDING_RESPOND", "AUDIT_EVIDENCE_MANAGE", "AUDIT_REPORT_VIEW", "INCOME_TAX_VIEW",
    "INCOME_TAX_CREATE", "INCOME_TAX_UPDATE", "INCOME_TAX_CALCULATE", "INCOME_TAX_VALIDATE",
    "INCOME_TAX_REVIEW", "INCOME_TAX_EXPORT", "COMPLIANCE_VIEW", "COMPLIANCE_TASK_CREATE",
    "COMPLIANCE_TASK_UPDATE", "COMPLIANCE_TASK_COMPLETE", "COMPLIANCE_CALENDAR_VIEW",
    "COMPLIANCE_NOTIFICATION_VIEW", "COMPLIANCE_NOTIFICATION_MANAGE",
    "COMPLIANCE_REPORT_EXPORT"}

AuditorGrants ==
   {"COMPANY_VIEW", "DASHBOARD_VIEW", "AUDIT_LOG_VIEW", "DOCUMENT_VIEW", "DOCUMENT_DOWNLOAD",
    "ACCOUNTING_VIEW", "LEDGER_VIEW", "CUSTOMER_VIEW", "VENDOR_VIEW", "PRODUCT_VIEW",
    "SALES_VIEW", "PURCHASE_VIEW", "PAYMENT_VIEW", "RECEIPT_VIEW", "JOURNAL_VIEW",
    "ACCOUNTING_IMPORT_VIEW", "TALLY_IMPORT_VIEW", "TALLY_EXPORT_VIEW", "GST_VIEW",
    "GST_RETURN_VIEW", "GST_RETURN_APPROVE", "GSTR1_VIEW", "GSTR2B_VIEW", "ITC_VIEW",
    "ITC_APPROVE", "GSTR3B_VIEW", "TDS_VIEW", "TDS_DEDUCTEE_VIEW", "TDS_RULE_VIEW",
    "TDS_TRANSACTION_VIEW", "TDS_CHALLAN_VIEW", "TDS_RETURN_VIEW", "TDS_RETURN_APPROVE",
    "TDS_RETURN_FINALIZE", "TDS_REPORT_VIEW", "BANK_VIEW", "BANK_STATEMENT_VIEW",
    "BANK_TRANSACTION_VIEW", "BANK_MATCH_VIEW", "BANK_RECONCILE_VIEW", "BANK_RECONCILE_APPROVE",
    "BANK_RECONCILE_LOCK", "BANK_REPORT_VIEW", "AUDIT_ENGAGEMENT_VIEW",
    "AUDIT_ENGAGEMENT_UPDATE", "AUDIT_CHECKLIST_VIEW", "AUDIT_CHECKLIST_MANAGE",
    "AUDIT_FINDING_VIEW", "AUDIT_FINDING_CREATE", "AUDIT_FINDING_UPDATE",
    "AUDIT_FINDING_ASSIGN", "AUDIT_FINDING_REVIEW", "AUDIT_FINDING_RESOLVE",
    "AUDIT_FINDING_REOPEN", "AUDIT_EVIDENCE_MANAGE", "AUDIT_ENGAGEMENT_REVIEW",
    "AUDIT_ENGAGEMENT_APPROVE", "AUDIT_ENGAGEMENT_SIGNOFF", "AUDIT_ENGAGEMENT_LOCK",
    "AUDIT_REPORT_VIEW", "AUDIT_REPORT_EXPORT", "INCOME_TAX_VIEW", "INCOME_TAX_APPROVE",
    "INCOME_TAX_LOCK", "INCOME_TAX_EXPORT", "COMPLIANCE_VIEW", "COMPLIANCE_TASK_REVIEW",
    "COMPLIANCE_TASK_VERIFY", "COMPLIANCE_TASK_LOCK", "COMPLIANCE_CALENDAR_VIEW",
    "COMPLIANCE_NOTIFICATION_VIEW", "COMPLIANCE_NOTIFICATION_MANAGE",
    "COMPLIANCE_REPORT_EXPORT"}

(* RoleCode: the roles the seed script creates.  They can all be the role of  *)
(* a membership.                                                              *)
RoleCode == {"SUPER_ADMIN", "COMPANY_ADMIN", "ACCOUNTANT", "AUDITOR"}

(* ROLE_PERMISSIONS: what get_permission_codes_for_role returns for the       *)
(* membership's role.                                                         *)
RolePermissions ==
  [role \in RoleCode |->
     CASE role = "SUPER_ADMIN"   -> PermissionCode
       [] role = "COMPANY_ADMIN" -> AdminGrants
       [] role = "ACCOUNTANT"    -> AccountantGrants
       [] role = "AUDITOR"       -> AuditorGrants]
==============================================================================
