------------------------------ MODULE ImportJobs ------------------------------
(* The import of spreadsheets: a file's rows are validated and staged, and    *)
(* the commit of the job makes records of them (app/services/                 *)
(* import_service.py, app/services/imports/row_validators.py).                *)
(*                                                                            *)
(* A row is what its file says, once mapped to the fields of its kind:        *)
(*   number   the number of the document, or the name of master data          *)
(*   date     the date of the document                                        *)
(*   party    the customer, vendor or deductee, or a supplier's GSTIN         *)
(*   ledger   the ledger, or the section of a TDS row                         *)
(*   amount   the taxable, paid or gross amount                               *)
(*   debit, credit  the two amounts of a journal or bank row; debit is also   *)
(*                  the tax of a TDS row                                      *)
(*   bad      the other fields that hold what cannot be read or is not        *)
(*            allowed                                                         *)
(* where None is a value that is missing or cannot be read.  Amounts are what *)
(* the file says, counted as Money counts payloads.                           *)
EXTENDS CaseDesk, SequencesExt, Sums, Money

CONSTANTS Jobs,   \* ids for import jobs
          Files,  \* by kind, the files that may be uploaded: sequences of rows
          Known   \* names of the parties, ledgers and sections on record

ASSUME ImportAssumption ==
  \A kind \in DOMAIN Files : \A f \in Files[kind] :
    /\ Len(f) \in Nat \ {0} /\ DOMAIN f = 1..Len(f)
    /\ \A i \in DOMAIN f : f[i].debit \in Int /\ f[i].credit \in Int

VARIABLES job,        \* import_jobs with their rows' statuses, by id, or None
          made,       \* how many records were made of each row of a job
          statement   \* status of the bank statement that rows belong to

importVars == <<job, made, statement>>

ImportType ==
  {"SALES", "PURCHASES", "CUSTOMERS", "VENDORS", "PRODUCTS", "PAYMENTS", "RECEIPTS", "LEDGERS", "JOURNALS",
   "TALLY", "GSTR2B", "TDS", "BANK_STATEMENT"}
Finished == {"COMPLETED", "COMPLETED_WITH_ERRORS"}
RowStatus == {"VALID", "ERROR", "DUPLICATE", "COMMITTED"}

(* An import job with its file and the statuses of its rows.                  *)
ImportJob ==
  UNION {UNION {[kind : {kind}, file : {f}, status : Finished \cup {"READY", "CANCELLED"},
                 rows : [DOMAIN f -> RowStatus]] : f \in Files[kind]} : kind \in DOMAIN Files}
ASSUME ImportJobAssumption == None \notin ImportJob

ImportInit ==
  /\ job  = [j \in Jobs |-> None]
  /\ made = [j \in Jobs |-> <<>>]
  /\ statement = "IMPORTED"

-------------------------------------------------------------------------------
(* The validators of a row, by kind.                                          *)

Reads(r, fields) == r.bad \cap fields = {}
AmountFrom(r, least) == r.amount # None /\ r.amount >= least

CustomerRow(r) == r.number # None /\ Reads(r, {"gstin"})
VendorRow(r)   == r.number # None /\ Reads(r, {"gstin"})
ProductRow(r)  == r.number # None /\ Reads(r, {"item_type", "tax_rate"})
LedgerRow(r)   == r.number # None /\ Reads(r, {"ledger_type", "opening_balance", "opening_balance_type"})

SalesRow(r) ==
  /\ r.number # None /\ r.party \in Known /\ r.date # None
  /\ AmountFrom(r, 0) /\ Reads(r, {"taxes"})

PurchaseRow(r) ==
  /\ r.number # None /\ r.party \in Known /\ r.date # None
  /\ AmountFrom(r, 0) /\ Reads(r, {"taxes", "supplier_invoice_date"})

(* A payment mode nobody knows becomes OTHER.                                 *)
PaymentRow(r) == r.number # None /\ r.ledger \in Known /\ r.date # None /\ AmountFrom(r, 1)
ReceiptRow(r) == r.party \in Known /\ r.number # None /\ r.ledger \in Known /\ r.date # None /\ AmountFrom(r, 1)

(* One side of the row is zero, the other is not; it may be negative.         *)
JournalRow(r) ==
  /\ r.number # None /\ r.ledger \in Known /\ r.date # None /\ Reads(r, {"debit_amount", "credit_amount"})
  /\ ~(r.debit > 0 /\ r.credit > 0) /\ ~(r.debit = 0 /\ r.credit = 0)

Gstr2bRow(r) ==
  /\ r.party # None /\ r.number # None /\ r.date # None
  /\ AmountFrom(r, 0) /\ Reads(r, {"supplier_gstin", "document_type", "taxes"})

BankStatementRow(r) ==
  /\ r.number # None /\ r.date # None
  /\ Reads(r, {"value_date", "debit_amount", "credit_amount", "balance_after_transaction"})
  /\ r.debit >= 0 /\ r.credit >= 0
  /\ ~(r.debit > 0 /\ r.credit > 0) /\ ~(r.debit = 0 /\ r.credit = 0)

TdsRow(r) ==
  /\ r.party \in Known /\ r.ledger \in Known /\ r.date # None
  /\ AmountFrom(r, 1) /\ r.debit >= 0 /\ r.debit <= r.amount
  /\ Reads(r, {"pan", "deduction_date", "tds_amount", "tds_rate"})

IsValid(kind, r) ==
  \/ kind = "CUSTOMERS" /\ CustomerRow(r)
  \/ kind = "VENDORS" /\ VendorRow(r)
  \/ kind = "PRODUCTS" /\ ProductRow(r)
  \/ kind = "LEDGERS" /\ LedgerRow(r)
  \/ kind \in {"SALES", "TALLY"} /\ SalesRow(r)
  \/ kind = "PURCHASES" /\ PurchaseRow(r)
  \/ kind = "PAYMENTS" /\ PaymentRow(r)
  \/ kind = "RECEIPTS" /\ ReceiptRow(r)
  \/ kind = "JOURNALS" /\ JournalRow(r)
  \/ kind = "GSTR2B" /\ Gstr2bRow(r)
  \/ kind = "TDS" /\ TdsRow(r)
  \/ kind = "BANK_STATEMENT" /\ BankStatementRow(r)

-------------------------------------------------------------------------------
(* Duplicates.                                                                *)

(* The table a kind of row goes to.                                           *)
Table(kind) == IF kind = "TALLY" THEN "SALES" ELSE kind

(* The checksum of a bank row, made of date, amount, reference, description.  *)
Checksum(r) == <<r.date, IF r.debit > 0 THEN r.debit ELSE r.credit, r.number>>

(* _duplicate_key: what two rows of one file may not share, or None.          *)
DuplicateKey(kind, r) ==
  IF kind \in {"PAYMENTS", "RECEIPTS", "JOURNALS"} THEN None
  ELSE IF kind = "BANK_STATEMENT" THEN Checksum(r)
  ELSE IF kind = "TDS" THEN <<r.party, r.ledger, r.date, r.amount>>
  ELSE IF kind \in {"CUSTOMERS", "VENDORS", "PRODUCTS", "LEDGERS"} THEN <<r.number>>
  ELSE <<r.number, r.party>>

(* What a unique index keeps apart: the number within the year, the name of a *)
(* ledger, the checksum; nothing for other kinds.                             *)
IndexKey(kind, r) ==
  IF kind = "BANK_STATEMENT" THEN Checksum(r)
  ELSE IF kind \in {"SALES", "TALLY", "PURCHASES", "PAYMENTS", "RECEIPTS", "JOURNALS", "LEDGERS"} THEN <<r.number>>
  ELSE None

(* The records, each named by its job and row.                                *)
Records(table) ==
  UNION {{<<j, i>> : i \in {n \in DOMAIN made[j] : made[j][n] > 0}} :
           j \in {k \in Jobs : job[k] # None /\ Table(job[k].kind) = table}}
RowOf(rec) == job[rec[1]].file[rec[2]]

(* _check_existing_duplicate: an invoice of the same number, party and date,  *)
(* or a bank transaction of the same checksum.                                *)
OnRecord(kind, r) ==
  \E rec \in Records(Table(kind)) :
    \/ kind = "BANK_STATEMENT" /\ Checksum(RowOf(rec)) = Checksum(r)
    \/ /\ kind \in {"SALES", "TALLY", "PURCHASES"}
       /\ RowOf(rec).number = r.number /\ RowOf(rec).party = r.party /\ RowOf(rec).date = r.date

MutantStaged(kind, file) ==
  [i \in DOMAIN file |->
     IF ~IsValid(kind, file[i]) THEN "ERROR" ELSE IF OnRecord(kind, file[i]) THEN "DUPLICATE" ELSE "VALID"]

(* What the rows are staged as: the keys of the rows before count once those  *)
(* rows are valid and no duplicates themselves.                               *)
Staged(kind, file) ==
  LET status[i \in DOMAIN file] ==
        LET key == DuplicateKey(kind, file[i]) IN
        IF ~IsValid(kind, file[i]) THEN "ERROR"
        ELSE IF key # None /\ (\/ OnRecord(kind, file[i])
                               \/ \E k \in 1..(i - 1) : status[k] = "VALID" /\ DuplicateKey(kind, file[k]) = key)
        THEN "DUPLICATE"
        ELSE "VALID"
  IN [i \in DOMAIN file |-> status[i]]

-------------------------------------------------------------------------------
(* Jobs.                                                                      *)

JobRow(kind, file) == [kind |-> kind, file |-> file, status |-> "READY", rows |-> Staged(kind, file)]

(* The statuses a row is staged with may be out of date by the time the job   *)
(* is committed, so staging is one step.                                      *)
CreateJob(w) ==
  /\ Asked(w, "import", "create")
  /\ \E j \in Jobs, kind \in DOMAIN Files \cap scene.kinds : \E f \in Files[kind] :
       /\ job[j] = None
       /\ job'  = [job EXCEPT ![j] = JobRow(kind, f)]
       /\ made' = [made EXCEPT ![j] = [i \in DOMAIN f |-> 0]]
  /\ UNCHANGED statement /\ UNCHANGED deskVars

MutantAskCommit(w) ==
  /\ Asked(w, "import", "commit")
  /\ \E j \in Jobs :
       job[j] # None /\ job[j].status \notin Finished /\ Serve(w, "rows", "commit", j, None, job[j])
  /\ UNCHANGED importVars

(* commit: the job must be READY; its rows are read after it.                 *)
AskCommit(w) ==
  /\ Asked(w, "import", "commit")
  /\ \E j \in Jobs : job[j] # None /\ job[j].status = "READY" /\ Serve(w, "rows", "commit", j, None, job[j])
  /\ UNCHANGED importVars

ReadRows(w) ==
  LET q == worker[w] IN
  /\ q.pc = "rows"
  /\ worker' = [worker EXCEPT ![w].pc = "records", ![w].args = job[q.id].rows]
  /\ UNCHANGED scene /\ UNCHANGED importVars

MutantBalances(file, rows, number) == TRUE

(* The rows of one number are the lines of one journal, whose sums must agree *)
(* to the paisa; each line is then rounded on its own.                        *)
Debits(file)  == [i \in DOMAIN file |-> file[i].debit]
Credits(file) == [i \in DOMAIN file |-> file[i].credit]
Lines(file, rows, status, number) == {i \in DOMAIN file : rows[i] = status /\ file[i].number = number}
Balanced(file, lines) ==
  RoundMoney(SumOver(Debits(file), lines)) = RoundMoney(SumOver(Credits(file), lines))

LineDebits(file)  == [i \in DOMAIN file |-> RoundMoney(file[i].debit)]
LineCredits(file) == [i \in DOMAIN file |-> RoundMoney(file[i].credit)]

Balances(file, rows, number) == Balanced(file, Lines(file, rows, "VALID", number))

(* What becomes of a row: one whose journal does not balance, or with a date  *)
(* in no financial year, is an ERROR after all.                               *)
AfterCommit(kind, file, rows) ==
  [i \in DOMAIN rows |->
     IF rows[i] # "VALID" THEN rows[i]
     ELSE IF kind = "JOURNALS" /\ ~Balances(file, rows, file[i].number) THEN "ERROR"
     ELSE IF kind = "TDS" /\ ~Reads(file[i], {"financial_year"}) THEN "ERROR"
     ELSE "COMMITTED"]

(* The first of the rows that share a journal makes it.                       *)
Makes(kind, file, rows, i) ==
  /\ rows[i] = "VALID" /\ AfterCommit(kind, file, rows)[i] = "COMMITTED"
  /\ kind = "JOURNALS" => \A k \in 1..(i - 1) : rows[k] # "VALID" \/ file[k].number # file[i].number

(* A unique index refuses the whole commit.  The status FAILED that the       *)
(* handler then sets is never committed: the request raises.                  *)
WriteRecords(w) ==
  LET q == worker[w]
      kind == q.seen.kind
      file == q.seen.file
      after == AfterCommit(kind, file, q.args)
      new == {i \in DOMAIN file : Makes(kind, file, q.args, i)}
      key(i) == IndexKey(kind, file[i])
  IN /\ q.pc = "records"
     /\ \A i \in new : key(i) # None =>
          /\ \A k \in new \ {i} : key(k) # key(i)
          /\ \A rec \in Records(Table(kind)) : IndexKey(kind, RowOf(rec)) # key(i)
     /\ job' = [job EXCEPT
                  ![q.id].rows   = [i \in DOMAIN file |-> Column(after[i], q.args[i], @[i])],
                  ![q.id].status = IF \E i \in DOMAIN file : after[i] = "ERROR" THEN "COMPLETED_WITH_ERRORS" ELSE "COMPLETED"]
     /\ made' = [made EXCEPT ![q.id] = [i \in DOMAIN file |-> @[i] + (IF i \in new THEN 1 ELSE 0)]]
     /\ statement' = IF kind = "BANK_STATEMENT" THEN "READY" ELSE statement
     /\ Done(w)

(* cancel refuses only a job that was committed.                              *)
AskCancel(w) ==
  /\ Asked(w, "import", "cancel")
  /\ \E j \in Jobs : job[j] # None /\ job[j].status \notin Finished /\ Serve(w, "cancel", "cancel", j, None, job[j])
  /\ UNCHANGED importVars

WriteCancel(w) ==
  LET q == worker[w] IN
  /\ q.pc = "cancel"
  /\ job' = [job EXCEPT ![q.id].status = Column("CANCELLED", q.seen.status, @)]
  /\ Done(w) /\ UNCHANGED <<made, statement>>

ImportRequest(w) ==
  \/ CreateJob(w) \/ AskCommit(w) \/ ReadRows(w) \/ WriteRecords(w) \/ AskCancel(w) \/ WriteCancel(w)
================================================================================
