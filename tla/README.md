# Formal models of the Tally Tax backend

Tally Tax is a FastAPI service over async SQLAlchemy and PostgreSQL, with a React client. It
keeps the books of Indian companies (invoices, receipts, journals), prepares their GST and
TDS returns, reconciles their bank accounts, and runs review workflows over all of it. This
directory models the parts of it whose correctness depends on the *order* of things: which
request reads a row before another writes it, which status a document passes through, which
sums still agree after any sequence of operations. TLC checks the models on small
instances, and TLAPS proves the most important results for every value of the constants.

Everything is translated from `src/backend/app`. `PROJECT.json` maps each definition to the
lines it stands for, and lists the runs, the hazards, the findings and the theorems.

## 1. The system

### The transaction model, on which everything else rests

`core/database.py` gives each HTTP request one `AsyncSession` with `expire_on_commit=False`
and `autoflush=False`. The database runs at its default isolation, READ COMMITTED. In the
services modelled here there is no `SELECT ... FOR UPDATE` and no version column. So:

- each SELECT of a handler sees what was committed when it ran, and two SELECTs of one
  request may see different states of the database;
- a check made on a loaded row is not made again when the row is written: the UPDATE is by
  primary key, and it writes only the columns whose value differs from the loaded one;
- all writes of a request become visible at its commit, which is the router's last act;
- a unique index is the one thing that makes a late writer fail (`IntegrityError`, answered
  with 409), and a refused request changes nothing, since its session rolls back.

All models share this shape. A *worker* is one request in flight: its program counter, the
rows it has loaded and the values it is going to write. A SELECT is a step and a commit is a
step. A request refused by its first SELECT is no step at all.

Most of what the code promises holds only while requests follow one another, some of it
whatever they do, and the two must not be confused. `Init` therefore chooses a nonempty
*crew* of workers that are switched on for the whole behaviour. `Serial` says that the crew
is a single worker. A property written `Serial => ...` is claimed of serialised requests
only; a property without it is claimed, and checked, of racing ones too. Both crews occur in
the same run, so no claim about overlap rests on a model that cannot overlap.

### Components

| Component | State | Operations | Talks to | Status |
|---|---|---|---|---|
| Invoices, vouchers, journals, periods (`*_invoice_service`, `receipt_service`, `payment_service`, `*_note_service`, `invoice_posting_service`, `accounting_guards`, and what `import_service` writes here) | invoice and voucher rows, journal entries, accounting periods | create, update, post, cancel; record a receipt, payment, note; commit an import of them; set a period's status | the posting service writes the journal in the caller's session; an import calls neither it nor the period guard | modelled: `LedgerPosting` |
| TDS payments (`tds_transaction_service`, `tds_challan_service`, `tds_reconciliation_service`) | deductions, challans, allocations, findings | create, import, calculate, override, deduct, cancel; create and edit a challan; allocate; reconcile | the rule engine answers a calculation | modelled: `TdsPayments` |
| Return preparation (`gst_return_snapshot_service`, `tds_return_snapshot_service`) | versions of each return, the period's status | generate, submit, approve, request_changes, finalize | reads the books; writes the period's status | modelled: `ReturnSnapshots` |
| Bank reconciliation (`bank_match_service`, `bank_matching_service`, `bank_adjustment_service`, `bank_reconciliation_service`) | statement transactions, matches, sessions | match, reverse, adjust, exclude, mark for review; start, run, submit, approve, reject, lock, cancel | adjustments post journals; the engine uses the matching service | modelled: `BankMatching` |
| Users, memberships, roles (`user_service`, `permissions.py`) | memberships, the role matrix | admit, change role or status, deactivate; the permission check of every route | every router | modelled: `AccessControl`, `RolePermissions` |
| Login and refresh tokens (`auth_service`) | refresh tokens | login, refresh (rotation), logout | - | modelled: `AccessControl` |
| Routers (`app/api`) | none | guard, one service call, commit | every service | guards and commits of all operations: `ApiRoutes` |
| Compliance tasks (`compliance_task_service`) | tasks | create, edit, assign, the task workflow, delete, sweep | notifications | modelled: `ComplianceTasks` |
| Obligations and the scheduler (`compliance_obligation_service`, `compliance_readiness_service`, `compliance_scheduler`) | obligations; the books the readiness looks at | create, generate, the review workflow, readiness, generate a task, the hourly sweep | tasks; reads every other component | modelled: `Compliance`, `ComplianceReadiness` |
| Notifications (`notification_service`) | notices | notify with de-duplication, read | tasks and sweeps | with the tasks |
| Audit engagements (`audit_*_service`) | engagement, staff, checklist, findings, responses, reviews, sign-offs | the workflows of engagement and finding with their gates | - | modelled: `AuditEngagements` |
| Income tax and ITR (`income_tax_*`, `business_income_service`, `itr_preparation_service`) | heads of income, losses, credits, computations, snapshots, preparations | record and edit, calculate, review; prepare, validate, review | reads invoices and journals | modelled: `TaxReturns`, `IncomeTaxFigures` |
| Imports (`import_service`, `row_validators`) | jobs and their rows | upload with validation, commit, cancel | creates masters, invoices, vouchers, journals, bank rows | modelled: `ImportJobs` |
| GST reconciliation, input tax credit | GSTR-2B records, results | run, review | feeds GSTR-3B | not modelled |
| Documents | rows and files | upload, archive, restore | the file store | not modelled |
| GST calculation, TDS rules | none | pure lookups and decimal arithmetic | - | not modelled |
| Audit log | append-only rows | log | every service | not modelled: nothing reads it to decide |
| Master data, financial years | single rows | CRUD under unique indexes | - | not modelled |
| Reports, dashboards, search | none | read-only queries | - | not modelled |
| Web client | none | a client of the API | - | not modelled: any request may come at any time |

`PROJECT.json` calls each of these *partly* modelled: every one has some plain edit (titles, comments,
notes, attachments) that no module follows. Section 6 lists them.

### What is hard about it

Every handler is check-then-act over rows other requests may change: the stale check, the
lost update and the sum read before an insert are the recurring hazards. There are long
legal sequences (post, cancel, settle, reverse, re-run) after which several tables must still
agree, and operations that write two tables must not leave one behind. Periods, sessions and
reviews *gate* other operations from a row of their own. Amounts come with any number of decimals and
are kept with two, so what is computed before the rounding and what is stored can differ. The hourly sweep writes rows it listed earlier. `PROJECT.json`
lists each of these at the line where it bites. Where a property covers a hazard only
for serialised requests the hazard's note says so: with overlapping requests the code has the
fault.

What makes each component correct:

- *Ledger*: each journal balances, is never rewritten, and exists exactly while its invoice, if it was
  entered and not imported, is posted; control accounts equal the open documents that were entered; a
  closed period is frozen; receipts never exceed an invoice.
- *TDS payments*: allocations never exceed a challan or a deduction; PAID and RECONCILED mean
  paid in full; a deduction no longer moves once made; the reconciliation says what is so.
- *Returns*: what was approved is what was generated; a finalized version is final; the period
  follows its returns.
- *Bank*: nothing is matched beyond its amount; the status shown is explained by the matches;
  match history is permanent; figures under review do not move.
- *Access*: what one role prepares another decides; a company keeps an administrator; a session
  has one live token, and ends for good.
- *Compliance*: a task moves along its workflow, a closed obligation stays closed, one unread notice
  a matter, and what is late is eventually shown so, whatever fails on the way.
- *Audit*: nothing is signed off without the lead auditor; a status agrees with the times beside it;
  closed means closed.
- *Income tax*: the snapshot is what was calculated; what is derived follows from what was
  recorded, to the rounding; earning more above a threshold never leaves less before cess; approved
  figures stay.
- *Imports*: a row becomes at most one record; journals made of rows balance, when the file has fractions
  of a paisa to a paisa a line.

## 2. Modules

| Module | What it is |
|---|---|
| `LedgerPosting` | invoices, vouchers, their journals and the accounting period |
| `TdsPayments` | deductions, challans, allocations, the reconciliation run |
| `StatusWorkflow` | the abstract specification: a document moves only along the edges of its workflow |
| `ReturnSnapshots` | versions of the returns of one period; implements `StatusWorkflow` |
| `BankMatching` | one bank account in one period; its sessions implement `StatusWorkflow` |
| `RolePermissions` | the permission codes and the matrix of the roles |
| `ApiRoutes` | every operation of the API: what guards it and whether it commits |
| `AccessControl` | memberships, the check of a request, refresh tokens; uses the two above |
| `ComplianceTasks` | tasks and the notices they raise |
| `ComplianceReadiness` | what stands between an obligation and its review |
| `Compliance` | obligations and the sweeps; composes the two above; tasks implement `StatusWorkflow` |
| `CaseDesk` | how a request is served: load, check, one commit of dirty columns |
| `AuditEngagements` | one engagement with its staff, checklist, findings, reviews |
| `IncomeTaxFigures` | the income tax calculator and the derived amounts, as operators |
| `TaxReturns` | heads of income, computations with snapshots, the preparation of the return |
| `ImportJobs` | import jobs: validators, duplicates, the commit |
| `Casework` | composes the three desks above, with their properties |
| `Money` | an amount as a payload carries it, in tenths of a paisa, and what a column keeps of it, in paise |
| `Sums` | the sum of a column over a set of rows, for the modules that add up |
| `MC*` | the constants and the scenes of the TLC instances |
| `*_proofs` | theorems and their proofs; `Sums_proofs` are lemmas the others use |

A definition called "Mutant of X" is a plausible bug in X: a guard dropped, a check on the
wrong quantity, a record deleted instead of marked. It is no part of the specification. Put in
place of X it makes the property named beside it in `PROJECT.json` fail, which shows that the
property depends on that code.

### LedgerPosting

*State.* `invoices` holds status and totals (taxable, tax, grand total, round-off) of the sales
and purchase invoices; `vouchers` the receipts, payments and notes; `journals` the journal
entries by source document and number suffix, each with its effect on the five kinds of
ledger it can touch (party, nominal, tax, round-off, bank; debits positive); `period` the status
of the accounting period all dates fall in; `work` the requests.

*Actions.* `CreateLoad`/`CreateCommit` are `create` with its duplicate check and the unique
index behind it. `UpdateLoad`/`UpdateCommit` are `update`: `Overlay` writes only the totals that
differ from the loaded ones, so that racing updates can leave a row with columns of two
payloads, as the ORM does. `post` is `PostLoad`, `AssertPeriodOpen` (`assert_period_open`),
`ExistingJournal` (`scalar_one_or_none`, which raises on two rows, and
`validate_journal_balance`), `GenerateNumber` (`_generate_unique_journal_number`) and
`PostCommit`. `cancel` shares the middle steps and leaves the DRAFT case without them.
Receipts, payments and notes are created and posted by one request: `SettleBegin` or
`NoteBegin`, the period, `SettleInvoice`, `SettleSum` (the sum of earlier receipts),
`NoteInvoice`, `VoucherCommit`. A committed import is `ImportInvoice` and `ImportVoucher`: it inserts
POSTED documents in one transaction, calls no posting service and looks at no period, so nothing of it
is in `journals`. `imported` marks these rows, as their `source_reference` does. They are cancelled and
settled like any other, which `JournalMirrorsInvoice` and `ControlAccountAgrees` account for. `PeriodLoad`/`PeriodCommit` set any status in any order, which
is what `AccountingPeriodService.update_status` allows.

*Sales and purchases* have parallel services; `OnSide` mirrors one into the other and `Side` says
which vouchers take the side of their invoice. `WholeRupees` is the ROUND_HALF_UP of
`AccountingCalculationService`, with the paise in a rupee as a constant.

*Left out.* Line items (their totals are the payload), the creation of ledgers, the creation of
periods (a date without one is accepted, as if OPEN), reversing journals (`cancel` marks the
journal CANCELLED; there is none), manual journal entries, and the journals and opening balances that
imports write: journals of a file are in `ImportJobs`; those of a Tally import, credit and debit notes
among them, are in no module. `_commit_journal_voucher` (`tally_importer.py:574-625`) puts a difference of
up to 0.05 on the last line and posts a greater one as it is.

### TdsPayments

*Amounts.* A payload's amount is above zero and has any decimals; the service rounds it, so `RoundMoney`
may store nothing (`schemas/tds_challan.py:13`, `tds_challan_service.py:53`, `:126`). `Amounts` are in tenths of a paisa, columns
in paise. A challan of 0.00 is found RECONCILED by the next run, with nothing to allocate.

*State.* `challans` (status, amount), `txns` (status, TDS amount), the allocations as the two sums
the code computes over them (`challanSum`, `txnSum`) and the pairs they join (`links`;
allocations are only inserted, never changed, so the sums are running totals), `findings` of
the last reconciliation, and `work`.

*Actions.* `TxnCreate` and `TxnImport` (a committed import inserts rows as DEDUCTED), then `Calculate`, `Override`, `Deduct`, `CancelTxn`, each a load and the
common `TxnCommit`. The rule engine answers TDS due, none due, or no certain answer.
`ChallanCreate`; `EditLoad`/`EditSum`/`EditCommit` are the PATCH of status and amount with its
check against what is allocated. `allocate` is `AllocateLoad`, `AllocateTxn`,
`AllocateChallanSum`, `AllocateTxnSum`, `AllocateCommit`, one step per SELECT in the code's order.
`reconcile` is `ReconcileBegin`/`ReconcileClear` (the DELETE of earlier findings, its snapshot and
its wait for another run's locks), `ReconcileTxnList` and `ReconcileTxn` (one sum per deducted
transaction), `ReconcileChallanList` and `ReconcileChallan`, `ReconcileCommit`.

*Left out.* The PATCH of a DRAFT transaction (it changes no modelled column), the rule engine's
own lookups.

### ReturnSnapshots

*State.* `snapshots`, the versions of each return in order, with status and the two states of the
books between which the summary was computed; `period`; `books`, the number of documents
committed; `work`.

*Actions.* `PostDocument` is any other request that commits to the books. `generate` is
`GenerateBegin`, `GenerateSummary`, `GenerateCommit`; the unique index on the version refuses a
second one. `_transition` is `ReviewLoad` (status check), `ReviewFlush` (the UPDATE, which locks
the row until commit: `Holds`), `ReviewPeriod` and `ReviewLatest` (`_sync_period_status`, which
for GST looks at the latest version of every return in turn) and `ReviewCommit`. `Tax` selects
GST's or TDS's rule for the period: `GstPeriod` or `TdsPeriod`.

Only this module models row locks. Elsewhere a lock would only order commits that are steps
already. Here the UPDATE comes before SELECTs that decide what is written next, so it
matters who waits.

*Left out.* The figures of the summaries. CHANGES_REQUESTED is a dead end for its version, as in
the code and README:1099-1100; the docstring of `GSTReturnSnapshotStatus` says it loops back to
DRAFT. The period's status ARCHIVED is set by no code.

### BankMatching

*State.* `status` of each bank transaction; `sources`, the receipts and journal entries it can be
matched with; `matches` in the order they were made; `sessions` of the period with status and
book balance; `work`.

*Actions.* `MatchLoad` and `Sync` are `create_manual_match` with `sync_bank_transaction_status`;
`AdjustLoad` is `create_adjustment` (the journal of what remains, posted and matched);
`ReverseLoad`/`ReverseSync` is `reverse`; `SetAside` is `exclude` and `mark_review_required`;
`StartSession`, `Review` (submit, approve, reject, lock, cancel) and `RunLoad` move a session;
`FoundNone`, `FoundWeak`, `FoundLead`, `FoundStrong` are what a run of the engine decides for one
transaction; `RunEnd` computes the book balance; `Commit` writes everything a request holds.
`PostJournal` is another service posting a draft journal.

*Abstractions.* The checks of one request are one load step. A candidate's date window and score
are left open within what the code allows: a journal entry has neither reference nor
counterparty and cannot reach the threshold of a suggestion, so only receipts are suggested or
matched automatically. (The engine auto-matches when the best score is at least 90 and
unique among the best. README:229-230 says "exactly one candidate clears the strong-match
threshold"; the model allows both readings.) The book balance is kept as the sets of
records it counts, so that double counting shows. Credit transactions only: the debit side
mirrors them. Receipts are POSTED from the start, as every code path leaves them. Receipts
created by an import have no journal entry and are not modelled. As in the code, an excluded
transaction can still be adjusted, and reversing an adjustment leaves its journal posted.

### StatusWorkflow

Parameters: the documents, the status of a new one, and the allowed edges. `Create` and `Move`
are its steps, one document at a time; `Together` is a step that may take several documents along, each
by an edge of its own, which is what a sweep does (`TogetherSpec`). `ReturnSnapshots`, `BankMatching` and, with `TogetherSpec`, `Compliance` instance it with a refinement mapping that
shows the status of each row that exists. The edges are written out from the docs' description
of the workflow, not computed from the code's transition table.

### AccessControl, RolePermissions, ApiRoutes

*State.* `member`, the membership rows of one company; `companyActive`; `token`, the refresh tokens;
`worker`; `acted`, the operation committed last and the role it was committed in.

*Actions.* `Authorize` is the dependency every guarded handler starts with: `get_current_user`,
`get_current_membership`, `require_permission`. `Finish` is a handler of any router, seen from here:
it commits or only reads. Members are managed by `LoadTarget`, `CheckMember`, `InsertMember`,
`UpdateMember` with `EnsureNotLastAdmin`, and `UpdateCompany`. `LogIn`, `LoadForRefresh`/`Rotate`,
`LoadForLogout`/`Revoke` and `Expire` are the life of a token. A behaviour is about one of three
desks, `api`, `people` or `sessions`, so that each is explored in full.

*Data.* The role matrix and the guards of all operations are written out as sets, since
`RolesSeparated` is a statement about just these tables: one wrong code in either breaks it.

*Left out.* Passwords, the contents of access tokens, and filters of queries.

### ComplianceTasks, ComplianceReadiness, Compliance

*State.* `task`, `obligation` and `inbox` (unread notices, counted up to two); `today`; `worker`, with
the scheduler's loop as one more worker; `books`, the answers the tables of the other modules give to the
readiness checks; `restarted`; and `scene`, what the behaviour is made of.

*Actions.* A task request is `LoadTask` (which checks) and `TransitionTask`, `UpdateTask`,
`AssignTask` or `DeleteTask`, with the notices `Told` in the same commit. An obligation request is
`LoadObligation`, for three of them `Evaluate` (the readiness), and the commit of its name.
`create` and `generate_from_rule` are `LookUp` and `InsertObligation`. A sweep is `ListTasks`, `Dedupe`,
`ListObligations`, `SweepCommit`; `Stumble` is the sweep that fails because a listed task was deleted.
`NextDay`, `BooksMove` and `Restart` are what happens around the desk.

*What fails a sweep.* A listed task that was deleted meanwhile, and a listed obligation whose notice cannot be stored: it
has an assignee, and a name of 247 characters or more, which with `OVERDUE: ` before it exceeds the 255 of
`notifications.title` (`compliance_obligation_service.py:791`, `models/notification.py:38`). Of a name the model keeps whether
it is so long (`long`), of such a notice that it makes the whole transaction fail (`Untellable`). In between, names
of 224 to 246 characters are too long for the titles some operations write besides, so that just these operations are
refused; a refused request changes nothing, and the model does not tell them apart.

*Readiness that raises.* With a year and a computation, `_check_income_tax` asks for
`TaxComputationStatus.FINALIZED`, which does not exist (`compliance_readiness_service.py:457`). The evaluation of such an
obligation raises AttributeError, so the request changes nothing (`Evaluable`).

*Left out.* Comments, evidence, rule versions, the arithmetic of due dates, reports. A task's delete
and lock are the ends of its workflow. `OVERDUE` is laid over any open status; the sweep keeps no
memory of the status it covers.

### CaseDesk and the three desks of Casework

`CaseDesk` gives all three their shape: `Serve` is the SELECT that starts a request, `Column` and
`Written` what an UPDATE leaves in a row changed meanwhile, `Abandon` the refusal. A scene says who
works, which requests are made and whether one at a time.

*AuditEngagements.* `LoadEngagement`, then for approve `GateFindings` and `GateItems`, for sign_off
`GateSignOffs`, each its own SELECT, then `MoveEngagement`. `AskSignOff`/`RecordSignOff`,
`AskAssign`/`Assign`/`Unassign`, `AskChecklist`/`WriteChecklist`, `LoadItem`/`UpdateItem`,
`AskFinding`/`CreateFinding` (with the code computed from a count), `LoadFinding`/`MoveFinding`,
`LoadForReview`/`LoadResponse`/`ReviewResponse`, `StartReview`/`LoadReview`/`EndReview`. Of a time
(completed_at, resolved_at, closed_at) only its presence is kept.

*IncomeTaxFigures and TaxReturns.* The calculator is translated whole: slabs, rebate, surcharge, the
marginal relief at a surcharge threshold, cess, each rounded half up as `round_money` does. The instance
scales the amounts down, so that a unit stands for a thousand rupees and is what is rounded to. Each head
has its own derived column, which the service computes from the payload, in tenths of a unit here, before the columns
round it (`Stored`, and `Loaded` for what a session reads back). An update sets some of the columns (`Patched`) and
computes from these as given and the others as stored (`StoredOver`). `calculate` is `AskCalculate`, `ReadIncome`, `ReadRest`, `ReadCredits`,
`WriteFigures`: the reads of its dozen SELECTs in three steps, and one commit of the columns and the
snapshot. The preparation of the return is `AskPreparation` .. `MovePreparation`, its validation
`ReadIssues`. The posted documents are a constant, since this desk does not post any.

*ImportJobs.* A file is a sequence of rows, a row the values of the fields its kind of import looks at.
Each validator is an operator; `Staged` is the pass over a file with its duplicates, within the file and on
record; the commit is `AskCommit`, `ReadRows`, `WriteRecords`, which the unique indexes can refuse as a
whole. `Balanced` compares the rounded sums of a journal's rows, as the code does, and `LineDebits` and
`LineCredits` are the lines it stores, each rounded on its own.

*Left out.* Titles and dates of engagements, comments and evidence; the texts of warnings; assessment
years; rate tables (a rule set is a constant); the parsing of files, column mapping, and the XML of Tally.

## 3. The runs

| Run | Instance | Shows |
|---|---|---|
| `ledger` | 2 workers, 1 sales and 1 purchase invoice, 2 vouchers, 3 payloads, 1 imported invoice with a tax below zero, a rupee of 4 paise, 1 suffix after the first | `TypeOK`, `JournalsBalance`, `JournalMirrorsInvoice`, `ControlAccountAgrees`, `JournalsAppendOnly`, `ClosedPeriodFrozen`, `SettlementWithinBalance` |
| `payments` | 2 workers; alone: 2 challans, 1 deduction of 2 paise, payloads of 0.4 and 1 paise, 2 reconciliation runs; racing: 1 challan, 1 deduction of 1, payloads of 1 and 1.5, 1 run | `TypeOK`, `AllocationsWithinBalance`, `SettledMeansAllocated`, `SettledOnEvidence`, `DeductionFrozen`, `FindingsExact` |
| `returns_gst` | 2 workers, 2 returns; alone: 2 versions of each, 1 document; racing: 1 version | `TypeOK`, `PeriodFinalizedWithReturns`, `PeriodHasReview`, `ImplementsReview`, `OnlyLatestReviewed`, `SummariesFrozen` |
| `returns_tds` | 1 worker, 2 forms, 3 versions | `PeriodFollowsReview` |
| `bank` | 2 workers, transactions of 2 and 1, a receipt of 2 and a draft journal of 2; alone: every operation, parts of 1, 2 matches, 3 records, 2 sessions; racing: runs of the engine against match, reverse and adjust on one transaction | `TypeOK`, `NeverOverMatched`, `StatusExplained`, `MatchFits`, `MatchesPermanent`, `FiguresFrozen`, `ImplementsReview` |
| `access` | 3 users (one a platform administrator), 3 membership rows, 4 tokens, 4 roles, all operations of the API; racing: 2 workers on sessions | `RosterSound` (with the types), `RolesSeparated`, `SessionsSound` |
| `compliance` | 14 scenes: every operation on one task or one obligation, in order and against the scheduler; two sweeps; a deletion in the middle of one, with a restart; several tasks in one sweep; two creations for one key, at once and in order; a task made from an obligation; each answer of the readiness checks turned; an obligation with a long name, alone and in the way of a task | `RowsSound` (with the types), `OneUnread`, `ClosedStays`, `TasksFollowWorkflow`, `EventuallyOverdue` |
| `casework` | 62 scenes: the audit desk in order and raced gate by gate; each head of income alone and with a calculation, two of them edited by two requests at once; computation and preparation in order and raced; every kind of import, two jobs of it, in order, six kinds raced | `AuditSound`, `TaxSound`, `ScheduleFair`, `ImportsSound`, `DecisionsStand` |

Claimed of racing requests as well: `TypeOK`, `JournalsBalance`, `JournalsAppendOnly`,
`SettledOnEvidence`, `SummariesFrozen`, `PeriodHasReview`, `MatchFits`,
`MatchesPermanent`, `RolesSeparated`, `RowsSound`, `OneUnread`, `ClosedStays`, `EventuallyOverdue`, and of the
properties of `casework` the parts that are not under `scene.serial`: `AuditSteps`, `SnapshotsKept`,
`RecordsOnce`, and that snapshots are never changed (`ScheduleFair` is about the calculator alone, by
the rule set an active computation is calculated by). Claimed of serialised requests: all the others, because with overlapping
requests the code does not keep them. In `ReturnSnapshots` and `BankMatching` the mapping of
`ImplementsReview` shows no document to a crew of several, which is how that claim is limited;
`TaskShown` does the same in `Compliance`.

`DecisionsStand` puts together what a step may do to each desk of `casework`: snapshots only grow, whatever overlaps;
in order, closed engagements, closed findings, approved computations and finished imports stay, an approved or locked
preparation is taken back by `validate` alone and approved only while nothing blocks it, and a calculation,
whose SELECTs are spread over four steps, commits the figures the rows give at that moment (`CalculationsCurrent`:
stated without `scene.serial` it fails, since a calculation can mix two states of the year).

### Bounds, and why they are enough

- *Two workers.* Each fault of overlap in this code needs one request that reads and one that
  writes between its read and its write.
- *Serial runs go deeper than racing ones* (`Alone` and `Contended`; in `LedgerPosting`, `Desk`): a
  long legal sequence needs several documents and versions, a race needs one row that
  several requests want. A crew of several works only on what all its members can reach.
- *Ledger.* The two kinds differ only by `Mirror`, so one invoice of each suffices; two vouchers
  make one receipt after another and two notes. The payloads cover a grand total rounded up,
  one rounded down and two payloads of one grand total, the case in which the ORM does not
  write that column. An imported total need not be whole rupees and nothing checks its signs (`ImportSheets`). `MaxSuffix = 1` lets a post that loaded the draft before another request
  posted and cancelled it go on to a second journal.
- *Payments.* Payloads are in tenths of a paisa: 4 is stored as nothing, 10 exactly, 15 as 2 paise, and with
  deductions of 2 paise in order and 1 in a race these give exact, partial, excessive and empty allocations, split over
  two challans. Two runs are needed for a second to replace the findings of a first.
- *Returns.* Two versions are needed for one to replace another under review; one document
  makes the two ends of a summary differ. A racing crew may exceed the bound on versions by one
  request each, which only adds behaviours.
- *Bank.* A transaction of 2 can be matched in parts, one of 1 cannot; two matches fill it, over-fill
  it were a check missing, or leave one to reverse; a second session follows a locked or
  cancelled one.
- `CHECK_DEADLOCK FALSE` where versions, runs, matches and sessions are used up and a behaviour
  ends at the bound. `LedgerPosting` never stops, and its deadlock is checked.
- *Access.* Two members and one administrator of the platform give every pair of acting and target
  role; three rows admit a third; four tokens are two sessions, each refreshed once, or one refreshed
  three times. `RolesSeparated` looks at every operation in every role.
- *Compliance.* `LastDay = 1`: a due date is past or it is not. One task or obligation is enough for a
  workflow, two for a sweep that fails on one and would have marked the other. The process restarts once,
  in the scene where sweeps also fail.
- *Casework.* Scenes keep each question small, and each says which requests are made. One finding,
  two responses (one rejected, then another), one review, one item of the template and one added; a list of
  findings stays within the 1000 that the gate of approve reads; two
  entries under the heads, with amounts that have a digit the columns cannot hold, on either side of the half, and
  updates of all columns or of one (`Recorded`, `Updated`); two computations (the first cancelled, or both at once), two snapshots each.
  `Incomes` are the incomes around each bend of the schedule, the whole ranges of marginal relief included, in
  thousands. Files have two or three rows: good ones, a duplicate, the same number with another party, a
  refused one, an unbalanced journal, one of halves of a paisa.
- *Symmetry* is over workers, and where no constant tells one from another over users' tokens and
  rows (`access`), and over computations, jobs and responses (`casework`). No run with symmetry checks
  liveness.

### Fairness

`Compliance` alone assumes fairness, and of one actor: `WF_vars(SweepStep(Scheduler))`. The loop
`periodic_compliance_sweep` sleeps, sweeps, catches whatever a cycle raises and starts over, and
`lifespan` starts it with each process, so a step of it that stays possible is taken. Nothing is assumed of
users: they may keep starting and submitting a task for ever, or never come. `EventuallyOverdue` holds
because a failed cycle is followed by another, and makes the one exception the code has: it promises nothing while an
obligation whose notice cannot be stored is past due (`InTheWay`), since every cycle then fails (`AllSwept`, section 4).
The mutant whose sweep passes over a task that nobody is
assigned to breaks it.
In the other components nothing happens by itself and no code retries a request: no fairness, no
liveness.

## 4. What the code does otherwise

These runs each check one sentence of the repository's own documentation, and TLC shows a
behaviour of the code that breaks it.

| Run | Sentence | What happens |
|---|---|---|
| `posted` | a POSTED document "must never be silently edited" (`accounting_enums.py:22-23`) | an update that loaded the invoice as DRAFT commits after a concurrent post |
| `backed` | "allocated against a PAID challan is, transitively, paid" (`tds_challan_service.py:183-184`) | a deduction split over an unpaid and a paid challan becomes PAID, with one request after the other |
| `books` | `book_balance` is "computed independently from the Phase 3 ledger" (`bank_reconciliation_service.py:4-5`) | a posted receipt counts twice, through its journal line and as a receipt |
| `counted` | invoices and notes and posted journals are "genuinely non-overlapping data sources, not a double-count risk" (`business_income_service.py:3-9`) | posting a credit note writes a journal on an income ledger, and the calculation subtracts the note and the journal |

Properties stated in the modules that no run checks, because the code breaks them as well; each becomes a
counterexample when it is added to the configuration named:

- `FinalizedImmutable` (`ReturnSnapshots_gst.cfg`): a request for changes that loaded a version before its
  approval commits after it was finalized, though "a FINALIZED snapshot is immutable"
  (`gst_return_snapshot_service.py:7-9`).
- `PeriodReachesFinalized` (the same): two returns are finalized at once, each request sees the other still
  APPROVED, and the period stays UNDER_REVIEW for good (`README.md:1101-1102`).
- `StatusAgrees` (`BankMatching.cfg`): the engine resets a partially matched transaction whose match is
  active (`bank_transaction_service.py:14-17`), with one request after the other.
- `LastAdminStays` (`AccessControl.cfg` with `"people"` in `Crowded`): two administrators are demoted by two
  requests that both counted two (`user_service.py:94-104`).
- `NeverSpammed` (`Compliance.cfg`): two overlapping sweeps both find no unread notice
  (`README.md:1311-1314`).
- `PostedInTrialBalance` (`LedgerPosting.cfg`): a committed import inserts invoices that are POSTED
  (`import_service.py:507`) and no journal for them, with one request after the other, and `post` refuses what is not
  DRAFT. `docs/tally-tax-remediation-final-report.md:14` names as a mended defect that "Trial Balance did not reflect
  posted invoices", and line 40 says "Balanced journal entries are automatically created".
- `ReconciledIsAllocated` (`TdsPayments.cfg`): a challan of 0.004 is stored as 0.00, and the run finds it covered with no
  allocation, though RECONCILED "reflects a *computed* match against allocations" (`tds_challan_service.py:20`). One
  request after the other is enough.
- `AllSwept` (`Compliance.cfg`): the notice of a long-named obligation does not fit, and every sweep fails as a whole, for
  good, though the scheduler "Sweeps overdue compliance tasks and obligations for all active companies"
  (`compliance_scheduler.py:17`).
- `JournalsBalance` of `Casework` (`Casework.cfg`): an import compares rounded sums (`import_service.py:607-609`) and rounds
  each line (626-627): 0.005 and 0.005 against 0.01 is stored as 0.02 against 0.01, though "an unbalanced entry is never
  persisted in the first place" (`models/journal_entry.py:18-21`).

Met while modelling, and allowed by the models:

- *Compliance.* `README.md:1305-1311` says every forward action still applies from OVERDUE. A task that was
  PENDING_REVIEW has lost `verify` and `return_for_changes`. A PATCH may set any status of an obligation that is
  not closed, past the table and the readiness gates of `README.md:1774-1777`. The readiness MISSING_DATA
  is computed from an answer no check gives. One failing task fails the sweep of every company
  (`compliance_scheduler.py:33`), until the next hour. The index on an obligation's key lets keys with a NULL
  part repeat, and then `get_by_natural_key` raises. The readiness of an income tax obligation whose year has a computation cannot be
  evaluated at all.
- *Ledger.* An imported invoice is cancelled and settled like any other: its cancellation takes nothing out of the books, and a
  receipt against it credits a party that was never debited. Imports go into closed periods.
- *Audit.* The gate of approve speaks of one moment: a finding may be opened or made severe right after it.
  Transitions of findings ignore the lock of their engagement. Two updates of a checklist item can
  leave COMPLETED without a time.
- *Income tax.* A derived column is computed from what the payload said, the other columns keep it rounded: gross 0.014
  and TDS 0.005 are stored as 0.01 and 0.01 with a net of 0.01. `TaxSound` says how far they can be apart, head by head
  (`Slack`: half a paisa for each rounded operand). Two creations at once can leave two active computations. Overlapping calculations can mix
  the columns of two, and an approval in the middle of one is overwritten. Of other income the TDS is both
  taken off the income and credited. The form of a preparation is that of the time it was made.
  `validate` resets an APPROVED or LOCKED preparation, and no other operation does. The repository's documents say
  there is no marginal relief at surcharge thresholds (`README.md:1237` and 1343, the comment in
  `income_tax_rule_set.py:110-113`, and the warning of `itr_validation_service.py:133-135`), and the calculator has it.
- *Imports.* The status FAILED is set and then rolled back. Two commits of one job make the records of a
  kind without a unique index twice. An invoice number used again for another party or date passes the
  validation and fails the whole commit. Journal rows may be negative.

## 5. The proofs

The proofs are for any number of workers, documents, amounts and bounds. What is assumed of
the constants is the `ASSUME` of each module, and nothing else: amounts of the ledger's services are natural
numbers, those of imports and of income tax payloads integers, those of TDS payloads above zero before they are
rounded, sets that must have a member have one, bounds have their types, `None` is no member of a table's
rows, the tables that are added up or counted have finitely many rows, and the income tax rule sets have the
shape of those `seed.py` inserts (`ScheduleAssumption`, below). TLC evaluates each `ASSUME` in every run.

The properties about overlapping requests rest on invariants of *one request*: what it holds of a row
that another request cannot take away (the row exists, a version stays submitted, a total that passed
the check balances). The properties of serialised requests need more, and of the same kind everywhere:
whatever the one busy request has loaded, checked or summed is still so when it commits. Each component
has a predicate that says this for every program counter, with the state as a parameter (`Fresh`,
`FreshIn`, `SerialOK`, `SeenOK`); the steps of the request itself establish it and, because nobody else
is at work, nothing else disturbs it.

**LedgerPosting_proofs.** `TypeCorrect`, `JournalsAlwaysBalance`, `JournalsNeverRewritten`.
That journals balance is not inductive by itself: `PostCommit` writes a journal without looking,
trusting `ExistingJournal` several steps earlier, and meanwhile the row it was computed from may
change. `LedgerInv` adds, for each request (`RequestOK`), that past the check the totals it
holds balance and that the journals it found exist, and that an unused voucher number has no
journal (`UnusedVouchers`). It does *not* say that invoice rows balance, and it must not: racing
updates can leave one that does not. The check alone saves the books, and the proof shows that.
Append-only then follows from the unique index in `PostCommit` and `VoucherCommit`.
Under `Serial`: `JournalsMirrorInvoices` and `ControlAccountAlwaysAgrees` by one invariant, `SerialInv`,
of `Books` (each invoice has at most one posted journal, POSTED means one that carries its totals or, for an
imported invoice, none, and the party side of all posted journals is the sum of the open entered invoices less the
entered vouchers) and `Fresh`. Imports are steps like the others: they and the later cancellation of what they
brought in leave both sums alone, so what was imported is exactly what the control account misses. A step changes one term of each sum, which is where the lemmas of `Sums_proofs` come in.
`ClosedPeriodStaysFrozen` and `SettlementsStayWithinBalance` follow from what `Fresh` says at the commit:
the period that was open still is, the sum of receipts that was read still is the sum.
`PostedKeptInOrder` (`Spec /\ []Serial => PostedNeverEdited`) is the other side of the finding of run `posted`: the
totals of an invoice are written by `UpdateCommit` alone (`InvoiceWrites`), and with one request at a time the
row it writes is still the DRAFT it loaded (`TotalsKept`). So the fault needs two requests that overlap.

**TdsPayments_proofs.** `TypeCorrect`; `SettledOnEvidenceHolds` under any interleaving, by
`EvidenceInv`: a reconciliation in flight listed each challan it is about to settle as PAID, and the allocations covered
the amount it listed; an allocation in flight has read its sum. Sums never shrink, so both are still true at the
commit. An amount may have been rounded to nothing, and then so is the sum; `AllocationsStayWithinBalance` and
`SettledStaysAllocated` under `Serial`, by `BalanceInv`: the rows the one request has loaded
are still the rows of the tables, each check it has passed is still true, and nothing is
allocated to a document that does not exist (`NothingAllocatedEarly`). The crew never changes
(`SerialKept`), so `Serial => BalanceInv` is invariant. `DeductionStaysFrozen` follows from it;
`FindingsAreExact` needs `FoundInv` besides: half way through a run the findings gathered are those of the
documents it has visited, no more and no fewer, and the visited and the pending ones together are all.

**ReturnSnapshots_proofs.** `TypeCorrect`, `PeriodAlwaysHasReview` and `SummariesStayFrozen` under
any interleaving: a request in flight holds a version that exists and stays
(`VersionExists`), and what it saw submitted stays submitted (`SeenSubmitted`).
`ReviewRefined`, the refinement of `StatusWorkflow` under `Serial`: a step is the creation of a
version that was absent, a move along an edge, or a stutter, by `SerialInv` (the version loaded
is still in the status loaded). `FinalizedStays` draws the consequence: terminal statuses are
permanent. Without `Serial` it fails, as section 4 says. `LatestAlwaysReviewed` says the same of what
may be under review at all. `GstPeriodFinalized` and `TdsPeriodFollows` are about the period: `SeenInv` says
of a request that goes through the returns one by one which of them it has found finalized so far
(`SeenOK`), and that the period's row already shows what every earlier request found.

**BankMatching_proofs.** `TypeCorrect`, with the fact that each match names a record there is;
`EveryMatchFits` and `MatchHistoryPermanent` under any interleaving, by an invariant over the
matches a request is still holding (`Fitting`): each fits its sides, or it awaits the journal
entry inserted with it. `FiguresStayFrozen` and `ReviewRefined` under `Serial`, by
`SerialInv`: the status and balance of the session held are still those loaded. `Moves` sums
up what a step of a request short of its commit does, so the refinement argument looks at
`Moves`, `PostJournal` and `Commit` instead of at every action. `NothingOverMatched` and
`StatusAlwaysExplained` by `CountInv`: the active matches of a transaction and of a receipt sum to no
more than its amount (`Within`), the status is the one these sums explain (`ShownAt`), and the request at
work has read the sums it is about to act on. The matches it holds are counted with those on record.

**AccessControl_proofs.** `RosterAlwaysSound`: with requests about members one after the other there is an
active administrator after every step, by `RosterInv`; the step that needs it is `UpdateMember`, where
the count made before is still the count. `SessionsAlwaysSound`, by `SessionInv`: a session's tokens have
at most one live among them, and while a refresh is at work the token it has loaded is not revoked and no
other token of its session is live, so that rotation replaces it and adds none. `RolesAlwaysSeparated`, whatever
overlaps, in two parts. The invariant `RolesInv`: what was committed last, and what every request past its check is
about, was admitted in the role it carries (`Admitted`), because nothing but `Authorize` lets a request in
(`OnlyAuthorizeAdmits`) and the role is the one read then, even if the membership has changed since. And the
tables: every route that the matrix admits a role to keeps the roles apart (`AdmittedApart`). That goes family by
family over the operations of the API: an operation guarded by one of a set of codes is closed to a role that has
none of them (`Lacks`, `Gated`, and their variants for reads and commits of one register), and the codes of each role
are looked up once.

**Compliance_proofs.** One inductive invariant, `Inv`, for the four safety properties. Under any
interleaving it says of the tables that a finished task is dated and one under review has a reviewer, and
of each request what it holds of a row that was there (`LoadedIn`). That alone gives `TypeCorrect`,
`RowsAlwaysSound` and `ClosedObligationsStay`. `NoticesNotRepeated` and `WorkflowFollowed` need its
serial part (at most one busy worker, the scheduler's loop included, and `FreshIn`): the notices found
missing are still missing, the row loaded is still that row. `WorkflowFollowed` is the refinement
`TasksFollowWorkflow`: each step, the sweep that writes many rows at once included, takes each task along an
edge of the workflow of `StatusWorkflow` or leaves it alone.

**Casework_proofs.** `AuditAlwaysSound`, `TaxAlwaysSound`, `ImportsAlwaysSound`, `DecisionsAlwaysStand` and
`ScheduleAlwaysFair`. Each desk has an invariant of its own (`AuditInv`, `TaxInv`, `ImportInv`), and `DeskInv` is about the workers. `Turn`
says what any step of a request is, to the other workers and to the other desks: whoever moves is alone in a
serial scene, and no other request changes. So each action is looked at by its own desk only (`AuditOther`,
`TaxOther`, `ImportOther` are the steps of the others), and an action that writes has to show three things: the
tables after it, that no row a request holds is gone, and, served one at a time, that the tables still agree.
What is not obvious in each:

- *Audit.* That a finding waiting for a review has a SUBMITTED response is not inductive: a review that
  loaded the finding before the response came would take the response and leave the finding. It cannot
  happen, because whoever reviews a response loaded its finding no earlier than that response existed.
  `Answered` says so: of one response at least, all requests that are going to review it have seen the finding
  waiting (`SawWaiting`).
- *Income tax.* Racing requests may mix columns of two calculations, and the snapshot is still the row,
  because it is read back after the UPDATE (`Recorded`, `ComputationStep`). In order, `TaxFresh` keeps what was
  loaded equal to the row, so a derived column is never written from the other columns of an earlier row, and
  an update of a loss stays within its amount. That it follows from them to `Slack` (`DeriveClose`) is arithmetic of
  rounding, for all payloads: a sum of rounded operands is off by half a unit each.
- *Imports.* A commit that started before another one finished writes the same statuses again:
  `AfterCommit` of what was read is what the rows are or will be (`ImportLoaded`, `Unmixed`), so journals that were
  made stay balanced although their rows are written twice. That they are, to a paisa a line and exactly in a file
  without fractions, is `BalancedAgree`, by the lemma `SumRounded` about a sum of rounded terms. `StagedByRow` is about the recursive function
  that stages a file: there is a function defined row by row (`StagedExists`, by a least length at which there would
  be none, as for sums), so each row is what its definition says. `StagedRows` has what the invariant needs of it, that
  VALID rows have different keys, and `StagedKeepsTheFirst` says without recursion what staging does to a
  file of any length and any kind.

`DecisionsAlwaysStand` reads the same invariants at each step that writes: with one request at a time, the
row it has loaded is the row it overwrites, and the transition tables have no edge out of what was decided. Two of
its parts need invariants of their own, of serial scenes. `PreparationInv`: a request about a preparation holds the
row that is there, and past `ReadIssues` of an approval there is a bank account. `CalculationInv`: what a calculation
has read so far is what the rows say *now*, SELECT by SELECT (`Read` tabulates it by computation and step), since
nothing is written in between; `CalculationsCurrent` is its last step. An UPDATE writes only changed columns, so
the loaded row must still be the row, and both must have the same columns (`FiguresNamed`).

`ScheduleAlwaysFair` is about all natural incomes and all rule sets of one shape (`Ascending`): slabs follow
each other, rebates never grow and end below the surcharge thresholds, thresholds and rates of surcharges rise, and the relief
above one threshold has run out at the next. These are the tables `seed.py` inserts; nothing else inserts any. Without
such a hypothesis the statement is false (with rates that fall, say). The argument: summed slab by slab, the tax of the
slabs never falls and grows by at most the income (`PrefixStep`, `PrefixBounded`, `SlabTaxGrows`; rates are at most
100 per cent), and the rebate leaves it growing (`AfterGrows`). Above a threshold what is due is the tax with the full
surcharge, or the cap where that is less, and never below the tax without surcharge (`DueIs`); at the next threshold the
relief has run out (`DueAtThreshold`). None of these falls as the income grows, within or across thresholds (`DueGrows`),
and the cap grows by exactly the income, which chained over the thresholds gives the second half (`DueCapped`).

`NotesCountedTwice` is an equation between what `BusinessIncomeCalculationService.calculate` computes and the same books
with every document counted once, for all amounts, treatments and adjustments: they differ by the credit notes, which are
deducted twice, and by the debit notes, which are added twice unless the purchase account is disallowed. With
`CalculationsCurrent` it gives `CountedOnceWithoutNotes`: in a year without notes and in order, `IncomeCountedOnce`
holds. So the finding of run `counted` is about notes and nothing else.

**Sums_proofs.** The library's sum over a finite set (`MapThenSumSet`) is a function defined by recursion
over subsets. The lemmas about it (`SumEmpty`, `SumType`, `SumInsert`, `SumRemove`, `SumSame`, `SumRounded`, `SumNat`,
`SumOneMore`, `SumOneLess`) are proved without an induction rule over formulas, which the provers could not
instantiate: each looks at a minimal subset on which the statement would fail (`MinimalSubset`, from the
well-foundedness of the subset ordering) and finds a smaller one.

**Only model-checked.** `EventuallyOverdue` is a liveness property under fairness, which is beyond the prover,
as `ENABLED` is. Every other property of a passing run is stated by a theorem. The refinements are proved step by
step, as above. The properties of section 4 are false of the code; for two of them (`PostedNeverEdited`,
`IncomeCountedOnce`) a theorem says under which hypothesis they hold, and for three more a theorem says what is left of them:
`JournalsMirrorInvoices` (`PostedInTrialBalance`), `SettledOnEvidenceHolds` (`ReconciledIsAllocated`) and `ImportsAlwaysSound`
(`JournalsBalance` of `Casework`). What breaks `PaidByPaidChallans`, `BookIsLedger` and `AllSwept` takes no overlap.

## 6. What is not modelled, and the plan

Not to be modelled: the audit log, reports, dashboards, search, master data, schemas and client (they decide
nothing that the models leave open); tax rates, parsing and file formats (pure functions of one input, with
unit tests of their own).

Inside the components that are modelled: line items of invoices, manual journals, the journals and opening balances of a
Tally import, creation of ledgers and
periods; the PATCH of a draft deduction; titles, dates, comments, evidence and attachments of tasks,
engagements and findings; rule versions of obligations and the arithmetic of due dates; notices
created without de-duplication; assessment years and rule tables of income tax; mapping and parsing of
import files and the import of Tally XML.

Next, in this order:

| | Module | What it would say |
|---|---|---|
| K | `GstReconciliation`: staged matching, credit review | no document matched twice; the stages agree with a declarative reference |
| J | `Documents`: file and row, archive, restore | no row without its file (`document_service.py:94` stores the file before the row is committed) |
| M | proofs | that the cap of marginal relief is monotonic in the rate of the surcharge, so that the last part of `SurchargesAscend` follows from the distance of the thresholds |

The modules are written for it: no recursive operators, one action per operation, and invariants in named
parts.
