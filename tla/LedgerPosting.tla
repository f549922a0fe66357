--------------------------- MODULE LedgerPosting ---------------------------
(***************************************************************************)
(* Invoices, the journals posted for them, and the accounting period that  *)
(* gates both.  One invoice kind stands for SalesInvoiceService, the other *)
(* for PurchaseInvoiceService; a voucher is a receipt, a payment or a      *)
(* credit/debit note.  A committed import writes invoices, receipts and    *)
(* payments of its own, POSTED and without a journal.                      *)
(*                                                                         *)
(* A worker is one HTTP request.  It has its own AsyncSession (READ        *)
(* COMMITTED, no row locks, no version columns), so every SELECT of a      *)
(* handler is a step of its own and all its writes become visible in one   *)
(* commit step.  A refused request (409/422) rolls back: the worker goes   *)
(* idle and nothing else changes.  A request that its first SELECT refuses *)
(* is no step at all.  Init chooses the crew of workers that are on: with  *)
(* a crew of one the requests are serialised, with more they interleave.   *)
(***************************************************************************)
EXTENDS Integers, FiniteSets, Sums

CONSTANTS
    Workers,     \* requests in flight at one time
    Invoices,    \* invoice numbers of one company and financial year
    Vouchers,    \* receipt, payment and note numbers
    Kind,        \* Kind[i] is "SALES" or "PURCHASE"
    Sheets,      \* line-item totals a payload can carry: [taxable, tax], in paise
    NoteSheets,  \* those of them a credit or debit note can carry
    ImportSheets,\* totals of an imported invoice: nothing checks their signs
    Amounts,     \* amounts a receipt or payment can carry, in paise
    Desk,        \* bound: a crew that has w works on the documents and types in Desk[w]
    Rupee,       \* paise in the unit grand totals are rounded to
    MaxSuffix    \* bound: highest "-n" suffix _generate_unique_journal_number tries

ASSUME PostingAssumption ==
    /\ Kind \in [Invoices -> {"SALES", "PURCHASE"}]
    /\ Sheets \subseteq [taxable : Nat, tax : Nat]
    /\ NoteSheets \subseteq Sheets
    /\ ImportSheets \subseteq [taxable : Int, tax : Int]
    /\ Amounts \subseteq Nat
    /\ Rupee \in Nat \ {0}
    /\ MaxSuffix \in Nat
    /\ Desk \in [Workers -> SUBSET (Invoices \cup Vouchers \cup {"SETTLEMENT", "REFUND", "CREDIT", "DEBIT"})]
    /\ Invoices \cap Vouchers = {}
    /\ Invoices # {} /\ Vouchers # {} /\ Sheets # {}
    /\ IsFiniteSet(Invoices) /\ IsFiniteSet(Vouchers)      \* tables of finitely many rows

VARIABLES
    invoices,    \* sales_invoices / purchase_invoices rows
    vouchers,    \* receipts, payments, credit_notes and debit_notes rows
    journals,    \* journal_entries rows, by (source, number suffix)
    period,      \* status of the accounting period covering every date used
    work         \* the requests in flight

vars == <<invoices, vouchers, journals, period, work>>

-----------------------------------------------------------------------------
(* Amounts                                                                  *)

\* ROUND_HALF_UP to a whole rupee of a non-negative amount.
WholeRupees(p) == Rupee * ((2 * p + Rupee) \div (2 * Rupee))

DocumentTotals(s) ==
    LET raw == s.taxable + s.tax
    IN  [taxable |-> s.taxable, tax |-> s.tax,
         grand |-> WholeRupees(raw), round_off |-> WholeRupees(raw) - raw]

\* An imported invoice is its columns as they are: no round-off to a rupee.
ImportedTotals(s) ==
    [taxable |-> s.taxable, tax |-> s.tax, grand |-> s.taxable + s.tax, round_off |-> 0]

Totals == [taxable : Int, tax : Int, grand : Int, round_off : Int]
ZeroTotals == [taxable |-> 0, tax |-> 0, grand |-> 0, round_off |-> 0]

\* What a journal does to the party's ledger (or control account), the sales or
\* purchase account, the tax, round-off and bank ledgers: debits positive,
\* credits negative.
Effects == [party : Int, nominal : Int, tax : Int, round_off : Int, bank : Int]
NoEffect == [party |-> 0, nominal |-> 0, tax |-> 0, round_off |-> 0, bank |-> 0]

\* The purchase journal is the mirror image of the sales journal.
Mirror(e) == [party |-> -e.party, nominal |-> -e.nominal, tax |-> -e.tax,
              round_off |-> -e.round_off, bank |-> -e.bank]
OnSide(k, e) == IF k = "SALES" THEN e ELSE Mirror(e)

InvoiceEffect(k, t) ==
    OnSide(k, [party |-> t.grand, nominal |-> -t.taxable, tax |-> -t.tax,
               round_off |-> -t.round_off, bank |-> 0])

SettlementEffect(k, a) ==
    OnSide(k, [party |-> -a, nominal |-> 0, tax |-> 0, round_off |-> 0, bank |-> a])

NoteTotal(s) == s.taxable + s.tax      \* a note is not rounded to a rupee

\* Mutant of NoteEffect: a debit note posted with the sides of a credit note.
UnmirroredNoteEffect(k, s) ==
    [party |-> -NoteTotal(s), nominal |-> s.taxable, tax |-> s.tax, round_off |-> 0, bank |-> 0]

NoteEffect(k, s) ==
    OnSide(k, [party |-> -NoteTotal(s), nominal |-> s.taxable, tax |-> s.tax,
               round_off |-> 0, bank |-> 0])

\* A receipt or a credit note takes the side of its invoice; a payment back to a
\* customer and a debit note debit the party whatever the invoice is.
Side(type, k) == IF type \in {"REFUND", "DEBIT"} THEN "PURCHASE" ELSE k

\* validate_journal_balance: total debit equals total credit.
Balanced(e) == e.party + e.nominal + e.tax + e.round_off + e.bank = 0

-----------------------------------------------------------------------------
(* Rows and requests                                                        *)

InvoiceStatus == {"NONE", "DRAFT", "POSTED", "CANCELLED"}   \* NONE: no row yet
JournalStatus == {"NONE", "POSTED", "CANCELLED"}
VoucherType   == {"NONE", "SETTLEMENT", "REFUND", "CREDIT", "DEBIT"}
PeriodStatus  == {"OPEN", "CLOSED", "LOCKED"}
Sources       == Invoices \cup Vouchers
Suffixes      == 0..MaxSuffix

\* imported: the row's source_reference names an import, not a request of a service.
InvoiceRow == [status : InvoiceStatus, totals : Totals, imported : BOOLEAN]
VoucherRow == [type : VoucherType, inv : Invoices, linked : BOOLEAN, amount : Nat,
               imported : BOOLEAN]
JournalRow == [status : JournalStatus, effect : Effects]

Ops == {"none", "create", "update", "post", "cancel", "settle", "note", "period"}
PCs == {"off", "idle", "period", "invoice", "sum", "existing", "number", "commit"}

\* A request: the row it works on, what its SELECTs returned so far, and its payload.
Request ==
    [op : Ops, pc : PCs,
     inv : Invoices, voucher : Vouchers,
     seen : InvoiceStatus, totals : Totals,     \* the invoice row as loaded
     found : SUBSET Suffixes,                   \* POSTED journals found for it
     suffix : Suffixes,                         \* journal number generated
     type : VoucherType, sheet : Sheets, amount : Nat, linked : BOOLEAN,
     to : PeriodStatus]

Idle == [op |-> "none", pc |-> "idle",
         inv |-> CHOOSE i \in Invoices : TRUE, voucher |-> CHOOSE v \in Vouchers : TRUE,
         seen |-> "NONE", totals |-> ZeroTotals, found |-> {}, suffix |-> 0,
         type |-> "NONE", sheet |-> CHOOSE s \in Sheets : TRUE, amount |-> 0,
         linked |-> FALSE, to |-> "OPEN"]
Off == [Idle EXCEPT !.pc = "off"]      \* a worker outside the crew, for good

\* The crew is a single worker: a request begins when the one before has ended.
Serial == \A v, w \in Workers : work[v].pc # "off" /\ work[w].pc # "off" => v = w

PostedSuffixes(src) == {n \in Suffixes : journals[<<src, n>>].status = "POSTED"}
FreeSuffixes(src)   == {n \in Suffixes : journals[<<src, n>>].status = "NONE"}

\* func.sum over the settlements that quote invoice i as their reference.
Settled(i) ==
    SumOver([v \in Vouchers |-> vouchers[v].amount],
        {v \in Vouchers : vouchers[v].type = "SETTLEMENT" /\ vouchers[v].linked
                          /\ vouchers[v].inv = i})

Reach(S) == {d \in S : \A w \in Workers : work[w].pc # "off" => d \in Desk[w]}

Begin(w, r) == work' = [work EXCEPT ![w] = r]
Continue(w, pc) == work' = [work EXCEPT ![w].pc = pc]
End(w) == work' = [work EXCEPT ![w] = Idle]
At(w, ops, pc) == work[w].op \in ops /\ work[w].pc = pc
IsIdle(w) == work[w].pc = "idle"

Rows == <<invoices, vouchers, journals, period>>
Refuse(w) == End(w) /\ UNCHANGED Rows     \* an exception: the session rolls back

Init ==
    /\ invoices = [i \in Invoices |-> [status |-> "NONE", totals |-> ZeroTotals,
                                       imported |-> FALSE]]
    /\ vouchers = [v \in Vouchers |-> [type |-> "NONE", inv |-> Idle.inv,
                                       linked |-> FALSE, amount |-> 0, imported |-> FALSE]]
    /\ journals = [j \in Sources \X Suffixes |-> [status |-> "NONE", effect |-> NoEffect]]
    /\ period = "OPEN"
    /\ \E crew \in (SUBSET Workers) \ {{}} :
          work = [w \in Workers |-> IF w \in crew THEN Idle ELSE Off]

-----------------------------------------------------------------------------
(* create and update of an invoice                                          *)

CreateLoad(w, i, s) ==      \* find_duplicate
    /\ IsIdle(w)
    /\ invoices[i].status = "NONE"
    /\ Begin(w, [Idle EXCEPT !.op = "create", !.pc = "commit", !.inv = i, !.sheet = s])
    /\ UNCHANGED Rows

CreateCommit(w) ==          \* the unique index on invoice_number decides
    /\ At(w, {"create"}, "commit")
    /\ LET i == work[w].inv IN
       IF invoices[i].status = "NONE"
       THEN /\ invoices' = [invoices EXCEPT ![i] =
                  [status |-> "DRAFT", totals |-> DocumentTotals(work[w].sheet),
                   imported |-> FALSE]]
            /\ End(w)
            /\ UNCHANGED <<vouchers, journals, period>>
       ELSE Refuse(w)

\* Mutant of UpdateLoad: the DRAFT check is missing.
UpdateLoadAnyStatus(w, i, s) ==
    /\ IsIdle(w)
    /\ invoices[i].status # "NONE"
    /\ Begin(w, [Idle EXCEPT !.op = "update", !.pc = "commit", !.inv = i, !.sheet = s,
                             !.seen = invoices[i].status, !.totals = invoices[i].totals])
    /\ UNCHANGED Rows

UpdateLoad(w, i, s) ==
    /\ IsIdle(w)
    /\ invoices[i].status = "DRAFT"
    /\ Begin(w, [Idle EXCEPT !.op = "update", !.pc = "commit", !.inv = i, !.sheet = s,
                             !.seen = invoices[i].status, !.totals = invoices[i].totals])
    /\ UNCHANGED Rows

\* The ORM writes only the columns whose new value differs from the loaded one.
Overlay(now, loaded, new) ==
    [taxable   |-> IF new.taxable = loaded.taxable THEN now.taxable ELSE new.taxable,
     tax       |-> IF new.tax = loaded.tax THEN now.tax ELSE new.tax,
     grand     |-> IF new.grand = loaded.grand THEN now.grand ELSE new.grand,
     round_off |-> IF new.round_off = loaded.round_off THEN now.round_off ELSE new.round_off]

UpdateCommit(w) ==          \* UPDATE ... WHERE id: the status is not looked at again
    /\ At(w, {"update"}, "commit")
    /\ invoices' = [invoices EXCEPT ![work[w].inv].totals =
                        Overlay(@, work[w].totals, DocumentTotals(work[w].sheet))]
    /\ End(w)
    /\ UNCHANGED <<vouchers, journals, period>>

-----------------------------------------------------------------------------
(* post and cancel of an invoice                                            *)

PostLoad(w, i) ==
    /\ IsIdle(w)
    /\ invoices[i].status = "DRAFT"
    /\ Begin(w, [Idle EXCEPT !.op = "post", !.pc = "period", !.inv = i,
                             !.seen = invoices[i].status, !.totals = invoices[i].totals])
    /\ UNCHANGED Rows

\* cancel of a DRAFT goes straight to the write.
CancelLoad(w, i) ==
    /\ IsIdle(w)
    /\ invoices[i].status \in {"DRAFT", "POSTED"}
    /\ Begin(w, [Idle EXCEPT !.op = "cancel", !.inv = i,
                             !.pc = IF invoices[i].status = "POSTED" THEN "period" ELSE "commit",
                             !.seen = invoices[i].status, !.totals = invoices[i].totals])
    /\ UNCHANGED Rows

\* Mutant of AssertPeriodOpen: only a LOCKED period is refused.
AssertPeriodUnlocked(w) ==
    /\ At(w, {"post", "cancel", "settle", "note"}, "period")
    /\ IF period # "LOCKED"
       THEN /\ Continue(w, IF work[w].op \in {"post", "cancel"} THEN "existing" ELSE "invoice")
            /\ UNCHANGED Rows
       ELSE Refuse(w)

AssertPeriodOpen(w) ==      \* the accounting period row, for every dated operation
    /\ At(w, {"post", "cancel", "settle", "note"}, "period")
    /\ IF period = "OPEN"
       THEN /\ Continue(w, IF work[w].op \in {"post", "cancel"} THEN "existing" ELSE "invoice")
            /\ UNCHANGED Rows
       ELSE Refuse(w)

\* Mutant of ExistingJournal: the journal is posted without validate_journal_balance.
ExistingJournalUnchecked(w) ==
    /\ At(w, {"post", "cancel"}, "existing")
    /\ LET found == PostedSuffixes(work[w].inv) IN
       IF Cardinality(found) > 1 \/ (work[w].op = "post" /\ found # {})
       THEN Refuse(w)
       ELSE /\ work' = [work EXCEPT ![w].found = found,
                                    ![w].pc = IF work[w].op = "post" THEN "number" ELSE "commit"]
            /\ UNCHANGED Rows

\* scalar_one_or_none over the POSTED journals of the invoice: post refuses one,
\* and both operations fail (MultipleResultsFound) on two.
ExistingJournal(w) ==
    /\ At(w, {"post", "cancel"}, "existing")
    /\ LET found == PostedSuffixes(work[w].inv) IN
       IF \/ Cardinality(found) > 1
          \/ work[w].op = "post" /\ (found # {} \/ ~Balanced(
                                        InvoiceEffect(Kind[work[w].inv], work[w].totals)))
       THEN Refuse(w)
       ELSE /\ work' = [work EXCEPT ![w].found = found,
                                    ![w].pc = IF work[w].op = "post" THEN "number" ELSE "commit"]
            /\ UNCHANGED Rows

\* Mutant of GenerateNumber: the suffix is one past the number of journals there are.
GenerateNumberByCount(w) ==
    /\ At(w, {"post"}, "number")
    /\ work' = [work EXCEPT ![w].pc = "commit",
                            ![w].suffix = 1 + Cardinality(Suffixes \ FreeSuffixes(work[w].inv))]
    /\ UNCHANGED Rows

GenerateNumber(w) ==        \* the first unused suffix, within the bound
    /\ At(w, {"post"}, "number")
    /\ \E n \in FreeSuffixes(work[w].inv) :
          /\ \A m \in FreeSuffixes(work[w].inv) : n <= m
          /\ work' = [work EXCEPT ![w].suffix = n, ![w].pc = "commit"]
    /\ UNCHANGED Rows

\* Mutant of PostCommit: journal_number is not unique, the journal is upserted.
PostUpsert(w) ==
    /\ At(w, {"post"}, "commit")
    /\ LET i == work[w].inv IN
       /\ journals' = [journals EXCEPT ![<<i, work[w].suffix>>] =
              [status |-> "POSTED", effect |-> InvoiceEffect(Kind[i], work[w].totals)]]
       /\ invoices' = [invoices EXCEPT ![i].status = "POSTED"]
    /\ End(w)
    /\ UNCHANGED <<vouchers, period>>

PostCommit(w) ==            \* the unique index on journal_number decides
    /\ At(w, {"post"}, "commit")
    /\ LET i == work[w].inv
           j == <<i, work[w].suffix>> IN
       IF journals[j].status = "NONE"
       THEN /\ journals' = [journals EXCEPT ![j] =
                  [status |-> "POSTED", effect |-> InvoiceEffect(Kind[i], work[w].totals)]]
            /\ invoices' = [invoices EXCEPT ![i].status = "POSTED"]
            /\ End(w)
            /\ UNCHANGED <<vouchers, period>>
       ELSE Refuse(w)

CancelCommit(w) ==
    /\ At(w, {"cancel"}, "commit")
    /\ LET i == work[w].inv IN
       /\ invoices' = [invoices EXCEPT ![i].status = "CANCELLED"]
       /\ journals' = [j \in Sources \X Suffixes |->
                          IF \E n \in work[w].found : j = <<i, n>>
                          THEN [journals[j] EXCEPT !.status = "CANCELLED"] ELSE journals[j]]
    /\ End(w)
    /\ UNCHANGED <<vouchers, period>>

-----------------------------------------------------------------------------
(* receipts, payments and notes: created and posted by one request          *)

\* Only a payment to a vendor and a receipt from a customer look for an invoice.
SettleBegin(w, v, i, type, a, linked) ==
    /\ IsIdle(w)
    /\ type = "REFUND" => Kind[i] = "SALES" /\ ~linked
    /\ Begin(w, [Idle EXCEPT !.op = "settle", !.pc = "period", !.inv = i, !.voucher = v,
                             !.type = type, !.amount = a, !.linked = linked])
    /\ UNCHANGED Rows

NoteBegin(w, v, i, type, s, linked) ==
    /\ IsIdle(w)
    /\ Begin(w, [Idle EXCEPT !.op = "note", !.pc = "period", !.inv = i, !.voucher = v,
                             !.type = type, !.sheet = s, !.linked = linked])
    /\ UNCHANGED Rows

\* A receipt that quotes no invoice, or a number no invoice has, is not limited.
SettleInvoice(w) ==
    /\ At(w, {"settle"}, "invoice")
    /\ LET i == work[w].inv
           limited == work[w].linked /\ invoices[i].status # "NONE" IN
       work' = [work EXCEPT ![w].totals = IF limited THEN invoices[i].totals ELSE @,
                            ![w].pc = IF limited THEN "sum" ELSE "commit"]
    /\ UNCHANGED Rows

\* Mutant of SettleSum: earlier receipts are not deducted.
SettleWhole(w) ==
    /\ At(w, {"settle"}, "sum")
    /\ IF work[w].amount > work[w].totals.grand
       THEN Refuse(w)
       ELSE Continue(w, "commit") /\ UNCHANGED Rows

SettleSum(w) ==
    /\ At(w, {"settle"}, "sum")
    /\ IF work[w].amount > work[w].totals.grand - Settled(work[w].inv)
       THEN Refuse(w)
       ELSE Continue(w, "commit") /\ UNCHANGED Rows

NoteInvoice(w) ==
    /\ At(w, {"note"}, "invoice")
    /\ LET row == invoices[work[w].inv] IN
       IF work[w].linked /\ (row.status = "NONE" \/ NoteTotal(work[w].sheet) > row.totals.grand)
       THEN Refuse(w)
       ELSE Continue(w, "commit") /\ UNCHANGED Rows

\* The voucher and its POSTED journal are inserted together, or the unique
\* index on the voucher number refuses both.
VoucherCommit(w) ==
    /\ At(w, {"settle", "note"}, "commit")
    /\ LET r == work[w]
           settles == r.op = "settle"
           side == Side(r.type, Kind[r.inv]) IN
       IF vouchers[r.voucher].type = "NONE"
       THEN /\ vouchers' = [vouchers EXCEPT ![r.voucher] =
                  [type |-> r.type, inv |-> r.inv, linked |-> r.linked,
                   amount |-> IF settles THEN r.amount ELSE NoteTotal(r.sheet),
                   imported |-> FALSE]]
            /\ journals' = [journals EXCEPT ![<<r.voucher, 0>>] =
                  [status |-> "POSTED",
                   effect |-> IF settles THEN SettlementEffect(side, r.amount)
                                         ELSE NoteEffect(side, r.sheet)]]
            /\ End(w)
            /\ UNCHANGED <<invoices, period>>
       ELSE Refuse(w)

-----------------------------------------------------------------------------
(* a committed import: one transaction whose inserts nobody sees before it ends.  A number  *)
(* that is taken fails it.  It looks at no accounting period and posts no journal.          *)

ImportInvoice(w, i, s) ==
    /\ IsIdle(w)
    /\ invoices[i].status = "NONE"
    /\ invoices' = [invoices EXCEPT ![i] =
          [status |-> "POSTED", totals |-> ImportedTotals(s), imported |-> TRUE]]
    /\ End(w)
    /\ UNCHANGED <<vouchers, journals, period>>

\* A receipt or a payment: no invoice's number on the one, no party on the other, so that
\* neither counts against an invoice's balance.
ImportVoucher(w, v, i, a) ==
    /\ IsIdle(w)
    /\ vouchers[v].type = "NONE"
    /\ vouchers' = [vouchers EXCEPT ![v] =
          [type |-> "SETTLEMENT", inv |-> i, linked |-> FALSE, amount |-> a, imported |-> TRUE]]
    /\ End(w)
    /\ UNCHANGED <<invoices, journals, period>>

-----------------------------------------------------------------------------
(* the accounting period: any status may be set, in any order               *)

PeriodLoad(w, to) ==
    /\ IsIdle(w)
    /\ period # to
    /\ Begin(w, [Idle EXCEPT !.op = "period", !.pc = "commit", !.to = to])
    /\ UNCHANGED Rows

PeriodCommit(w) ==
    /\ At(w, {"period"}, "commit")
    /\ period' = work[w].to
    /\ End(w)
    /\ UNCHANGED <<invoices, vouchers, journals>>

-----------------------------------------------------------------------------
InvoiceStep(w) ==
    \/ \E i \in Reach(Invoices), s \in Sheets : CreateLoad(w, i, s) \/ UpdateLoad(w, i, s)
    \/ CreateCommit(w) \/ UpdateCommit(w)
    \/ \E i \in Reach(Invoices) : PostLoad(w, i) \/ CancelLoad(w, i)
    \/ ExistingJournal(w) \/ GenerateNumber(w) \/ PostCommit(w) \/ CancelCommit(w)

VoucherStep(w) ==
    \/ \E v \in Reach(Vouchers), i \in Reach(Invoices), linked \in BOOLEAN :
          \/ \E type \in Reach({"SETTLEMENT", "REFUND"}), a \in Amounts :
                SettleBegin(w, v, i, type, a, linked)
          \/ \E type \in Reach({"CREDIT", "DEBIT"}), s \in NoteSheets :
                NoteBegin(w, v, i, type, s, linked)
    \/ SettleInvoice(w) \/ SettleSum(w) \/ NoteInvoice(w) \/ VoucherCommit(w)

PeriodStep(w) ==
    \/ AssertPeriodOpen(w)
    \/ \E to \in PeriodStatus : PeriodLoad(w, to)
    \/ PeriodCommit(w)

ImportStep(w) ==
    \E i \in Reach(Invoices) :
       \/ \E s \in ImportSheets : ImportInvoice(w, i, s)
       \/ \E v \in Reach(Vouchers), a \in Amounts : ImportVoucher(w, v, i, a)

Next == \E w \in Workers : InvoiceStep(w) \/ VoucherStep(w) \/ PeriodStep(w) \/ ImportStep(w)

Spec == Init /\ [][Next]_vars

-----------------------------------------------------------------------------
(* Properties                                                               *)

\* Every row and every request in flight has its declared shape.
TypeOK ==
    /\ invoices \in [Invoices -> InvoiceRow]
    /\ vouchers \in [Vouchers -> VoucherRow]
    /\ journals \in [Sources \X Suffixes -> JournalRow]
    /\ period \in PeriodStatus
    /\ work \in [Workers -> Request]

\* Debits equal credits in every journal ever written, even one posted from an
\* invoice row that racing updates left with columns of two payloads.
JournalsBalance == \A j \in Sources \X Suffixes : Balanced(journals[j].effect)

\* A journal is never edited, deleted or brought back: the only change a step may
\* make to one is POSTED to CANCELLED.
JournalsAppendOnly ==
    [][\A j \in Sources \X Suffixes :
          journals[j].status # "NONE" =>
             /\ journals'[j].effect = journals[j].effect
             /\ \/ journals'[j].status = journals[j].status
                \/ journals[j].status = "POSTED" /\ journals'[j].status = "CANCELLED"]_vars

\* An invoice that was entered is in the books exactly while it is POSTED: one POSTED
\* journal, carrying the totals the invoice row shows now.  An imported one never is,
\* POSTED though it be.  Needs serialised requests.
EnteredPosted(i) == invoices[i].status = "POSTED" /\ ~invoices[i].imported
InBooks(i) ==
    IF EnteredPosted(i)
    THEN \E n \in Suffixes :
            /\ PostedSuffixes(i) = {n}
            /\ journals[<<i, n>>].effect = InvoiceEffect(Kind[i], invoices[i].totals)
    ELSE PostedSuffixes(i) = {}
JournalMirrorsInvoice == Serial => \A i \in Invoices : InBooks(i)

\* The party control account is the open invoices that were entered less the vouchers
\* that were, over both sides: what an import brought in is missing from it, whether it is
\* cancelled or settled later.  Needs serialised requests.
Signed(k, n) == IF k = "SALES" THEN n ELSE -n
PartyBalance ==
    SumOver([j \in Sources \X Suffixes |-> journals[j].effect.party],
            {j \in Sources \X Suffixes : journals[j].status = "POSTED"})
OpenInvoices ==
    SumOver([i \in Invoices |-> Signed(Kind[i], invoices[i].totals.grand)],
            {i \in Invoices : EnteredPosted(i)})
AgainstThem ==
    SumOver([v \in Vouchers |-> Signed(Side(vouchers[v].type, Kind[vouchers[v].inv]),
                                       vouchers[v].amount)],
            {v \in Vouchers : vouchers[v].type # "NONE" /\ ~vouchers[v].imported})
ControlAccountAgrees == Serial => PartyBalance = OpenInvoices - AgainstThem

\* No step changes what is POSTED while the period is CLOSED or LOCKED: neither a
\* posting, a voucher nor the cancellation of a posted invoice.  (An import may add a
\* document then, but never to the journals.)  Needs serialised requests:
\* assert_period_open reads the period once and holds no lock on it.
ClosedPeriodFrozen ==
    [][Serial /\ period # "OPEN" =>
          \A j \in Sources \X Suffixes :
             (journals[j].status = "POSTED") <=> (journals'[j].status = "POSTED")]_vars

\* The step that records a settlement of an existing invoice leaves the sum of
\* its settlements within the grand total the invoice then has.  Needs serialised
\* requests: two receipts may both read the balance before either is recorded.
SettlementWithinBalance ==
    [][\A i \in Invoices :
          (Serial /\ invoices[i].status # "NONE" /\ Settled(i)' > Settled(i))
             => Settled(i)' <= invoices[i].totals.grand]_vars

\* What TransactionStatus says of POSTED: the totals of a POSTED invoice never change.
PostedNeverEdited ==
    [][\A i \in Invoices : invoices[i].status = "POSTED" =>
          invoices'[i].totals = invoices[i].totals]_vars

\* What the remediation report says of the trial balance: no invoice is POSTED without a
\* POSTED journal behind it, here while requests follow one another.
PostedInTrialBalance ==
    Serial => \A i \in Invoices : invoices[i].status = "POSTED" => PostedSuffixes(i) # {}

=============================================================================
