----------------------- MODULE LedgerPosting_proofs -----------------------
(* Proofs about LedgerPosting, for every set of workers, invoices, vouchers, *)
(* payloads and amounts.                                                     *)
EXTENDS LedgerPosting, Sums_proofs, TLAPS

LEMMA TotalsType == \A s \in Sheets : DocumentTotals(s) \in Totals
<1> TAKE s \in Sheets
<1>1. s.taxable \in Nat /\ s.tax \in Nat /\ Rupee \in Nat \ {0}
  BY PostingAssumption
<1>2. ASSUME NEW p \in Nat PROVE WholeRupees(p) \in Int
  <2>1. (2 * p + Rupee) \div (2 * Rupee) \in Int
    BY <1>1
  <2> QED
    BY <1>1, <2>1 DEF WholeRupees
<1>3. s.taxable + s.tax \in Nat
  BY <1>1
<1> QED
  BY <1>1, <1>2, <1>3 DEF DocumentTotals, Totals

LEMMA MirrorLemma ==
    ASSUME NEW k, NEW e \in Effects
    PROVE  /\ OnSide(k, e) \in Effects
           /\ Balanced(e) => Balanced(OnSide(k, e))
BY DEF OnSide, Mirror, Effects, Balanced

LEMMA EffectType ==
    ASSUME NEW k
    PROVE  /\ \A t \in Totals : InvoiceEffect(k, t) \in Effects
           /\ \A a \in Nat : SettlementEffect(k, a) \in Effects
           /\ \A s \in Sheets : NoteEffect(k, s) \in Effects
<1>1. \A s \in Sheets : s.taxable \in Nat /\ s.tax \in Nat /\ NoteTotal(s) \in Nat
  BY PostingAssumption DEF NoteTotal
<1>2. ASSUME NEW t \in Totals PROVE InvoiceEffect(k, t) \in Effects
  <2>1. [party |-> t.grand, nominal |-> -t.taxable, tax |-> -t.tax,
         round_off |-> -t.round_off, bank |-> 0] \in Effects
    BY DEF Totals, Effects
  <2> QED
    BY <2>1, MirrorLemma DEF InvoiceEffect
<1>3. ASSUME NEW a \in Nat PROVE SettlementEffect(k, a) \in Effects
  <2>1. [party |-> -a, nominal |-> 0, tax |-> 0, round_off |-> 0, bank |-> a] \in Effects
    BY DEF Effects
  <2> QED
    BY <2>1, MirrorLemma DEF SettlementEffect
<1>4. ASSUME NEW s \in Sheets PROVE NoteEffect(k, s) \in Effects
  <2>1. [party |-> -NoteTotal(s), nominal |-> s.taxable, tax |-> s.tax,
         round_off |-> 0, bank |-> 0] \in Effects
    BY <1>1 DEF Effects
  <2> QED
    BY <2>1, MirrorLemma DEF NoteEffect
<1> QED
  BY <1>2, <1>3, <1>4

\* Settlements and notes always balance.
LEMMA VoucherBalance ==
    ASSUME NEW k
    PROVE  /\ \A a \in Nat : Balanced(SettlementEffect(k, a))
           /\ \A s \in Sheets : Balanced(NoteEffect(k, s))
<1>1. \A s \in Sheets : s.taxable \in Nat /\ s.tax \in Nat
  BY PostingAssumption
<1>2. ASSUME NEW a \in Nat PROVE Balanced(SettlementEffect(k, a))
  BY DEF SettlementEffect, OnSide, Mirror, Balanced
<1>3. ASSUME NEW s \in Sheets PROVE Balanced(NoteEffect(k, s))
  BY <1>1 DEF NoteEffect, NoteTotal, OnSide, Mirror, Balanced
<1> QED
  BY <1>2, <1>3

\* An invoice row written by one payload always balances.
LEMMA PayloadBalance ==
    ASSUME NEW k, NEW s \in Sheets
    PROVE  Balanced(InvoiceEffect(k, DocumentTotals(s)))
<1>1. s.taxable \in Nat /\ s.tax \in Nat
  BY PostingAssumption
<1>2. WholeRupees(s.taxable + s.tax) \in Int
  BY TotalsType DEF DocumentTotals, Totals
<1> QED
  BY <1>1, <1>2 DEF DocumentTotals, InvoiceEffect, OnSide, Mirror, Balanced

LEMMA IdleType == Idle \in Request
<1>1. /\ (CHOOSE i \in Invoices : TRUE) \in Invoices
      /\ (CHOOSE v \in Vouchers : TRUE) \in Vouchers
      /\ (CHOOSE s \in Sheets : TRUE) \in Sheets
  BY PostingAssumption
<1>2. 0 \in Suffixes
  BY PostingAssumption DEF Suffixes
<1> QED
  BY <1>1, <1>2 DEF Idle, Request, Ops, PCs, InvoiceStatus, VoucherType, PeriodStatus, Totals, ZeroTotals

-----------------------------------------------------------------------------
(* Type correctness                                                         *)

LEMMA RefuseType ==
    ASSUME TypeOK, NEW w \in Workers, Refuse(w)
    PROVE  TypeOK'
BY IdleType DEF TypeOK, Refuse, End, Rows

LEMMA InvoiceStepType ==
    ASSUME TypeOK, NEW w \in Workers, InvoiceStep(w)
    PROVE  TypeOK'
<1> USE DEF TypeOK
<1>0. work[w] \in Request /\ Idle \in Request /\ Suffixes \subseteq Int
  BY IdleType, PostingAssumption DEF Suffixes
<1>1. ASSUME NEW i \in Invoices, NEW s \in Sheets, CreateLoad(w, i, s)
      PROVE  TypeOK'
  <2>1. [Idle EXCEPT !.op = "create", !.pc = "commit", !.inv = i, !.sheet = s] \in Request
    BY <1>0 DEF Request, Ops, PCs
  <2> QED
    BY <1>1, <2>1 DEF CreateLoad, Begin, Rows
<1>2. ASSUME NEW i \in Invoices, NEW s \in Sheets, UpdateLoad(w, i, s)
      PROVE  TypeOK'
  <2>1. invoices[i].status \in InvoiceStatus /\ invoices[i].totals \in Totals
    BY DEF InvoiceRow
  <2>2. [Idle EXCEPT !.op = "update", !.pc = "commit", !.inv = i, !.sheet = s,
                     !.seen = invoices[i].status, !.totals = invoices[i].totals] \in Request
    BY <1>0, <2>1 DEF Request, Ops, PCs
  <2> QED
    BY <1>2, <2>2 DEF UpdateLoad, Begin, Rows
<1>3. CASE CreateCommit(w)
  <2>1. CASE Refuse(w)
    BY <2>1, RefuseType
  <2>2. CASE ~Refuse(w)
    <3>1. DocumentTotals(work[w].sheet) \in Totals
      BY <1>0, TotalsType DEF Request
    <3>2. [status |-> "DRAFT", totals |-> DocumentTotals(work[w].sheet),
           imported |-> FALSE] \in InvoiceRow
      BY <3>1 DEF InvoiceRow, InvoiceStatus
    <3> QED
      BY <1>0, <1>3, <2>2, <3>2 DEF CreateCommit, End
  <2> QED
    BY <2>1, <2>2
<1>4. CASE UpdateCommit(w)
  <2>1. work[w].inv \in Invoices /\ work[w].totals \in Totals
        /\ DocumentTotals(work[w].sheet) \in Totals /\ invoices[work[w].inv] \in InvoiceRow
    BY <1>0, TotalsType DEF Request
  <2>2. invoices[work[w].inv].totals \in Totals
    BY <2>1 DEF InvoiceRow
  <2>3. Overlay(invoices[work[w].inv].totals, work[w].totals, DocumentTotals(work[w].sheet))
            \in Totals
    BY <2>1, <2>2 DEF Overlay, Totals
  <2> QED
    BY <1>0, <1>4, <2>1, <2>3 DEF UpdateCommit, End, InvoiceRow
<1>5. ASSUME NEW i \in Invoices, PostLoad(w, i)
      PROVE  TypeOK'
  <2>1. invoices[i].status \in InvoiceStatus /\ invoices[i].totals \in Totals
    BY DEF InvoiceRow
  <2>2. [Idle EXCEPT !.op = "post", !.pc = "period", !.inv = i,
                     !.seen = invoices[i].status, !.totals = invoices[i].totals] \in Request
    BY <1>0, <2>1 DEF Request, Ops, PCs
  <2> QED
    BY <1>5, <2>2 DEF PostLoad, Begin, Rows
<1>6. ASSUME NEW i \in Invoices, CancelLoad(w, i)
      PROVE  TypeOK'
  <2>1. invoices[i].status \in InvoiceStatus /\ invoices[i].totals \in Totals
    BY DEF InvoiceRow
  <2>2. [Idle EXCEPT !.op = "cancel", !.inv = i,
                     !.pc = IF invoices[i].status = "POSTED" THEN "period" ELSE "commit",
                     !.seen = invoices[i].status, !.totals = invoices[i].totals] \in Request
    BY <1>0, <2>1 DEF Request, Ops, PCs
  <2> QED
    BY <1>6, <2>2 DEF CancelLoad, Begin, Rows
<1>7. CASE ExistingJournal(w)
  <2>1. CASE Refuse(w)
    BY <2>1, RefuseType
  <2>2. CASE ~Refuse(w)
    <3>1. PICK pc \in PCs : work' = [work EXCEPT ![w].found = PostedSuffixes(work[w].inv),
                                                 ![w].pc = pc]
      BY <1>0, <1>7, <2>2 DEF ExistingJournal, Request, PCs
    <3>2. PostedSuffixes(work[w].inv) \subseteq Suffixes
      BY DEF PostedSuffixes
    <3>3. UNCHANGED Rows
      BY <1>7, <2>2 DEF ExistingJournal
    <3> QED
      BY <1>0, <3>1, <3>2, <3>3 DEF Rows, Request
  <2> QED
    BY <2>1, <2>2
<1>8. CASE GenerateNumber(w)
  <2>1. PICK n \in FreeSuffixes(work[w].inv) :
           work' = [work EXCEPT ![w].suffix = n, ![w].pc = "commit"]
    BY <1>8 DEF GenerateNumber
  <2>2. n \in Suffixes /\ "commit" \in PCs
    BY DEF FreeSuffixes, PCs
  <2>3. UNCHANGED Rows
    BY <1>8 DEF GenerateNumber
  <2> QED
    BY <1>0, <2>1, <2>2, <2>3 DEF Rows, Request
<1>9. CASE PostCommit(w)
  <2>1. CASE Refuse(w)
    BY <2>1, RefuseType
  <2>2. CASE ~Refuse(w)
    <3> DEFINE i == work[w].inv
               row == [status |-> "POSTED", effect |-> InvoiceEffect(Kind[i], work[w].totals)]
    <3>1. i \in Invoices /\ work[w].totals \in Totals /\ work[w].suffix \in Suffixes
      BY <1>0 DEF Request
    <3>2. row \in JournalRow
      BY <3>1, EffectType DEF JournalRow, JournalStatus
    <3>3. /\ journals' = [journals EXCEPT ![<<i, work[w].suffix>>] = row]
          /\ invoices' = [invoices EXCEPT ![i].status = "POSTED"]
          /\ work' = [work EXCEPT ![w] = Idle]
          /\ UNCHANGED <<vouchers, period>>
      BY <1>9, <2>2 DEF PostCommit, End
    <3> HIDE DEF row
    <3> QED
      BY <1>0, <3>1, <3>2, <3>3 DEF InvoiceRow, InvoiceStatus
  <2> QED
    BY <2>1, <2>2
<1>10. CASE CancelCommit(w)
  <2>1. work[w].inv \in Invoices
    BY <1>0 DEF Request
  <2>2. \A j \in Sources \X Suffixes :
           /\ journals[j] \in JournalRow
           /\ [journals[j] EXCEPT !.status = "CANCELLED"] \in JournalRow
    BY DEF JournalRow, JournalStatus
  <2>3. journals' \in [Sources \X Suffixes -> JournalRow]
    BY <1>10, <2>2 DEF CancelCommit
  <2> QED
    BY <1>0, <1>10, <2>1, <2>3 DEF CancelCommit, End, InvoiceRow, InvoiceStatus
<1> QED
  BY <1>1, <1>2, <1>3, <1>4, <1>5, <1>6, <1>7, <1>8, <1>9, <1>10 DEF InvoiceStep, Reach

LEMMA VoucherStepType ==
    ASSUME TypeOK, NEW w \in Workers, VoucherStep(w)
    PROVE  TypeOK'
<1> USE DEF TypeOK
<1>0. work[w] \in Request /\ Idle \in Request
  BY IdleType
<1>1. ASSUME NEW v \in Vouchers, NEW i \in Invoices, NEW linked \in BOOLEAN,
             NEW type \in {"SETTLEMENT", "REFUND"}, NEW a \in Amounts,
             SettleBegin(w, v, i, type, a, linked)
      PROVE  TypeOK'
  <2>1. a \in Nat
    BY PostingAssumption
  <2>2. [Idle EXCEPT !.op = "settle", !.pc = "period", !.inv = i, !.voucher = v,
                     !.type = type, !.amount = a, !.linked = linked] \in Request
    BY <1>0, <2>1 DEF Request, Ops, PCs, VoucherType
  <2> QED
    BY <1>1, <2>2 DEF SettleBegin, Begin, Rows
<1>2. ASSUME NEW v \in Vouchers, NEW i \in Invoices, NEW linked \in BOOLEAN,
             NEW type \in {"CREDIT", "DEBIT"}, NEW s \in NoteSheets,
             NoteBegin(w, v, i, type, s, linked)
      PROVE  TypeOK'
  <2>1. [Idle EXCEPT !.op = "note", !.pc = "period", !.inv = i, !.voucher = v,
                     !.type = type, !.sheet = s, !.linked = linked] \in Request
    BY <1>0, PostingAssumption, ZenonT(60) DEF Request, Ops, PCs, VoucherType
  <2> QED
    BY <1>2, <2>1 DEF NoteBegin, Begin, Rows
<1>3. CASE SettleInvoice(w)
  <2>1. work[w].inv \in Invoices /\ work[w].totals \in Totals
    BY <1>0 DEF Request
  <2>2. invoices[work[w].inv].totals \in Totals
    BY <2>1 DEF InvoiceRow
  <2>3. PICK t \in Totals, pc \in PCs : work' = [work EXCEPT ![w].totals = t, ![w].pc = pc]
    BY <1>0, <1>3, <2>1, <2>2 DEF SettleInvoice, PCs
  <2>4. UNCHANGED Rows
    BY <1>3 DEF SettleInvoice
  <2> QED
    BY <1>0, <2>3, <2>4 DEF Rows, Request
<1>4. CASE SettleSum(w)
  <2>1. CASE Refuse(w)
    BY <2>1, RefuseType
  <2>2. CASE ~Refuse(w)
    <3>1. work' = [work EXCEPT ![w].pc = "commit"] /\ UNCHANGED Rows
      BY <1>4, <2>2, Zenon DEF SettleSum, Continue
    <3>2. PICK r \in Request : r = work[w]
      BY <1>0
    <3>3. [r EXCEPT !.pc = "commit"] \in Request
      BY DEF Request, PCs
    <3>4. work' = [work EXCEPT ![w] = [r EXCEPT !.pc = "commit"]]
      BY <3>1, <3>2, Zenon
    <3>5. work' \in [Workers -> Request]
      BY <3>3, <3>4 DEF TypeOK
    <3> QED
      BY <3>1, <3>5 DEF Rows, TypeOK
  <2> QED
    BY <2>1, <2>2
<1>5. CASE NoteInvoice(w)
  <2>1. CASE Refuse(w)
    BY <2>1, RefuseType
  <2>2. CASE ~Refuse(w)
    <3>1. Continue(w, "commit") /\ UNCHANGED Rows
      BY <1>5, <2>2 DEF NoteInvoice
    <3> QED
      BY <1>0, <3>1 DEF Continue, Rows, Request, PCs
  <2> QED
    BY <2>1, <2>2
<1>6. CASE VoucherCommit(w)
  <2>1. CASE Refuse(w)
    BY <2>1, RefuseType
  <2>2. CASE ~Refuse(w)
    <3> DEFINE r == work[w]
               settles == r.op = "settle"
               amount == IF settles THEN r.amount ELSE NoteTotal(r.sheet)
               side == Side(r.type, Kind[r.inv])
               effect == IF settles THEN SettlementEffect(side, r.amount)
                                    ELSE NoteEffect(side, r.sheet)
    <3>1. /\ r.inv \in Invoices /\ r.voucher \in Vouchers /\ r.linked \in BOOLEAN
          /\ r.amount \in Nat /\ r.sheet \in Sheets /\ r.type \in VoucherType
      BY <1>0 DEF Request
    <3>2. amount \in Nat
      BY <3>1, PostingAssumption DEF NoteTotal
    <3>3. effect \in Effects
      BY <3>1, EffectType
    <3>4. [type |-> r.type, inv |-> r.inv,
           linked |-> r.linked, amount |-> amount, imported |-> FALSE] \in VoucherRow
      BY <3>1, <3>2 DEF VoucherRow, VoucherType
    <3>5. [status |-> "POSTED", effect |-> effect] \in JournalRow
      BY <3>3 DEF JournalRow, JournalStatus
    <3>6. /\ vouchers' = [vouchers EXCEPT ![r.voucher] =
                [type |-> r.type, inv |-> r.inv,
                 linked |-> r.linked, amount |-> amount, imported |-> FALSE]]
          /\ journals' = [journals EXCEPT ![<<r.voucher, 0>>] =
                [status |-> "POSTED", effect |-> effect]]
          /\ work' = [work EXCEPT ![w] = Idle]
          /\ UNCHANGED <<invoices, period>>
      BY <1>6, <2>2 DEF VoucherCommit, End
    <3> HIDE DEF amount, effect, settles
    <3> QED
      BY <1>0, <3>1, <3>4, <3>5, <3>6
  <2> QED
    BY <2>1, <2>2
<1> QED
  BY <1>1, <1>2, <1>3, <1>4, <1>5, <1>6 DEF VoucherStep, Reach

LEMMA PeriodStepType ==
    ASSUME TypeOK, NEW w \in Workers, PeriodStep(w)
    PROVE  TypeOK'
<1> USE DEF TypeOK
<1>0. work[w] \in Request /\ Idle \in Request
  BY IdleType
<1>1. CASE AssertPeriodOpen(w)
  <2>1. CASE Refuse(w)
    BY <2>1, RefuseType
  <2>2. CASE ~Refuse(w)
    BY <1>0, <1>1, <2>2 DEF AssertPeriodOpen, Continue, Rows, Request, PCs
  <2> QED
    BY <2>1, <2>2
<1>2. ASSUME NEW to \in PeriodStatus, PeriodLoad(w, to)
      PROVE  TypeOK'
  <2>1. [Idle EXCEPT !.op = "period", !.pc = "commit", !.to = to] \in Request
    BY <1>0 DEF Request, Ops, PCs
  <2> QED
    BY <1>2, <2>1 DEF PeriodLoad, Begin, Rows
<1>3. CASE PeriodCommit(w)
  BY <1>0, <1>3 DEF PeriodCommit, End, Request
<1> QED
  BY <1>1, <1>2, <1>3 DEF PeriodStep

LEMMA ImportStepType ==
    ASSUME TypeOK, NEW w \in Workers, ImportStep(w)
    PROVE  TypeOK'
<1> USE IdleType DEF TypeOK, End
<1>1. ASSUME NEW i \in Invoices, NEW s \in ImportSheets, ImportInvoice(w, i, s)
      PROVE  TypeOK'
  <2>1. s.taxable \in Int /\ s.tax \in Int
    BY PostingAssumption
  <2>2. [status |-> "POSTED", totals |-> ImportedTotals(s), imported |-> TRUE] \in InvoiceRow
    BY <2>1 DEF InvoiceRow, InvoiceStatus, ImportedTotals, Totals
  <2> QED
    BY <1>1, <2>2 DEF ImportInvoice
<1>2. ASSUME NEW i \in Invoices, NEW v \in Vouchers, NEW a \in Amounts, ImportVoucher(w, v, i, a)
      PROVE  TypeOK'
  <2>1. a \in Nat
    BY PostingAssumption
  <2>2. [type |-> "SETTLEMENT", inv |-> i, linked |-> FALSE, amount |-> a,
         imported |-> TRUE] \in VoucherRow
    BY <2>1 DEF VoucherRow, VoucherType
  <2> QED
    BY <1>2, <2>2 DEF ImportVoucher
<1> QED
  BY <1>1, <1>2 DEF ImportStep, Reach

LEMMA InitType == Init => TypeOK
<1> SUFFICES ASSUME Init PROVE TypeOK
  OBVIOUS
<1>1. Idle \in Request /\ Idle.inv \in Invoices
  BY IdleType DEF Request
<1>2. ZeroTotals \in Totals /\ NoEffect \in Effects
  BY DEF ZeroTotals, Totals, NoEffect, Effects
<1>3. [status |-> "NONE", totals |-> ZeroTotals, imported |-> FALSE] \in InvoiceRow
  BY <1>2 DEF InvoiceRow, InvoiceStatus
<1>4. [type |-> "NONE", inv |-> Idle.inv, linked |-> FALSE, amount |-> 0,
       imported |-> FALSE] \in VoucherRow
  BY <1>1 DEF VoucherRow, VoucherType
<1>5. [status |-> "NONE", effect |-> NoEffect] \in JournalRow
  BY <1>2 DEF JournalRow, JournalStatus
<1>6. Off \in Request
  BY <1>1 DEF Off, Request, PCs
<1> QED
  BY <1>1, <1>3, <1>4, <1>5, <1>6 DEF Init, TypeOK, PeriodStatus

\* Every reachable state is well typed, whatever the constants.
THEOREM TypeCorrect == Spec => []TypeOK
<1>1. Init => TypeOK
  BY InitType
<1>2. TypeOK /\ [Next]_vars => TypeOK'
  <2> SUFFICES ASSUME TypeOK, [Next]_vars PROVE TypeOK'
    OBVIOUS
  <2>1. CASE UNCHANGED vars
    BY <2>1 DEF vars, TypeOK
  <2>2. CASE Next
    BY <2>2, InvoiceStepType, VoucherStepType, PeriodStepType, ImportStepType DEF Next
  <2> QED
    BY <2>1, <2>2
<1> QED
  BY <1>1, <1>2, PTL DEF Spec

-----------------------------------------------------------------------------
(* The journal under any interleaving                                       *)

\* A posting past its balance check holds totals that balance, the journals a
\* request has found exist, and a voucher has a type.
RequestOK(r) ==
    /\ r.op = "post" /\ r.pc \in {"number", "commit"} =>
          Balanced(InvoiceEffect(Kind[r.inv], r.totals))
    /\ \A n \in r.found : journals[<<r.inv, n>>].status # "NONE"
    /\ r.op \in {"settle", "note"} => r.type # "NONE"

\* A voucher number not yet used has no journal.
UnusedVouchers ==
    \A v \in Vouchers, n \in Suffixes :
        vouchers[v].type = "NONE" => journals[<<v, n>>].status = "NONE"

LedgerInv ==
    /\ TypeOK
    /\ JournalsBalance
    /\ UnusedVouchers
    /\ \A w \in Workers : RequestOK(work[w])

LEMMA IdleOK == RequestOK(Idle)
BY DEF RequestOK, Idle

\* A step that writes no journal and no voucher has only its own request to answer for.
LEMMA LocalStep ==
    ASSUME LedgerInv, TypeOK', NEW w \in Workers, NEW r, RequestOK(r),
           work' = [work EXCEPT ![w] = r], UNCHANGED <<journals, vouchers>>
    PROVE  LedgerInv'
<1>1. \A x \in Workers : RequestOK(work'[x])
  BY DEF LedgerInv, TypeOK
<1>2. \A x : RequestOK(x)' <=> RequestOK(x')
  BY DEF RequestOK
<1> QED
  BY <1>1, <1>2 DEF LedgerInv, JournalsBalance, UnusedVouchers, RequestOK

LEMMA RefuseInv ==
    ASSUME LedgerInv, NEW w \in Workers, Refuse(w)
    PROVE  LedgerInv'
<1>1. TypeOK'
  BY RefuseType DEF LedgerInv
<1> QED
  BY <1>1, IdleOK, LocalStep DEF Refuse, End, Rows

\* A SELECT that only moves the request on.
LEMMA ContinueInv ==
    ASSUME LedgerInv, TypeOK', NEW w \in Workers, NEW pc, Continue(w, pc), UNCHANGED Rows,
           work[w].op # "post" \/ pc \notin {"number", "commit"}
    PROVE  LedgerInv'
<1> DEFINE r == [work[w] EXCEPT !.pc = pc]
<1>0. TypeOK /\ work[w] \in Request /\ RequestOK(work[w])
  BY DEF LedgerInv, TypeOK
<1>1. work' = [work EXCEPT ![w] = r] /\ UNCHANGED <<journals, vouchers>>
  BY <1>0 DEF Continue, Rows, TypeOK
<1>2. r.found = work[w].found /\ r.inv = work[w].inv /\ r.op = work[w].op /\ r.type = work[w].type /\ r.pc = pc
  BY <1>0 DEF Request
<1> HIDE DEF r
<1>3. RequestOK(r)
  BY <1>0, <1>2 DEF RequestOK
<1> QED
  BY <1>1, <1>3, LocalStep

\* The commit of one request leaves the others right when no journal disappears.
LEMMA OtherRequests ==
    ASSUME LedgerInv, NEW w \in Workers, work' = [work EXCEPT ![w] = Idle],
           \A j \in Sources \X Suffixes :
               journals[j].status # "NONE" => journals'[j].status # "NONE"
    PROVE  \A x \in Workers : RequestOK(work[x])'
<1> SUFFICES ASSUME NEW x \in Workers PROVE RequestOK(work[x])'
  OBVIOUS
<1>0. TypeOK
  BY DEF LedgerInv
<1>1. CASE x = w
  BY <1>0, <1>1 DEF RequestOK, Idle, TypeOK
<1>2. CASE x # w
  <2>1. work'[x] = work[x] /\ work[x] \in Request /\ RequestOK(work[x])
    BY <1>0, <1>2 DEF LedgerInv, TypeOK
  <2>2. \A n \in work[x].found : <<work[x].inv, n>> \in Sources \X Suffixes
    BY <2>1 DEF Request, Sources
  <2> QED
    BY <2>1, <2>2 DEF RequestOK
<1> QED
  BY <1>1, <1>2

LEMMA InvoiceStepInv ==
    ASSUME LedgerInv, NEW w \in Workers, InvoiceStep(w)
    PROVE  LedgerInv'
<1>0. TypeOK /\ TypeOK' /\ work[w] \in Request
  BY InvoiceStepType DEF LedgerInv, TypeOK
<1>ok. RequestOK(work[w])
  BY DEF LedgerInv
<1>idle. Idle.found = {} /\ Idle.op = "none" /\ Idle \in Request
  BY IdleType DEF Idle
<1>1. ASSUME NEW i \in Invoices, NEW s \in Sheets, CreateLoad(w, i, s)
      PROVE  LedgerInv'
  <2> DEFINE r == [Idle EXCEPT !.op = "create", !.pc = "commit", !.inv = i, !.sheet = s]
  <2>1. RequestOK(r)
    BY <1>idle DEF RequestOK, Request
  <2>2. work' = [work EXCEPT ![w] = r] /\ UNCHANGED <<journals, vouchers>>
    BY <1>1 DEF CreateLoad, Begin, Rows
  <2> HIDE DEF r
  <2> QED
    BY <1>0, <2>1, <2>2, LocalStep
<1>2. ASSUME NEW i \in Invoices, NEW s \in Sheets, UpdateLoad(w, i, s)
      PROVE  LedgerInv'
  <2> DEFINE r == [Idle EXCEPT !.op = "update", !.pc = "commit", !.inv = i, !.sheet = s,
                     !.seen = invoices[i].status, !.totals = invoices[i].totals]
  <2>1. RequestOK(r)
    BY <1>idle DEF RequestOK, Request
  <2>2. work' = [work EXCEPT ![w] = r] /\ UNCHANGED <<journals, vouchers>>
    BY <1>2 DEF UpdateLoad, Begin, Rows
  <2> HIDE DEF r
  <2> QED
    BY <1>0, <2>1, <2>2, LocalStep
<1>3. CASE CreateCommit(w)
  <2>1. CASE Refuse(w)
    BY <2>1, RefuseInv
  <2>2. CASE ~Refuse(w)
    <3>1. work' = [work EXCEPT ![w] = Idle] /\ UNCHANGED <<journals, vouchers>>
      BY <1>3, <2>2 DEF CreateCommit, End
    <3> QED
      BY <1>0, <3>1, IdleOK, LocalStep
  <2> QED
    BY <2>1, <2>2
<1>4. CASE UpdateCommit(w)
  <2>1. work' = [work EXCEPT ![w] = Idle] /\ UNCHANGED <<journals, vouchers>>
    BY <1>4 DEF UpdateCommit, End
  <2> QED
    BY <1>0, <2>1, IdleOK, LocalStep
<1>5. ASSUME NEW i \in Invoices, PostLoad(w, i)
      PROVE  LedgerInv'
  <2> DEFINE r == [Idle EXCEPT !.op = "post", !.pc = "period", !.inv = i,
                     !.seen = invoices[i].status, !.totals = invoices[i].totals]
  <2>1. RequestOK(r)
    BY <1>idle DEF RequestOK, Request
  <2>2. work' = [work EXCEPT ![w] = r] /\ UNCHANGED <<journals, vouchers>>
    BY <1>5 DEF PostLoad, Begin, Rows
  <2> HIDE DEF r
  <2> QED
    BY <1>0, <2>1, <2>2, LocalStep
<1>6. ASSUME NEW i \in Invoices, CancelLoad(w, i)
      PROVE  LedgerInv'
  <2> DEFINE r == [Idle EXCEPT !.op = "cancel", !.inv = i,
                     !.pc = IF invoices[i].status = "POSTED" THEN "period" ELSE "commit",
                     !.seen = invoices[i].status, !.totals = invoices[i].totals]
  <2>1. RequestOK(r)
    BY <1>idle DEF RequestOK, Request
  <2>2. work' = [work EXCEPT ![w] = r] /\ UNCHANGED <<journals, vouchers>>
    BY <1>6 DEF CancelLoad, Begin, Rows
  <2> HIDE DEF r
  <2> QED
    BY <1>0, <2>1, <2>2, LocalStep
<1>7. CASE ExistingJournal(w)
  <2>1. CASE Refuse(w)
    BY <2>1, RefuseInv
  <2>2. CASE ~Refuse(w)
    <3> DEFINE found == PostedSuffixes(work[w].inv)
               r == [work[w] EXCEPT !.found = found,
                                    !.pc = IF work[w].op = "post" THEN "number" ELSE "commit"]
    <3>1. /\ work[w].op = "post" => Balanced(InvoiceEffect(Kind[work[w].inv], work[w].totals))
          /\ work' = [work EXCEPT ![w] = r]
          /\ UNCHANGED Rows
      BY <1>0, <1>7, <2>2 DEF ExistingJournal, At, Request, TypeOK
    <3>2. r.found = found /\ r.inv = work[w].inv /\ r.op = work[w].op /\ r.type = work[w].type /\ r.totals = work[w].totals
      BY <1>0 DEF Request
    <3>3. \A n \in found : journals[<<work[w].inv, n>>].status # "NONE"
      BY DEF PostedSuffixes
    <3> HIDE DEF r, found
    <3>4. RequestOK(r)
      BY <1>ok, <3>1, <3>2, <3>3 DEF RequestOK
    <3> QED
      BY <1>0, <3>1, <3>4, LocalStep DEF Rows
  <2> QED
    BY <2>1, <2>2
<1>8. CASE GenerateNumber(w)
  <2>1. PICK n \in FreeSuffixes(work[w].inv) :
           work' = [work EXCEPT ![w].suffix = n, ![w].pc = "commit"]
    BY <1>8 DEF GenerateNumber
  <2> DEFINE r == [work[w] EXCEPT !.suffix = n, !.pc = "commit"]
  <2>2. work' = [work EXCEPT ![w] = r]
    BY <1>0, <2>1 DEF TypeOK
  <2>3. /\ r.found = work[w].found /\ r.inv = work[w].inv /\ r.op = work[w].op /\ r.type = work[w].type
        /\ r.totals = work[w].totals
    BY <1>0 DEF Request
  <2>4. work[w].pc = "number"
    BY <1>8 DEF GenerateNumber, At
  <2> HIDE DEF r
  <2>5. RequestOK(r)
    BY <1>ok, <2>3, <2>4 DEF RequestOK
  <2> QED
    BY <1>0, <1>8, <2>2, <2>5, LocalStep DEF GenerateNumber, Rows
<1>9. CASE PostCommit(w)
  <2>1. CASE Refuse(w)
    BY <2>1, RefuseInv
  <2>2. CASE ~Refuse(w)
    <3> DEFINE i == work[w].inv
               k == <<i, work[w].suffix>>
               e == InvoiceEffect(Kind[i], work[w].totals)
    <3>1. /\ journals' = [journals EXCEPT ![k] = [status |-> "POSTED", effect |-> e]]
          /\ work' = [work EXCEPT ![w] = Idle]
          /\ UNCHANGED <<vouchers, period>>
      BY <1>9, <2>2 DEF PostCommit, End
    <3>2. k \in Sources \X Suffixes /\ i \notin Vouchers
      BY <1>0, PostingAssumption DEF Request, Sources
    <3>3. Balanced(e)
      BY <1>ok, <1>9 DEF RequestOK, PostCommit, At
    <3> HIDE DEF e
    <3>4. JournalsBalance'
      BY <1>0, <3>1, <3>2, <3>3 DEF LedgerInv, JournalsBalance, TypeOK
    <3>5. UnusedVouchers'
      BY <1>0, <3>1, <3>2 DEF LedgerInv, UnusedVouchers, TypeOK, Sources
    <3>6. \A j \in Sources \X Suffixes :
             journals[j].status # "NONE" => journals'[j].status # "NONE"
      BY <1>0, <3>1, <3>2 DEF TypeOK
    <3>7. \A x \in Workers : RequestOK(work[x])'
      BY <3>1, <3>6, OtherRequests
    <3> QED
      BY <1>0, <3>4, <3>5, <3>7 DEF LedgerInv
  <2> QED
    BY <2>1, <2>2
<1>10. CASE CancelCommit(w)
  <2> DEFINE i == work[w].inv
  <2>1. /\ journals' = [j \in Sources \X Suffixes |->
              IF \E n \in work[w].found : j = <<i, n>>
              THEN [journals[j] EXCEPT !.status = "CANCELLED"] ELSE journals[j]]
        /\ work' = [work EXCEPT ![w] = Idle]
        /\ UNCHANGED <<vouchers, period>>
    BY <1>10 DEF CancelCommit, End
  <2>2. i \in Invoices /\ i \notin Vouchers
    BY <1>0, PostingAssumption DEF Request
  <2>3. \A j \in Sources \X Suffixes : journals'[j].effect = journals[j].effect
    BY <1>0, <2>1 DEF TypeOK, JournalRow
  <2>4. JournalsBalance'
    BY <2>3 DEF LedgerInv, JournalsBalance, Balanced
  <2>5. \A j \in Sources \X Suffixes :
           journals[j].status # "NONE" => journals'[j].status # "NONE"
    BY <1>0, <2>1 DEF TypeOK, JournalRow
  <2>6. ASSUME NEW v \in Vouchers, NEW n \in Suffixes
        PROVE  journals'[<<v, n>>] = journals[<<v, n>>]
    <3>1. <<v, n>> \in Sources \X Suffixes /\ v # i
      BY <2>2 DEF Sources
    <3> HIDE DEF i
    <3>2. \A m : <<v, n>> # <<i, m>>
      BY <3>1
    <3> QED
      BY <2>1, <3>1, <3>2
  <2>7. UnusedVouchers'
    <3>1. \A v \in Vouchers, n \in Suffixes : journals'[<<v, n>>] = journals[<<v, n>>]
      BY <2>6
    <3>2. vouchers' = vouchers
      BY <2>1
    <3>3. UnusedVouchers
      BY DEF LedgerInv
    <3> QED
      BY <3>1, <3>2, <3>3 DEF UnusedVouchers
  <2>8. \A x \in Workers : RequestOK(work[x])'
    BY <2>1, <2>5, OtherRequests
  <2> QED
    BY <1>0, <2>4, <2>7, <2>8 DEF LedgerInv
<1> QED
  BY <1>1, <1>2, <1>3, <1>4, <1>5, <1>6, <1>7, <1>8, <1>9, <1>10 DEF InvoiceStep, Reach

LEMMA VoucherStepInv ==
    ASSUME LedgerInv, NEW w \in Workers, VoucherStep(w)
    PROVE  LedgerInv'
<1>0. TypeOK /\ TypeOK' /\ work[w] \in Request
  BY VoucherStepType DEF LedgerInv, TypeOK
<1>ok. RequestOK(work[w])
  BY DEF LedgerInv
<1>idle. Idle.found = {} /\ Idle.op = "none" /\ Idle \in Request
  BY IdleType DEF Idle
<1>1. ASSUME NEW v \in Vouchers, NEW i \in Invoices, NEW linked \in BOOLEAN,
             NEW type \in {"SETTLEMENT", "REFUND"}, NEW a \in Amounts,
             SettleBegin(w, v, i, type, a, linked)
      PROVE  LedgerInv'
  <2> DEFINE r == [Idle EXCEPT !.op = "settle", !.pc = "period", !.inv = i, !.voucher = v,
                               !.type = type, !.amount = a, !.linked = linked]
  <2>1. RequestOK(r)
    BY <1>idle DEF RequestOK, Request
  <2>2. work' = [work EXCEPT ![w] = r] /\ UNCHANGED <<journals, vouchers>>
    BY <1>1 DEF SettleBegin, Begin, Rows
  <2> HIDE DEF r
  <2> QED
    BY <1>0, <2>1, <2>2, LocalStep
<1>2. ASSUME NEW v \in Vouchers, NEW i \in Invoices, NEW linked \in BOOLEAN,
             NEW type \in {"CREDIT", "DEBIT"}, NEW s \in NoteSheets,
             NoteBegin(w, v, i, type, s, linked)
      PROVE  LedgerInv'
  <2> DEFINE r == [Idle EXCEPT !.op = "note", !.pc = "period", !.inv = i, !.voucher = v,
                               !.type = type, !.sheet = s, !.linked = linked]
  <2>1. RequestOK(r)
    BY <1>idle DEF RequestOK, Request
  <2>2. work' = [work EXCEPT ![w] = r] /\ UNCHANGED <<journals, vouchers>>
    BY <1>2 DEF NoteBegin, Begin, Rows
  <2> HIDE DEF r
  <2> QED
    BY <1>0, <2>1, <2>2, LocalStep
<1>3. CASE SettleInvoice(w)
  <2>1. PICK t, pc : work' = [work EXCEPT ![w].totals = t, ![w].pc = pc]
    BY <1>3 DEF SettleInvoice
  <2> DEFINE r == [work[w] EXCEPT !.totals = t, !.pc = pc]
  <2>2. work' = [work EXCEPT ![w] = r] /\ UNCHANGED <<journals, vouchers>>
    BY <1>0, <1>3, <2>1 DEF SettleInvoice, Rows, TypeOK
  <2>3. /\ r.found = work[w].found /\ r.inv = work[w].inv /\ r.op = work[w].op /\ r.type = work[w].type
        /\ work[w].op = "settle"
    BY <1>0, <1>3 DEF Request, SettleInvoice, At
  <2> HIDE DEF r
  <2>4. RequestOK(r)
    BY <1>ok, <2>3 DEF RequestOK
  <2> QED
    BY <1>0, <2>2, <2>4, LocalStep
<1>4. CASE SettleSum(w)
  <2>1. CASE Refuse(w)
    BY <2>1, RefuseInv
  <2>2. CASE ~Refuse(w)
    <3> Continue(w, "commit") /\ UNCHANGED Rows /\ work[w].op # "post"
      BY <1>4, <2>2 DEF SettleSum, At
    <3> QED
      BY <1>0, ContinueInv
  <2> QED
    BY <2>1, <2>2
<1>5. CASE NoteInvoice(w)
  <2>1. CASE Refuse(w)
    BY <2>1, RefuseInv
  <2>2. CASE ~Refuse(w)
    <3> Continue(w, "commit") /\ UNCHANGED Rows /\ work[w].op # "post"
      BY <1>5, <2>2 DEF NoteInvoice, At
    <3> QED
      BY <1>0, ContinueInv
  <2> QED
    BY <2>1, <2>2
<1>6. CASE VoucherCommit(w)
  <2>1. CASE Refuse(w)
    BY <2>1, RefuseInv
  <2>2. CASE ~Refuse(w)
    <3> DEFINE v == work[w].voucher
               side == Side(work[w].type, Kind[work[w].inv])
               e == IF work[w].op = "settle"
                    THEN SettlementEffect(side, work[w].amount)
                    ELSE NoteEffect(side, work[w].sheet)
    <3>0. work[w].type # "NONE"
      BY <1>ok, <1>6 DEF VoucherCommit, At, RequestOK
    <3>1. PICK row : /\ row.type # "NONE"
                     /\ vouchers' = [vouchers EXCEPT ![v] = row]
      BY <1>6, <2>2, <3>0 DEF VoucherCommit
    <3>2. /\ journals' = [journals EXCEPT ![<<v, 0>>] = [status |-> "POSTED", effect |-> e]]
          /\ work' = [work EXCEPT ![w] = Idle]
      BY <1>6, <2>2 DEF VoucherCommit, End
    <3>3. v \in Vouchers /\ <<v, 0>> \in Sources \X Suffixes
      BY <1>0, PostingAssumption DEF Request, Sources, Suffixes
    <3>4. Balanced(e)
      BY <1>0, VoucherBalance, PostingAssumption DEF Request
    <3> HIDE DEF e, v
    <3>5. JournalsBalance'
      BY <1>0, <3>2, <3>3, <3>4 DEF LedgerInv, JournalsBalance, TypeOK
    <3>6. UnusedVouchers'
      <4> SUFFICES ASSUME NEW u \in Vouchers, NEW n \in Suffixes, vouchers'[u].type = "NONE"
                   PROVE  journals'[<<u, n>>].status = "NONE"
        BY DEF UnusedVouchers
      <4>1. u # v /\ vouchers[u].type = "NONE"
        BY <1>0, <3>1, <3>3 DEF TypeOK
      <4>2. <<u, n>> # <<v, 0>> /\ <<u, n>> \in Sources \X Suffixes
        BY <4>1 DEF Sources
      <4>3. journals'[<<u, n>>] = journals[<<u, n>>]
        BY <1>0, <3>2, <4>2 DEF TypeOK
      <4> QED
        BY <4>1, <4>3 DEF LedgerInv, UnusedVouchers
    <3>7. \A j \in Sources \X Suffixes :
             journals[j].status # "NONE" => journals'[j].status # "NONE"
      BY <1>0, <3>2, <3>3 DEF TypeOK
    <3>8. \A x \in Workers : RequestOK(work[x])'
      BY <3>2, <3>7, OtherRequests
    <3> QED
      BY <1>0, <3>5, <3>6, <3>8 DEF LedgerInv
  <2> QED
    BY <2>1, <2>2
<1> QED
  BY <1>1, <1>2, <1>3, <1>4, <1>5, <1>6 DEF VoucherStep, Reach

LEMMA PeriodStepInv ==
    ASSUME LedgerInv, NEW w \in Workers, PeriodStep(w)
    PROVE  LedgerInv'
<1>0. TypeOK /\ TypeOK' /\ work[w] \in Request
  BY PeriodStepType DEF LedgerInv, TypeOK
<1>1. CASE AssertPeriodOpen(w)
  <2>1. CASE Refuse(w)
    BY <2>1, RefuseInv
  <2>2. CASE ~Refuse(w)
    <3>1. \E pc \in {"existing", "invoice"} : Continue(w, pc)
      BY <1>1, <2>2 DEF AssertPeriodOpen
    <3>2. UNCHANGED Rows
      BY <1>1, <2>2 DEF AssertPeriodOpen
    <3> QED
      BY <1>0, <3>1, <3>2, ContinueInv
  <2> QED
    BY <2>1, <2>2
<1>2. ASSUME NEW to \in PeriodStatus, PeriodLoad(w, to)
      PROVE  LedgerInv'
  <2> DEFINE r == [Idle EXCEPT !.op = "period", !.pc = "commit", !.to = to]
  <2>0. Idle.found = {} /\ Idle.op = "none" /\ Idle \in Request
    BY IdleType DEF Idle
  <2>1. RequestOK(r)
    BY <2>0 DEF RequestOK, Request
  <2>2. work' = [work EXCEPT ![w] = r] /\ UNCHANGED <<journals, vouchers>>
    BY <1>2 DEF PeriodLoad, Begin, Rows
  <2> HIDE DEF r
  <2> QED
    BY <1>0, <2>1, <2>2, LocalStep
<1>3. CASE PeriodCommit(w)
  <2>1. work' = [work EXCEPT ![w] = Idle] /\ UNCHANGED <<journals, vouchers>>
    BY <1>3 DEF PeriodCommit, End
  <2> QED
    BY <1>0, <2>1, IdleOK, LocalStep
<1> QED
  BY <1>1, <1>2, <1>3 DEF PeriodStep

\* An import writes no journal, and only voucher numbers not used before.
LEMMA ImportStepInv ==
    ASSUME LedgerInv, NEW w \in Workers, ImportStep(w)
    PROVE  LedgerInv'
<1>0. TypeOK /\ TypeOK'
  BY ImportStepType DEF LedgerInv
<1>1. UNCHANGED journals /\ work' = [work EXCEPT ![w] = Idle]
  BY DEF ImportStep, ImportInvoice, ImportVoucher, End
<1>2. \A v \in Vouchers : vouchers'[v].type = "NONE" => vouchers[v].type = "NONE"
  <2>1. CASE UNCHANGED vouchers
    BY <2>1
  <2>2. ASSUME NEW i, NEW v \in Vouchers, NEW a, ImportVoucher(w, v, i, a)
        PROVE  \A x \in Vouchers : vouchers'[x].type = "NONE" => vouchers[x].type = "NONE"
    BY <1>0, <2>2 DEF ImportVoucher, TypeOK
  <2> QED
    BY <2>1, <2>2 DEF ImportStep, ImportInvoice, Reach
<1>3. JournalsBalance' /\ UnusedVouchers'
  BY <1>1, <1>2 DEF LedgerInv, JournalsBalance, UnusedVouchers
<1>4. \A x \in Workers : RequestOK(work[x])'
  BY <1>1, OtherRequests
<1> QED
  BY <1>0, <1>3, <1>4 DEF LedgerInv

LEMMA LedgerInvariant == Spec => []LedgerInv
<1>1. Init => LedgerInv
  <2> SUFFICES ASSUME Init PROVE LedgerInv
    OBVIOUS
  <2>1. TypeOK
    BY InitType
  <2>2. JournalsBalance /\ UnusedVouchers
    BY DEF Init, JournalsBalance, UnusedVouchers, Balanced, NoEffect, Sources
  <2>3. \A w \in Workers : RequestOK(work[w])
    <3>1. Off.op = "none" /\ RequestOK(Off)
      BY DEF Off, Idle, RequestOK
    <3> QED
      BY <3>1, IdleOK DEF Init
  <2> QED
    BY <2>1, <2>2, <2>3 DEF LedgerInv
<1>2. LedgerInv /\ [Next]_vars => LedgerInv'
  <2> SUFFICES ASSUME LedgerInv, [Next]_vars PROVE LedgerInv'
    OBVIOUS
  <2>1. CASE UNCHANGED vars
    BY <2>1 DEF vars, LedgerInv, TypeOK, JournalsBalance, UnusedVouchers, RequestOK
  <2>2. CASE Next
    BY <2>2, InvoiceStepInv, VoucherStepInv, PeriodStepInv, ImportStepInv DEF Next
  <2> QED
    BY <2>1, <2>2
<1> QED
  BY <1>1, <1>2, PTL DEF Spec

\* Every journal balances under every interleaving of any number of requests.
THEOREM JournalsAlwaysBalance == Spec => []JournalsBalance
<1>1. LedgerInv => JournalsBalance
  BY DEF LedgerInv
<1> QED
  BY <1>1, LedgerInvariant, PTL

AppendOnly ==
    \A j \in Sources \X Suffixes :
          journals[j].status # "NONE" =>
             /\ journals'[j].effect = journals[j].effect
             /\ \/ journals'[j].status = journals[j].status
                \/ journals[j].status = "POSTED" /\ journals'[j].status = "CANCELLED"

\* Only the three commits that write journals can break it.
LEMMA AppendOnlyStep ==
    ASSUME LedgerInv, NEW w \in Workers,
           InvoiceStep(w) \/ VoucherStep(w) \/ PeriodStep(w) \/ ImportStep(w)
    PROVE  AppendOnly
<1>0. TypeOK /\ work[w] \in Request /\ RequestOK(work[w])
  BY DEF LedgerInv, TypeOK
<1>1. CASE UNCHANGED journals
  BY <1>1 DEF AppendOnly
<1>2. CASE PostCommit(w)
  <2>1. CASE Refuse(w)
    BY <2>1, <1>1 DEF Refuse, Rows
  <2>2. CASE ~Refuse(w)
    <3> DEFINE k == <<work[w].inv, work[w].suffix>>
    <3>1. journals[k].status = "NONE" /\ \E row : journals' = [journals EXCEPT ![k] = row]
      BY <1>2, <2>2 DEF PostCommit
    <3> HIDE DEF k
    <3> QED
      BY <1>0, <3>1 DEF AppendOnly, TypeOK
  <2> QED
    BY <2>1, <2>2
<1>3. CASE VoucherCommit(w)
  <2>1. CASE Refuse(w)
    BY <2>1, <1>1 DEF Refuse, Rows
  <2>2. CASE ~Refuse(w)
    <3> DEFINE k == <<work[w].voucher, 0>>
    <3>1. work[w].voucher \in Vouchers /\ 0 \in Suffixes
      BY <1>0, PostingAssumption DEF Request, Suffixes
    <3>2. /\ vouchers[work[w].voucher].type = "NONE"
          /\ \E row : journals' = [journals EXCEPT ![k] = row]
      BY <1>3, <2>2 DEF VoucherCommit
    <3>3. journals[k].status = "NONE"
      BY <3>1, <3>2 DEF LedgerInv, UnusedVouchers
    <3> HIDE DEF k
    <3> QED
      BY <1>0, <3>2, <3>3 DEF AppendOnly, TypeOK
  <2> QED
    BY <2>1, <2>2
<1>4. CASE CancelCommit(w)
  <2> DEFINE i == work[w].inv
  <2>1. journals' = [j \in Sources \X Suffixes |->
              IF \E n \in work[w].found : j = <<i, n>>
              THEN [journals[j] EXCEPT !.status = "CANCELLED"] ELSE journals[j]]
    BY <1>4 DEF CancelCommit
  <2> SUFFICES ASSUME NEW j \in Sources \X Suffixes, journals[j].status # "NONE"
               PROVE  /\ journals'[j].effect = journals[j].effect
                      /\ \/ journals'[j].status = journals[j].status
                         \/ journals[j].status = "POSTED" /\ journals'[j].status = "CANCELLED"
    BY DEF AppendOnly
  <2>2. journals[j] \in JournalRow
    BY <1>0 DEF TypeOK
  <2>3. journals'[j] \in {journals[j], [journals[j] EXCEPT !.status = "CANCELLED"]}
    BY <2>1, SMTT(30)
  <2> QED
    BY <2>2, <2>3 DEF JournalRow, JournalStatus
<1>5. \/ UNCHANGED journals \/ PostCommit(w) \/ VoucherCommit(w) \/ CancelCommit(w)
  BY DEF InvoiceStep, VoucherStep, PeriodStep, ImportStep, ImportInvoice, ImportVoucher, CreateLoad, UpdateLoad, CreateCommit,
         UpdateCommit, PostLoad, CancelLoad, ExistingJournal, GenerateNumber, SettleBegin,
         NoteBegin, SettleInvoice, SettleSum, NoteInvoice, AssertPeriodOpen, PeriodLoad,
         PeriodCommit, Refuse, Rows
<1> QED
  BY <1>1, <1>2, <1>3, <1>4, <1>5

\* No journal is edited, deleted or revived, whatever interleaves.
THEOREM JournalsNeverRewritten == Spec => JournalsAppendOnly
<1>1. LedgerInv /\ [Next]_vars => [AppendOnly]_vars
  BY AppendOnlyStep DEF Next
<1> QED
  BY <1>1, LedgerInvariant, PTL DEF Spec, JournalsAppendOnly, AppendOnly

-----------------------------------------------------------------------------
(* One request after the other                                              *)
-----------------------------------------------------------------------------
\* What the books say of the open documents.
\* An imported invoice is never a draft again, so nothing can post it.
Books ==
    /\ \A i \in Invoices : InBooks(i)
    /\ \A i \in Invoices : invoices[i].imported => invoices[i].status # "DRAFT"
    /\ PartyBalance = OpenInvoices - AgainstThem

LEMMA FiniteRows ==
    /\ IsFiniteSet({j \in Sources \X Suffixes : journals[j].status = "POSTED"})
    /\ IsFiniteSet({i \in Invoices : EnteredPosted(i)})
    /\ IsFiniteSet({v \in Vouchers : vouchers[v].type # "NONE" /\ ~vouchers[v].imported})
<1>1. IsFiniteSet(Invoices) /\ IsFiniteSet(Vouchers) /\ IsFiniteSet(Suffixes)
  BY PostingAssumption, FS_Interval DEF Suffixes
<1>2. IsFiniteSet(Sources)
  BY <1>1, FS_Union DEF Sources
<1>3. IsFiniteSet(Sources \X Suffixes)
  BY <1>1, <1>2, FS_Product
<1>4. \A S, T : IsFiniteSet(S) /\ T \subseteq S => IsFiniteSet(T)
  BY FS_Subset
<1>5. /\ {j \in Sources \X Suffixes : journals[j].status = "POSTED"} \subseteq Sources \X Suffixes
      /\ {i \in Invoices : EnteredPosted(i)} \subseteq Invoices
      /\ {v \in Vouchers : vouchers[v].type # "NONE" /\ ~vouchers[v].imported} \subseteq Vouchers
  OBVIOUS
<1> QED
  BY <1>1, <1>3, <1>4, <1>5

\* What a document does to the control account is its signed total.
LEMMA PartyShare ==
    ASSUME NEW k
    PROVE  /\ \A t \in Totals : InvoiceEffect(k, t).party = Signed(k, t.grand) /\ Signed(k, t.grand) \in Int
           /\ \A a \in Nat : SettlementEffect(k, a).party = -Signed(k, a) /\ Signed(k, a) \in Int
           /\ \A s \in Sheets : NoteEffect(k, s).party = -Signed(k, NoteTotal(s))
<1>1. \A t \in Totals : InvoiceEffect(k, t).party = Signed(k, t.grand) /\ Signed(k, t.grand) \in Int
  BY DEF Totals, InvoiceEffect, OnSide, Mirror, Signed
<1>2. \A a \in Nat : SettlementEffect(k, a).party = -Signed(k, a) /\ Signed(k, a) \in Int
  BY DEF SettlementEffect, OnSide, Mirror, Signed
<1>3. \A s \in Sheets : NoteTotal(s) \in Nat
  BY PostingAssumption DEF NoteTotal
<1>4. \A s \in Sheets : NoteEffect(k, s).party = -Signed(k, NoteTotal(s))
  BY <1>3 DEF NoteEffect, OnSide, Mirror, Signed
<1> QED
  BY <1>1, <1>2, <1>4

LEMMA BooksUnread ==
    ASSUME Books, UNCHANGED <<invoices, vouchers, journals>> PROVE Books'
BY DEF Books, InBooks, EnteredPosted, PostedSuffixes, PartyBalance, OpenInvoices, AgainstThem

\* Nothing entered is posted and nothing was: the books need not know.
LEMMA BooksOutside ==
    ASSUME TypeOK, Books, NEW i \in Invoices, NEW row,
           ~EnteredPosted(i), row.status # "POSTED" \/ row.imported,
           row.imported => row.status # "DRAFT",
           invoices' = [invoices EXCEPT ![i] = row], UNCHANGED <<vouchers, journals>>
    PROVE  Books'
<1> DEFINE O == {x \in Invoices : EnteredPosted(x)}
           f == [x \in Invoices |-> Signed(Kind[x], invoices[x].totals.grand)]
<1>1. \A x \in Invoices \ {i} : invoices'[x] = invoices[x]
  BY DEF TypeOK
<1>2. invoices'[i] = row
  BY DEF TypeOK
<1>3. O' = O
  BY <1>1, <1>2 DEF EnteredPosted
<1>4. SumOver(f', O) = SumOver(f, O)
  <2>1. IsFiniteSet(O)
    BY FiniteRows
  <2>2. \A x \in O : f'[x] = f[x]
    BY <1>1
  <2> HIDE DEF O, f
  <2> QED
    BY <2>1, <2>2, SumSame
<1>5. OpenInvoices' = OpenInvoices
  BY <1>3, <1>4 DEF OpenInvoices
<1>6. PartyBalance' = PartyBalance /\ AgainstThem' = AgainstThem
  BY DEF PartyBalance, AgainstThem
<1>7. \A x \in Invoices : InBooks(x)'
  BY <1>1, <1>2 DEF Books, InBooks, EnteredPosted, PostedSuffixes
<1>8. \A x \in Invoices : invoices'[x].imported => invoices'[x].status # "DRAFT"
  BY <1>1, <1>2 DEF Books
<1> QED
  BY <1>5, <1>6, <1>7, <1>8 DEF Books


\* What a request in flight has read is still so.  A cancellation that saw a draft goes
\* straight to its commit; every other dated operation past its check found the period OPEN.
Fresh(r) ==
    /\ r.op \in {"update", "post", "cancel"} =>
          invoices[r.inv].status = r.seen /\ invoices[r.inv].totals = r.totals
    /\ r.op \in {"update", "post"} => r.seen = "DRAFT"
    /\ r.op = "cancel" =>
          /\ r.seen = "POSTED" \/ (r.seen = "DRAFT" /\ r.pc = "commit" /\ r.found = {})
          /\ r.seen = "POSTED" /\ r.pc = "commit" => r.found = PostedSuffixes(r.inv)
    /\ r.op \in {"post", "cancel", "settle", "note"} /\ r.pc # "period" =>
          period = "OPEN" \/ (r.op = "cancel" /\ r.seen = "DRAFT")
    /\ r.op = "settle" => r.type \in {"SETTLEMENT", "REFUND"}
    /\ r.op = "note" => r.type \in {"CREDIT", "DEBIT"}
    /\ r.op = "settle" /\ r.pc = "sum" =>
          r.totals = invoices[r.inv].totals
    /\ r.op = "settle" /\ r.pc = "commit" /\ r.linked /\ invoices[r.inv].status # "NONE" =>
          r.amount <= invoices[r.inv].totals.grand - Settled(r.inv)

SerialInv == Serial => Books /\ \A w \in Workers : work[w].pc # "off" => Fresh(work[w])

\* Every step is one worker's: the others keep their requests, and who is on stays on.
LEMMA StepOfOne ==
    ASSUME TypeOK, NEW w \in Workers, InvoiceStep(w) \/ VoucherStep(w) \/ PeriodStep(w) \/ ImportStep(w)
    PROVE  /\ work[w].pc # "off" /\ work'[w].pc # "off"
           /\ \A x \in Workers \ {w} : work'[x] = work[x]
<1> USE DEF At, IsIdle
<1>0. work \in [Workers -> Request] /\ work[w] \in Request
  BY DEF TypeOK
<1>refuse. Refuse(w) => work'[w].pc # "off" /\ \A x \in Workers \ {w} : work'[x] = work[x]
  BY <1>0 DEF Refuse, End, Idle
<1>end. End(w) => work'[w].pc # "off" /\ \A x \in Workers \ {w} : work'[x] = work[x]
  BY <1>0 DEF End, Idle
<1>1. CASE InvoiceStep(w)
  <2>1. CASE \E i \in Reach(Invoices), s \in Sheets : CreateLoad(w, i, s) \/ UpdateLoad(w, i, s)
    BY <1>0, <2>1, ZenonT(60) DEF CreateLoad, UpdateLoad, Begin, Idle
  <2>2. CASE CreateCommit(w) \/ UpdateCommit(w) \/ PostCommit(w) \/ CancelCommit(w)
    BY <1>refuse, <1>end, <2>2 DEF CreateCommit, UpdateCommit, PostCommit, CancelCommit
  <2>3. ASSUME NEW i, PostLoad(w, i)
        PROVE  work[w].pc # "off" /\ work'[w].pc # "off" /\ \A x \in Workers \ {w} : work'[x] = work[x]
    BY <1>0, <2>3 DEF PostLoad, Begin, Idle
  <2>5. ASSUME NEW i, CancelLoad(w, i)
        PROVE  work[w].pc # "off" /\ work'[w].pc # "off" /\ \A x \in Workers \ {w} : work'[x] = work[x]
    BY <1>0, <2>5 DEF CancelLoad, Begin, Idle
  <2>4. CASE ExistingJournal(w) \/ GenerateNumber(w)
    BY <1>0, <1>refuse, <2>4, ZenonT(60) DEF ExistingJournal, GenerateNumber, Request
  <2> QED
    BY <1>1, <2>1, <2>2, <2>3, <2>4, <2>5 DEF InvoiceStep
<1>2. CASE VoucherStep(w)
  <2>1. ASSUME NEW v, NEW i, NEW type, NEW a, NEW linked, SettleBegin(w, v, i, type, a, linked)
        PROVE  work[w].pc # "off" /\ work'[w].pc # "off" /\ \A x \in Workers \ {w} : work'[x] = work[x]
    BY <1>0, <2>1 DEF SettleBegin, Begin, Idle
  <2>5. ASSUME NEW v, NEW i, NEW type, NEW s, NEW linked, NoteBegin(w, v, i, type, s, linked)
        PROVE  work[w].pc # "off" /\ work'[w].pc # "off" /\ \A x \in Workers \ {w} : work'[x] = work[x]
    BY <1>0, <2>5 DEF NoteBegin, Begin, Idle
  <2>2. CASE SettleInvoice(w)
    BY <1>0, <2>2 DEF SettleInvoice, Request
  <2>3. CASE SettleSum(w) \/ NoteInvoice(w)
    BY <1>0, <1>refuse, <2>3 DEF SettleSum, NoteInvoice, Continue, Request
  <2>4. CASE VoucherCommit(w)
    BY <1>refuse, <1>end, <2>4 DEF VoucherCommit
  <2> QED
    BY <1>2, <2>1, <2>2, <2>3, <2>4, <2>5 DEF VoucherStep
<1>3. CASE PeriodStep(w)
  <2>1. CASE AssertPeriodOpen(w)
    BY <1>0, <1>refuse, <2>1 DEF AssertPeriodOpen, Continue, Request
  <2>2. CASE \E to \in PeriodStatus : PeriodLoad(w, to)
    BY <1>0, <2>2 DEF PeriodLoad, Begin, Idle
  <2>3. CASE PeriodCommit(w)
    BY <1>end, <2>3 DEF PeriodCommit
  <2> QED
    BY <1>3, <2>1, <2>2, <2>3 DEF PeriodStep
<1>4. CASE ImportStep(w)
  BY <1>end, <1>4 DEF ImportStep, ImportInvoice, ImportVoucher
<1> QED
  BY <1>1, <1>2, <1>3, <1>4

\* The crew does not change.
LEMMA SerialStays == TypeOK /\ [Next]_vars => (Serial' <=> Serial)
<1> SUFFICES ASSUME TypeOK, [Next]_vars PROVE Serial' <=> Serial
  OBVIOUS
<1>1. \A x \in Workers : work'[x].pc = "off" <=> work[x].pc = "off"
  BY StepOfOne DEF Next, vars
<1> QED
  BY <1>1 DEF Serial

\* With the crew of one, a step concerns that worker only.
LEMMA OthersOff ==
    ASSUME TypeOK, Serial, NEW w \in Workers,
           InvoiceStep(w) \/ VoucherStep(w) \/ PeriodStep(w) \/ ImportStep(w)
    PROVE  \A x \in Workers \ {w} : work[x].pc = "off" /\ work'[x].pc = "off"
BY StepOfOne DEF Serial

LEMMA AgainstThemType == TypeOK => AgainstThem \in Int
<1> SUFFICES ASSUME TypeOK PROVE AgainstThem \in Int
  OBVIOUS
<1> DEFINE f == [v \in Vouchers |-> Signed(Side(vouchers[v].type, Kind[vouchers[v].inv]),
                                           vouchers[v].amount)]
           V == {v \in Vouchers : vouchers[v].type # "NONE" /\ ~vouchers[v].imported}
<1>1. \A v \in V : f[v] \in Int
  BY PartyShare DEF TypeOK, VoucherRow
<1>2. IsFiniteSet(V)
  BY FiniteRows
<1>3. AgainstThem = SumOver(f, V)
  BY DEF AgainstThem
<1> HIDE DEF f, V
<1> QED
  BY <1>1, <1>2, <1>3, SumType

LEMMA OpenInvoicesType == TypeOK => OpenInvoices \in Int
<1> SUFFICES ASSUME TypeOK PROVE OpenInvoices \in Int
  OBVIOUS
<1> DEFINE f == [i \in Invoices |-> Signed(Kind[i], invoices[i].totals.grand)]
           O == {i \in Invoices : EnteredPosted(i)}
<1>1. \A i \in O : f[i] \in Int
  BY PartyShare DEF TypeOK, InvoiceRow
<1>2. IsFiniteSet(O)
  BY FiniteRows
<1>3. OpenInvoices = SumOver(f, O)
  BY DEF OpenInvoices
<1> HIDE DEF f, O
<1> QED
  BY <1>1, <1>2, <1>3, SumType

LEMMA InBooksSame ==
    ASSUME NEW x \in Invoices, InBooks(x), invoices'[x] = invoices[x],
           \A m \in Suffixes : journals'[<<x, m>>] = journals[<<x, m>>]
    PROVE  InBooks(x)'
BY DEF InBooks, EnteredPosted, PostedSuffixes

\* post: an invoice with no posted journal gets one, of the totals it has.
LEMMA BooksPosted ==
    ASSUME TypeOK, Books, NEW i \in Invoices, NEW n \in Suffixes, NEW e,
           invoices[i].status = "DRAFT", journals[<<i, n>>].status # "POSTED",
           e = InvoiceEffect(Kind[i], invoices[i].totals),
           invoices' = [invoices EXCEPT ![i].status = "POSTED"],
           journals' = [journals EXCEPT ![<<i, n>>] = [status |-> "POSTED", effect |-> e]],
           UNCHANGED vouchers
    PROVE  Books'
<1> DEFINE k == <<i, n>>
           J == {j \in Sources \X Suffixes : journals[j].status = "POSTED"}
           O == {x \in Invoices : EnteredPosted(x)}
           f == [j \in Sources \X Suffixes |-> journals[j].effect.party]
           g == [x \in Invoices |-> Signed(Kind[x], invoices[x].totals.grand)]
<1>0. k \in Sources \X Suffixes /\ k \notin J /\ i \notin O /\ IsFiniteSet(J) /\ IsFiniteSet(O)
  BY FiniteRows DEF Sources, EnteredPosted
<1>1. \A j \in Sources \X Suffixes : j # k => journals'[j] = journals[j]
  BY DEF TypeOK
<1>2. journals'[k].status = "POSTED" /\ journals'[k].effect = e
  BY <1>0 DEF TypeOK
<1>3. /\ \A x \in Invoices \ {i} : invoices'[x] = invoices[x]
      /\ invoices'[i].status = "POSTED" /\ invoices'[i].totals = invoices[i].totals
      /\ ~invoices[i].imported /\ ~invoices'[i].imported
      /\ \A x \in Invoices : invoices[x].totals \in Totals
  BY DEF TypeOK, InvoiceRow, Books
<1>4. e.party = g[i] /\ g[i] \in Int
  BY <1>3, PartyShare
<1>5. \A j \in Sources \X Suffixes : f[j] \in Int
  BY DEF TypeOK, JournalRow, Effects
<1>6. \A x \in Invoices : g[x] \in Int
  BY <1>3, PartyShare
<1>7. SumOver(f, J) \in Int /\ SumOver(f', J \cup {k}) = SumOver(f, J) + e.party
  <2>1. \A j \in J : f[j] \in Int /\ f'[j] = f[j]
    BY <1>0, <1>1, <1>5
  <2>2. f'[k] = e.party
    BY <1>0, <1>2
  <2> HIDE DEF f, J, k
  <2> QED
    BY <1>0, <1>4, <2>1, <2>2, SumOneMore
<1>8. SumOver(g, O) \in Int /\ SumOver(g', O \cup {i}) = SumOver(g, O) + g[i]
  <2>1. \A x \in O : g[x] \in Int /\ g'[x] = g[x]
    BY <1>0, <1>3, <1>6
  <2>2. g'[i] = g[i]
    BY <1>3
  <2>3. IsFiniteSet(O) /\ i \notin O /\ g'[i] \in Int
    BY <1>0, <1>4, <2>2
  <2> HIDE DEF g, O, f, J, k
  <2>4. SumOver(g, O) \in Int /\ SumOver(g', O \cup {i}) = SumOver(g, O) + g'[i]
    BY <2>1, <2>3, SumOneMore
  <2> QED
    BY <2>2, <2>4
<1>9. J' = J \cup {k} /\ O' = O \cup {i}
  BY <1>0, <1>1, <1>2, <1>3 DEF EnteredPosted
<1>10. /\ PartyBalance = SumOver(f, J) /\ PartyBalance' = SumOver(f', J')
       /\ OpenInvoices = SumOver(g, O) /\ OpenInvoices' = SumOver(g', O')
       /\ AgainstThem' = AgainstThem
  BY DEF PartyBalance, OpenInvoices, AgainstThem
<1>11. AgainstThem \in Int
  BY AgainstThemType
<1>12. PartyBalance' = OpenInvoices' - AgainstThem'
  <2> HIDE DEF f, g, J, O, k
  <2> QED
    BY <1>4, <1>7, <1>8, <1>9, <1>10, <1>11 DEF Books
<1>13. \A x \in Invoices : InBooks(x)'
  <2>1. PostedSuffixes(i) = {}
    BY DEF Books, InBooks, EnteredPosted
  <2>2. PostedSuffixes(i)' = {n}
    BY <1>0, <1>1, <1>2, <2>1 DEF PostedSuffixes, Sources
  <2>3. InBooks(i)'
    BY <1>2, <1>3, <2>2 DEF InBooks, EnteredPosted
  <2>4. ASSUME NEW x \in Invoices \ {i} PROVE InBooks(x)'
    <3>1. \A m \in Suffixes : journals'[<<x, m>>] = journals[<<x, m>>]
      BY <1>1 DEF Sources
    <3> QED
      BY <1>3, <3>1, InBooksSame DEF Books
  <2> QED
    BY <2>3, <2>4
<1>14. \A x \in Invoices : invoices'[x].imported => invoices'[x].status # "DRAFT"
  BY <1>3 DEF Books
<1> QED
  BY <1>12, <1>13, <1>14 DEF Books

LEMMA OpenLess ==
    ASSUME TypeOK, NEW i \in Invoices, EnteredPosted(i),
           invoices' = [invoices EXCEPT ![i].status = "CANCELLED"]
    PROVE  /\ OpenInvoices \in Int
           /\ OpenInvoices' = OpenInvoices - Signed(Kind[i], invoices[i].totals.grand)
<1> DEFINE O == {x \in Invoices : EnteredPosted(x)}
           g == [x \in Invoices |-> Signed(Kind[x], invoices[x].totals.grand)]
           h == g'
<1>1. /\ \A x \in Invoices \ {i} : invoices'[x] = invoices[x]
      /\ invoices'[i].status = "CANCELLED"
      /\ \A x \in Invoices : invoices[x].totals \in Totals
  BY DEF TypeOK, InvoiceRow
<1>2. O' = O \ {i}
  BY <1>1 DEF EnteredPosted
<1>3. \A x \in O : g[x] \in Int
  BY <1>1, PartyShare
<1>4. \A x \in O \ {i} : h[x] = g[x]
  BY <1>1
<1>5. i \in O /\ IsFiniteSet(O)
  BY FiniteRows
<1>6. OpenInvoices = SumOver(g, O) /\ OpenInvoices' = SumOver(h, O')
  BY DEF OpenInvoices
<1>7. g[i] = Signed(Kind[i], invoices[i].totals.grand)
  OBVIOUS
<1> HIDE DEF g, O, h
<1>8. SumOver(g, O) \in Int /\ SumOver(h, O \ {i}) = SumOver(g, O) - g[i]
  <2>1. ASSUME NEW e \in O, \A x \in O \ {e} : h[x] = g[x]
        PROVE  SumOver(g, O) \in Int /\ SumOver(h, O \ {e}) = SumOver(g, O) - g[e]
    BY <1>3, <1>5, <2>1, SumOneLess
  <2> QED
    BY <1>4, <1>5, <2>1
<1> QED
  BY <1>2, <1>6, <1>7, <1>8

\* cancel: the one posted journal of an invoice goes with it.
LEMMA BooksCancelled ==
    ASSUME TypeOK, Books, NEW i \in Invoices, EnteredPosted(i),
           invoices' = [invoices EXCEPT ![i].status = "CANCELLED"],
           journals' = [j \in Sources \X Suffixes |->
                           IF \E n \in PostedSuffixes(i) : j = <<i, n>>
                           THEN [journals[j] EXCEPT !.status = "CANCELLED"] ELSE journals[j]],
           UNCHANGED vouchers
    PROVE  Books'
<1> DEFINE J == {j \in Sources \X Suffixes : journals[j].status = "POSTED"}
           f == [j \in Sources \X Suffixes |-> journals[j].effect.party]
           g == [x \in Invoices |-> Signed(Kind[x], invoices[x].totals.grand)]
<1>0. PICK n \in Suffixes : /\ PostedSuffixes(i) = {n}
                            /\ journals[<<i, n>>].effect = InvoiceEffect(Kind[i], invoices[i].totals)
  BY DEF Books, InBooks
<1> DEFINE k == <<i, n>>
<1>1. k \in Sources \X Suffixes /\ k \in J /\ IsFiniteSet(J)
  BY <1>0, FiniteRows DEF Sources, PostedSuffixes
<1>2. \A j \in Sources \X Suffixes : j # k => journals'[j] = journals[j]
  BY <1>0
<1>3. journals'[k].status = "CANCELLED"
  BY <1>0, <1>1 DEF TypeOK, JournalRow
<1>4. /\ \A x \in Invoices \ {i} : invoices'[x] = invoices[x]
      /\ invoices'[i].status = "CANCELLED"
      /\ \A x \in Invoices : invoices[x].totals \in Totals
  BY DEF TypeOK, InvoiceRow
<1>5. f[k] = g[i] /\ g[i] \in Int
  <2>1. f[k] = InvoiceEffect(Kind[i], invoices[i].totals).party
    BY <1>0, <1>1
  <2>2. g[i] = Signed(Kind[i], invoices[i].totals.grand) /\ invoices[i].totals \in Totals
    BY <1>4
  <2> HIDE DEF f, g, k
  <2> QED
    BY <2>1, <2>2, PartyShare
<1>6. \A j \in Sources \X Suffixes : f[j] \in Int
  BY DEF TypeOK, JournalRow, Effects
<1>8. SumOver(f, J) \in Int /\ SumOver(f', J \ {k}) = SumOver(f, J) - f[k]
  <2>1. \A j \in J : f[j] \in Int
    BY <1>6
  <2>2. \A j \in J \ {k} : f'[j] = f[j]
    BY <1>2
  <2>3. k \in J /\ IsFiniteSet(J)
    BY <1>1
  <2> HIDE DEF f, J, k
  <2> QED
    BY <2>1, <2>2, <2>3, SumOneLess, SMTT(30)
<1>9. OpenInvoices' = OpenInvoices - g[i] /\ OpenInvoices \in Int
  BY <1>1, OpenLess
<1>10. J' = J \ {k}
  <2>1. \A j \in Sources \X Suffixes : journals'[j].status = "POSTED" <=> j \in J /\ j # k
    BY <1>2, <1>3
  <2> QED
    BY <2>1
<1>11. /\ PartyBalance = SumOver(f, J) /\ PartyBalance' = SumOver(f', J')
       /\ AgainstThem' = AgainstThem /\ AgainstThem \in Int
  BY AgainstThemType DEF PartyBalance, AgainstThem
<1>12. PartyBalance' = OpenInvoices' - AgainstThem'
  <2> HIDE DEF f, g, J, k
  <2> QED
    BY <1>5, <1>8, <1>9, <1>10, <1>11 DEF Books
<1>13. \A x \in Invoices : InBooks(x)'
  <2>1. PostedSuffixes(i)' = {}
    BY <1>0, <1>2, <1>3 DEF PostedSuffixes, Sources
  <2>2. InBooks(i)'
    BY <1>4, <2>1 DEF InBooks, EnteredPosted
  <2>3. ASSUME NEW x \in Invoices \ {i} PROVE InBooks(x)'
    <3>1. \A m \in Suffixes : journals'[<<x, m>>] = journals[<<x, m>>]
      BY <1>2 DEF Sources
    <3> QED
      BY <1>4, <3>1, InBooksSame DEF Books
  <2> QED
    BY <2>2, <2>3
<1>14. \A x \in Invoices : invoices'[x].imported => invoices'[x].status # "DRAFT"
  BY <1>4 DEF Books
<1> QED
  BY <1>12, <1>13, <1>14 DEF Books

\* A voucher is inserted with its journal.
LEMMA BooksVoucher ==
    ASSUME TypeOK, Books, UnusedVouchers, NEW v \in Vouchers, NEW row \in VoucherRow, NEW e \in Effects,
           vouchers[v].type = "NONE", row.type # "NONE", ~row.imported,
           e.party = -Signed(Side(row.type, Kind[row.inv]), row.amount),
           vouchers' = [vouchers EXCEPT ![v] = row],
           journals' = [journals EXCEPT ![<<v, 0>>] = [status |-> "POSTED", effect |-> e]],
           UNCHANGED invoices
    PROVE  Books'
<1> DEFINE k == <<v, 0>>
           J == {j \in Sources \X Suffixes : journals[j].status = "POSTED"}
           V == {x \in Vouchers : vouchers[x].type # "NONE" /\ ~vouchers[x].imported}
           f == [j \in Sources \X Suffixes |-> journals[j].effect.party]
           g == [x \in Vouchers |-> Signed(Side(vouchers[x].type, Kind[vouchers[x].inv]),
                                           vouchers[x].amount)]
<1>0. /\ k \in Sources \X Suffixes /\ k \notin J /\ v \notin V
      /\ IsFiniteSet(J) /\ IsFiniteSet(V) /\ v \notin Invoices
  BY FiniteRows, PostingAssumption DEF Sources, Suffixes, UnusedVouchers
<1>1. \A j \in Sources \X Suffixes : j # k => journals'[j] = journals[j]
  BY DEF TypeOK
<1>2. journals'[k].status = "POSTED" /\ journals'[k].effect = e
  BY <1>0 DEF TypeOK
<1>3. (\A x \in Vouchers \ {v} : vouchers'[x] = vouchers[x]) /\ vouchers'[v] = row
  BY DEF TypeOK
<1>4. \A x \in Vouchers : g[x] \in Int
  BY PartyShare DEF TypeOK, VoucherRow
<1>5. g'[v] = -e.party /\ g'[v] \in Int /\ e.party \in Int
  <2>1. row.amount \in Nat
    BY DEF VoucherRow
  <2>2. Signed(Side(row.type, Kind[row.inv]), row.amount) \in Int
    BY <2>1, PartyShare
  <2>3. g'[v] = Signed(Side(row.type, Kind[row.inv]), row.amount)
    BY <1>3
  <2> HIDE DEF g
  <2> QED
    BY <2>2, <2>3
<1>6. \A j \in Sources \X Suffixes : f[j] \in Int
  BY DEF TypeOK, JournalRow, Effects
<1>7. SumOver(f, J) \in Int /\ SumOver(f', J \cup {k}) = SumOver(f, J) + e.party
  <2>1. \A j \in J : f[j] \in Int /\ f'[j] = f[j]
    BY <1>0, <1>1, <1>6
  <2>2. f'[k] = e.party
    BY <1>0, <1>2
  <2> HIDE DEF f, J, k
  <2> QED
    BY <1>0, <1>5, <2>1, <2>2, SumOneMore
<1>8. SumOver(g, V) \in Int /\ SumOver(g', V \cup {v}) = SumOver(g, V) + g'[v]
  <2>1. \A x \in V : g[x] \in Int /\ g'[x] = g[x]
    BY <1>0, <1>3, <1>4
  <2> HIDE DEF g, V, f, J, k
  <2> QED
    BY <1>0, <1>5, <2>1, SumOneMore
<1>9. J' = J \cup {k} /\ V' = V \cup {v}
  BY <1>0, <1>1, <1>2, <1>3
<1>10. /\ PartyBalance = SumOver(f, J) /\ PartyBalance' = SumOver(f', J')
       /\ AgainstThem = SumOver(g, V) /\ AgainstThem' = SumOver(g', V')
       /\ OpenInvoices' = OpenInvoices
  BY DEF PartyBalance, OpenInvoices, EnteredPosted, AgainstThem
<1>11. OpenInvoices \in Int
  BY OpenInvoicesType
<1>12. PartyBalance' = OpenInvoices' - AgainstThem'
  <2> HIDE DEF f, g, J, V, k
  <2> QED
    BY <1>5, <1>7, <1>8, <1>9, <1>10, <1>11 DEF Books
<1>13. \A x \in Invoices : InBooks(x)'
  <2> SUFFICES ASSUME NEW x \in Invoices PROVE InBooks(x)'
    OBVIOUS
  <2>1. \A m \in Suffixes : journals'[<<x, m>>] = journals[<<x, m>>]
    BY <1>0, <1>1 DEF Sources
  <2> QED
    BY <2>1, InBooksSame DEF Books
<1>14. \A x \in Invoices : invoices'[x].imported => invoices'[x].status # "DRAFT"
  BY DEF Books
<1> QED
  BY <1>12, <1>13, <1>14 DEF Books

\* An imported voucher is on neither side of the balance.
LEMMA BooksImportedVoucher ==
    ASSUME TypeOK, Books, NEW v \in Vouchers, NEW row, vouchers[v].type = "NONE", row.imported,
           vouchers' = [vouchers EXCEPT ![v] = row], UNCHANGED <<invoices, journals>>
    PROVE  Books'
<1> DEFINE V == {x \in Vouchers : vouchers[x].type # "NONE" /\ ~vouchers[x].imported}
           g == [x \in Vouchers |-> Signed(Side(vouchers[x].type, Kind[vouchers[x].inv]),
                                           vouchers[x].amount)]
<1>1. (\A x \in Vouchers \ {v} : vouchers'[x] = vouchers[x]) /\ vouchers'[v] = row
  BY DEF TypeOK
<1>2. V' = V /\ v \notin V /\ IsFiniteSet(V)
  BY <1>1, FiniteRows
<1>3. \A x \in V : g'[x] = g[x]
  BY <1>1, <1>2
<1>4. AgainstThem = SumOver(g, V) /\ AgainstThem' = SumOver(g', V')
  BY DEF AgainstThem
<1>5. AgainstThem' = AgainstThem
  <2> HIDE DEF g, V
  <2> QED
    BY <1>2, <1>3, <1>4, SumSame
<1>6. PartyBalance' = PartyBalance /\ OpenInvoices' = OpenInvoices
  BY DEF PartyBalance, OpenInvoices, EnteredPosted
<1>7. \A x \in Invoices : InBooks(x)'
  BY InBooksSame DEF Books
<1>8. \A x \in Invoices : invoices'[x].imported => invoices'[x].status # "DRAFT"
  BY DEF Books
<1> QED
  BY <1>5, <1>6, <1>7, <1>8 DEF Books

-----------------------------------------------------------------------------
LEMMA IdleFresh == Fresh(Idle)
BY DEF Fresh, Idle

\* A step that only reads leaves the books, and must leave its own request fresh.
LEMMA ReadStep ==
    ASSUME TypeOK, Books, NEW w \in Workers, NEW r, Fresh(r), work' = [work EXCEPT ![w] = r],
           UNCHANGED Rows
    PROVE  Books' /\ Fresh(work[w])'
<1>1. Books'
  BY BooksUnread DEF Rows
<1>2. work'[w] = r
  BY DEF TypeOK
<1>3. UNCHANGED <<invoices, vouchers, journals, period>>
  BY DEF Rows
<1>4. Fresh(r)'
  BY <1>3 DEF Fresh, Settled, PostedSuffixes
<1> QED
  BY <1>1, <1>2, <1>4 DEF Fresh

\* A step that ends its request has nothing left to be fresh about.
LEMMA EndFresh ==
    ASSUME TypeOK, NEW w \in Workers, End(w) PROVE Fresh(work[w])'
<1>1. work'[w] = Idle
  BY DEF TypeOK, End
<1> QED
  BY <1>1 DEF Fresh, Idle

LEMMA RefuseStep ==
    ASSUME TypeOK, Books, NEW w \in Workers, Refuse(w) PROVE Books' /\ Fresh(work[w])'
BY IdleFresh, ReadStep DEF Refuse, End

LEMMA InvoiceStepSerial ==
    ASSUME TypeOK, Books, NEW w \in Workers, Fresh(work[w]), InvoiceStep(w)
    PROVE  Books' /\ Fresh(work[w])'
<1>0. work \in [Workers -> Request] /\ work[w] \in Request
      /\ \A i \in Invoices : invoices[i] \in InvoiceRow
  BY DEF TypeOK
<1>1. ASSUME NEW i \in Invoices, NEW s \in Sheets, CreateLoad(w, i, s)
      PROVE  Books' /\ Fresh(work[w])'
  <2> DEFINE r == [Idle EXCEPT !.op = "create", !.pc = "commit", !.inv = i, !.sheet = s]
  <2>1. Fresh(r)
    BY DEF Fresh, Idle
  <2> HIDE DEF r
  <2> QED
    BY <1>1, <2>1, ReadStep DEF CreateLoad, Begin, r
<1>2. ASSUME NEW i \in Invoices, NEW s \in Sheets, UpdateLoad(w, i, s)
      PROVE  Books' /\ Fresh(work[w])'
  <2> DEFINE r == [Idle EXCEPT !.op = "update", !.pc = "commit", !.inv = i, !.sheet = s,
                     !.seen = invoices[i].status, !.totals = invoices[i].totals]
  <2>1. Fresh(r)
    BY <1>2 DEF Fresh, Idle, UpdateLoad
  <2>2. work' = [work EXCEPT ![w] = r] /\ UNCHANGED Rows
    BY <1>2 DEF UpdateLoad, Begin
  <2> HIDE DEF r
  <2> QED
    BY <2>1, <2>2, ReadStep
<1>3. CASE CreateCommit(w)
  <2>1. CASE Refuse(w)
    BY <2>1, RefuseStep
  <2>2. CASE ~Refuse(w)
    <3> DEFINE row == [status |-> "DRAFT", totals |-> DocumentTotals(work[w].sheet),
                       imported |-> FALSE]
    <3>1. /\ invoices[work[w].inv].status = "NONE"
          /\ invoices' = [invoices EXCEPT ![work[w].inv] = row]
          /\ End(w) /\ UNCHANGED <<vouchers, journals, period>>
      BY <1>3, <2>2 DEF CreateCommit
    <3>2. row.status # "POSTED" /\ ~row.imported /\ work[w].inv \in Invoices
          /\ ~EnteredPosted(work[w].inv)
      BY <1>0, <3>1 DEF Request, EnteredPosted
    <3> HIDE DEF row
    <3> QED
      BY <3>1, <3>2, BooksOutside, EndFresh
  <2> QED
    BY <2>1, <2>2
<1>4. CASE UpdateCommit(w)
  <2> DEFINE i == work[w].inv
             row == [invoices[i] EXCEPT !.totals =
                        Overlay(invoices[i].totals, work[w].totals, DocumentTotals(work[w].sheet))]
  <2>0. i \in Invoices /\ invoices[i].status = "DRAFT"
    BY <1>0, <1>4 DEF Request, UpdateCommit, At, Fresh
  <2>1. ~EnteredPosted(i) /\ row.status = "DRAFT" /\ ~row.imported
    BY <1>0, <2>0 DEF InvoiceRow, EnteredPosted, Books
  <2>2. invoices' = [invoices EXCEPT ![i] = row] /\ End(w) /\ UNCHANGED <<vouchers, journals, period>>
    BY <1>4 DEF UpdateCommit, TypeOK
  <2> HIDE DEF row, i
  <2> QED
    BY <2>0, <2>1, <2>2, BooksOutside, EndFresh
<1>5. ASSUME NEW i \in Invoices, PostLoad(w, i)
      PROVE  Books' /\ Fresh(work[w])'
  <2> DEFINE r == [Idle EXCEPT !.op = "post", !.pc = "period", !.inv = i,
                     !.seen = invoices[i].status, !.totals = invoices[i].totals]
  <2>1. Fresh(r)
    BY <1>5 DEF Fresh, Idle, PostLoad
  <2>2. work' = [work EXCEPT ![w] = r] /\ UNCHANGED Rows
    BY <1>5 DEF PostLoad, Begin
  <2> HIDE DEF r
  <2> QED
    BY <2>1, <2>2, ReadStep
<1>6. ASSUME NEW i \in Invoices, CancelLoad(w, i)
      PROVE  Books' /\ Fresh(work[w])'
  <2> DEFINE r == [Idle EXCEPT !.op = "cancel", !.inv = i,
                     !.pc = IF invoices[i].status = "POSTED" THEN "period" ELSE "commit",
                     !.seen = invoices[i].status, !.totals = invoices[i].totals]
  <2>1. Fresh(r)
    BY <1>6 DEF Fresh, Idle, CancelLoad
  <2>2. work' = [work EXCEPT ![w] = r] /\ UNCHANGED Rows
    BY <1>6 DEF CancelLoad, Begin
  <2> HIDE DEF r
  <2> QED
    BY <2>1, <2>2, ReadStep
<1>7. CASE ExistingJournal(w)
  <2>1. CASE Refuse(w)
    BY <2>1, RefuseStep
  <2>2. CASE ~Refuse(w)
    <3> DEFINE found == PostedSuffixes(work[w].inv)
               r == [work[w] EXCEPT !.found = found,
                                    !.pc = IF work[w].op = "post" THEN "number" ELSE "commit"]
    <3>1. /\ work' = [work EXCEPT ![w] = r] /\ UNCHANGED Rows
          /\ work[w].op \in {"post", "cancel"} /\ work[w].pc = "existing"
      BY <1>0, <1>7, <2>2 DEF ExistingJournal, At, Request
    <3>2. /\ r.found = PostedSuffixes(r.inv) /\ r.inv = work[w].inv /\ r.op = work[w].op
          /\ r.totals = work[w].totals /\ r.seen = work[w].seen
      BY <1>0 DEF Request
    <3> HIDE DEF r, found
    <3>3. Fresh(r)
      BY <3>1, <3>2 DEF Fresh
    <3> QED
      BY <3>1, <3>3, ReadStep
  <2> QED
    BY <2>1, <2>2
<1>8. CASE GenerateNumber(w)
  <2>1. PICK n \in FreeSuffixes(work[w].inv) :
           work' = [work EXCEPT ![w].suffix = n, ![w].pc = "commit"]
    BY <1>8 DEF GenerateNumber
  <2> DEFINE r == [work[w] EXCEPT !.suffix = n, !.pc = "commit"]
  <2>2. work' = [work EXCEPT ![w] = r] /\ UNCHANGED Rows
        /\ work[w].op = "post" /\ work[w].pc = "number"
    BY <1>0, <1>8, <2>1 DEF TypeOK, GenerateNumber, At
  <2>3. /\ r.inv = work[w].inv /\ r.op = work[w].op
        /\ r.totals = work[w].totals /\ r.seen = work[w].seen
    BY <1>0 DEF Request
  <2> HIDE DEF r
  <2>4. Fresh(r)
    BY <2>2, <2>3 DEF Fresh
  <2> QED
    BY <2>2, <2>4, ReadStep
<1>9. CASE PostCommit(w)
  <2>1. CASE Refuse(w)
    BY <2>1, RefuseStep
  <2>2. CASE ~Refuse(w)
    <3> DEFINE i == work[w].inv
               n == work[w].suffix
               e == InvoiceEffect(Kind[i], work[w].totals)
    <3>1. /\ journals[<<i, n>>].status = "NONE"
          /\ journals' = [journals EXCEPT ![<<i, n>>] = [status |-> "POSTED", effect |-> e]]
          /\ invoices' = [invoices EXCEPT ![i].status = "POSTED"]
          /\ End(w) /\ UNCHANGED <<vouchers, period>>
      BY <1>9, <2>2 DEF PostCommit
    <3>2. i \in Invoices /\ n \in Suffixes
      BY <1>0 DEF Request
    <3>3. invoices[i].status = "DRAFT" /\ work[w].totals = invoices[i].totals
      BY <1>9 DEF PostCommit, At, Fresh
    <3>4. e = InvoiceEffect(Kind[i], invoices[i].totals)
      BY <3>3
    <3> HIDE DEF i, n, e
    <3> QED
      BY <3>1, <3>2, <3>3, <3>4, BooksPosted, EndFresh
  <2> QED
    BY <2>1, <2>2
<1>10. CASE CancelCommit(w)
  <2> DEFINE i == work[w].inv
  <2>1. /\ invoices' = [invoices EXCEPT ![i].status = "CANCELLED"]
        /\ journals' = [j \in Sources \X Suffixes |->
              IF \E n \in work[w].found : j = <<i, n>>
              THEN [journals[j] EXCEPT !.status = "CANCELLED"] ELSE journals[j]]
        /\ End(w) /\ UNCHANGED <<vouchers, period>>
        /\ work[w].op = "cancel" /\ work[w].pc = "commit"
    BY <1>10 DEF CancelCommit, At
  <2>2. i \in Invoices /\ invoices[i].status = work[w].seen
    BY <1>0, <2>1 DEF Request, Fresh
  <2>3. CASE EnteredPosted(i)
    <3>1. work[w].found = PostedSuffixes(i)
      BY <2>1, <2>2, <2>3 DEF Fresh, EnteredPosted
    <3> HIDE DEF i
    <3> QED
      BY <2>1, <2>2, <2>3, <3>1, BooksCancelled, EndFresh
  <2>4. CASE ~EnteredPosted(i)
    <3> DEFINE row == [invoices[i] EXCEPT !.status = "CANCELLED"]
    <3>1. work[w].found = {}
      <4>1. PostedSuffixes(i) = {}
        BY <2>2, <2>4 DEF Books, InBooks
      <4> QED
        BY <2>1, <4>1 DEF Fresh
    <3>2. journals' = journals
      BY <2>1, <3>1 DEF TypeOK
    <3>3. row.status = "CANCELLED"
      BY <1>0, <2>2 DEF InvoiceRow
    <3>4. invoices' = [invoices EXCEPT ![i] = row]
      BY <2>1
    <3> HIDE DEF row, i
    <3> QED
      BY <2>1, <2>2, <2>4, <3>2, <3>3, <3>4, BooksOutside, EndFresh
  <2> QED
    BY <2>3, <2>4
<1> QED
  BY <1>1, <1>2, <1>3, <1>4, <1>5, <1>6, <1>7, <1>8, <1>9, <1>10 DEF InvoiceStep, Reach

LEMMA SettledType == TypeOK => \A i \in Invoices : Settled(i) \in Nat
<1> SUFFICES ASSUME TypeOK, NEW i \in Invoices PROVE Settled(i) \in Nat
  OBVIOUS
<1> DEFINE f == [v \in Vouchers |-> vouchers[v].amount]
           S == {v \in Vouchers : vouchers[v].type = "SETTLEMENT" /\ vouchers[v].linked
                                    /\ vouchers[v].inv = i}
<1>1. \A v \in S : f[v] \in Nat
  BY DEF TypeOK, VoucherRow
<1>2. S \subseteq Vouchers
  OBVIOUS
<1>3. IsFiniteSet(S)
  <2> HIDE DEF S
  <2> QED
    BY <1>2, PostingAssumption, FS_Subset
<1>4. Settled(i) = SumOver(f, S)
  BY DEF Settled
<1> HIDE DEF f, S
<1> QED
  BY <1>1, <1>3, <1>4, SumNat

LEMMA VoucherStepSerial ==
    ASSUME LedgerInv, Books, NEW w \in Workers, Fresh(work[w]), VoucherStep(w)
    PROVE  Books' /\ Fresh(work[w])'
<1>0. TypeOK /\ UnusedVouchers /\ work \in [Workers -> Request] /\ work[w] \in Request
      /\ \A i \in Invoices : invoices[i] \in InvoiceRow
  BY DEF LedgerInv, TypeOK
<1>1. ASSUME NEW v \in Vouchers, NEW i \in Invoices, NEW linked \in BOOLEAN,
             NEW type \in {"SETTLEMENT", "REFUND"}, NEW a \in Amounts,
             SettleBegin(w, v, i, type, a, linked)
      PROVE  Books' /\ Fresh(work[w])'
  <2> DEFINE r == [Idle EXCEPT !.op = "settle", !.pc = "period", !.inv = i, !.voucher = v,
                               !.type = type, !.amount = a, !.linked = linked]
  <2>1. Fresh(r)
    BY DEF Fresh, Idle
  <2>2. work' = [work EXCEPT ![w] = r] /\ UNCHANGED Rows
    BY <1>1 DEF SettleBegin, Begin
  <2> HIDE DEF r
  <2> QED
    BY <1>0, <2>1, <2>2, ReadStep
<1>2. ASSUME NEW v \in Vouchers, NEW i \in Invoices, NEW linked \in BOOLEAN,
             NEW type \in {"CREDIT", "DEBIT"}, NEW s \in NoteSheets,
             NoteBegin(w, v, i, type, s, linked)
      PROVE  Books' /\ Fresh(work[w])'
  <2> DEFINE r == [Idle EXCEPT !.op = "note", !.pc = "period", !.inv = i, !.voucher = v,
                               !.type = type, !.sheet = s, !.linked = linked]
  <2>1. Fresh(r)
    BY DEF Fresh, Idle
  <2>2. work' = [work EXCEPT ![w] = r] /\ UNCHANGED Rows
    BY <1>2 DEF NoteBegin, Begin
  <2> HIDE DEF r
  <2> QED
    BY <1>0, <2>1, <2>2, ReadStep
<1>3. CASE SettleInvoice(w)
  <2> DEFINE i == work[w].inv
             limited == work[w].linked /\ invoices[i].status # "NONE"
             r == [work[w] EXCEPT !.totals = IF limited THEN invoices[i].totals ELSE @,
                                  !.pc = IF limited THEN "sum" ELSE "commit"]
  <2>1. /\ work' = [work EXCEPT ![w] = r] /\ UNCHANGED Rows
        /\ work[w].op = "settle" /\ work[w].pc = "invoice"
    BY <1>0, <1>3 DEF SettleInvoice, At
  <2>2. /\ r.inv = i /\ r.op = work[w].op /\ r.type = work[w].type /\ r.linked = work[w].linked
        /\ limited => r.totals = invoices[i].totals /\ r.pc = "sum"
        /\ ~limited => r.pc = "commit"
    BY <1>0 DEF Request
  <2> HIDE DEF r
  <2>3. Fresh(r)
    BY <2>1, <2>2 DEF Fresh
  <2> QED
    BY <1>0, <2>1, <2>3, ReadStep
<1>4. CASE SettleSum(w)
  <2>1. CASE Refuse(w)
    BY <1>0, <2>1, RefuseStep
  <2>2. CASE ~Refuse(w)
    <3> DEFINE r == [work[w] EXCEPT !.pc = "commit"]
    <3>1. /\ work' = [work EXCEPT ![w] = r] /\ UNCHANGED Rows
          /\ work[w].op = "settle" /\ work[w].pc = "sum"
          /\ ~(work[w].amount > work[w].totals.grand - Settled(work[w].inv))
      BY <1>0, <1>4, <2>2 DEF SettleSum, Continue, At
    <3>2. /\ r.inv = work[w].inv /\ r.op = work[w].op /\ r.type = work[w].type
          /\ r.amount = work[w].amount
      BY <1>0 DEF Request
    <3>3. work[w].inv \in Invoices /\ work[w].amount \in Nat /\ work[w].totals.grand \in Int
      BY <1>0 DEF Request, Totals
    <3>4. Settled(work[w].inv) \in Nat
      BY <1>0, <3>3, SettledType
    <3>5. work[w].amount <= work[w].totals.grand - Settled(work[w].inv)
      BY <3>1, <3>3, <3>4
    <3> HIDE DEF r
    <3>6. Fresh(r)
      <4>1. work[w].totals = invoices[work[w].inv].totals
        BY <3>1 DEF Fresh
      <4>2. r.amount <= invoices[r.inv].totals.grand - Settled(r.inv)
        BY <3>2, <3>5, <4>1
      <4>3. r.op = "settle" /\ r.type \in {"SETTLEMENT", "REFUND"} /\ r.pc = "commit"
            /\ period = "OPEN"
        BY <1>0, <3>1, <3>2 DEF Fresh, Request, r
      <4> QED
        BY <4>2, <4>3 DEF Fresh
    <3> QED
      BY <1>0, <3>1, <3>6, ReadStep
  <2> QED
    BY <2>1, <2>2
<1>5. CASE NoteInvoice(w)
  <2>1. CASE Refuse(w)
    BY <1>0, <2>1, RefuseStep
  <2>2. CASE ~Refuse(w)
    <3> DEFINE r == [work[w] EXCEPT !.pc = "commit"]
    <3>1. Continue(w, "commit") /\ UNCHANGED Rows /\ work[w].op = "note" /\ work[w].pc = "invoice"
      BY <1>5, <2>2 DEF NoteInvoice, At
    <3>2. work' = [work EXCEPT ![w] = r]
      BY <1>0, <3>1 DEF Continue
    <3>3. r.inv = work[w].inv /\ r.op = work[w].op /\ r.type = work[w].type
      BY <1>0 DEF Request
    <3> HIDE DEF r
    <3>4. Fresh(r)
      BY <3>1, <3>3 DEF Fresh
    <3> QED
      BY <1>0, <3>1, <3>2, <3>4, ReadStep
  <2> QED
    BY <2>1, <2>2
<1>6. CASE VoucherCommit(w)
  <2>1. CASE Refuse(w)
    BY <1>0, <2>1, RefuseStep
  <2>2. CASE ~Refuse(w)
    <3> DEFINE v == work[w].voucher
               settles == work[w].op = "settle"
               side == Side(work[w].type, Kind[work[w].inv])
               row == [type |-> work[w].type, inv |-> work[w].inv, linked |-> work[w].linked,
                       amount |-> IF settles THEN work[w].amount ELSE NoteTotal(work[w].sheet),
                       imported |-> FALSE]
               e == IF settles THEN SettlementEffect(side, work[w].amount)
                    ELSE NoteEffect(side, work[w].sheet)
    <3>1. /\ vouchers[v].type = "NONE"
          /\ vouchers' = [vouchers EXCEPT ![v] = row]
          /\ journals' = [journals EXCEPT ![<<v, 0>>] = [status |-> "POSTED", effect |-> e]]
          /\ End(w) /\ UNCHANGED <<invoices, period>>
      BY <1>6, <2>2 DEF VoucherCommit
    <3>2. /\ v \in Vouchers /\ work[w].inv \in Invoices /\ work[w].linked \in BOOLEAN
          /\ work[w].amount \in Nat /\ work[w].sheet \in Sheets /\ work[w].type \in VoucherType
      BY <1>0 DEF Request
    <3>3. NoteTotal(work[w].sheet) \in Nat
      BY <3>2, PostingAssumption DEF NoteTotal
    <3>4. row \in VoucherRow
      BY <3>2, <3>3 DEF VoucherRow
    <3>5. row.type # "NONE" /\ ~row.imported
      <4>1. At(w, {"settle", "note"}, "commit")
        BY <1>6 DEF VoucherCommit
      <4>2. work[w].op \in {"settle", "note"}
        BY <4>1 DEF At
      <4>3. row.type = work[w].type /\ row.imported = FALSE
        OBVIOUS
      <4> HIDE DEF v, settles, side, row, e
      <4> QED
        BY <4>2, <4>3 DEF Fresh
    <3>6. e \in Effects
      BY <3>2, EffectType
    <3>7. e.party = -Signed(Side(row.type, Kind[row.inv]), row.amount)
      BY <3>2, PartyShare
    <3> HIDE DEF v, settles, side, row, e
    <3> QED
      BY <1>0, <3>1, <3>2, <3>4, <3>5, <3>6, <3>7, BooksVoucher, EndFresh
  <2> QED
    BY <2>1, <2>2
<1> QED
  BY <1>1, <1>2, <1>3, <1>4, <1>5, <1>6 DEF VoucherStep, Reach

LEMMA PeriodStepSerial ==
    ASSUME TypeOK, Books, NEW w \in Workers, Fresh(work[w]), PeriodStep(w)
    PROVE  Books' /\ Fresh(work[w])'
<1>0. work \in [Workers -> Request] /\ work[w] \in Request
  BY DEF TypeOK
<1>1. CASE AssertPeriodOpen(w)
  <2>1. CASE Refuse(w)
    BY <2>1, RefuseStep
  <2>2. CASE ~Refuse(w)
    <3> DEFINE pc == IF work[w].op \in {"post", "cancel"} THEN "existing" ELSE "invoice"
               r == [work[w] EXCEPT !.pc = pc]
    <3>1. /\ Continue(w, pc) /\ UNCHANGED Rows /\ period = "OPEN"
          /\ work[w].op \in {"post", "cancel", "settle", "note"} /\ work[w].pc = "period"
      BY <1>1, <2>2 DEF AssertPeriodOpen, At
    <3>2. work' = [work EXCEPT ![w] = r]
      BY <1>0, <3>1 DEF Continue
    <3>3. /\ r.inv = work[w].inv /\ r.op = work[w].op /\ r.type = work[w].type
          /\ r.seen = work[w].seen /\ r.totals = work[w].totals
          /\ r.pc \in {"existing", "invoice"}
      BY <1>0 DEF Request
    <3> HIDE DEF r, pc
    <3>4. Fresh(r)
      BY <3>1, <3>3 DEF Fresh
    <3> QED
      BY <3>1, <3>2, <3>4, ReadStep
  <2> QED
    BY <2>1, <2>2
<1>2. ASSUME NEW to \in PeriodStatus, PeriodLoad(w, to)
      PROVE  Books' /\ Fresh(work[w])'
  <2> DEFINE r == [Idle EXCEPT !.op = "period", !.pc = "commit", !.to = to]
  <2>1. Fresh(r)
    BY DEF Fresh, Idle
  <2>2. work' = [work EXCEPT ![w] = r] /\ UNCHANGED Rows
    BY <1>2 DEF PeriodLoad, Begin
  <2> HIDE DEF r
  <2> QED
    BY <2>1, <2>2, ReadStep
<1>3. CASE PeriodCommit(w)
  BY <1>3, BooksUnread, EndFresh DEF PeriodCommit
<1> QED
  BY <1>1, <1>2, <1>3 DEF PeriodStep

\* Between the requests, an import; the worker stays idle.
LEMMA ImportStepSerial ==
    ASSUME TypeOK, Books, NEW w \in Workers, Fresh(work[w]), ImportStep(w)
    PROVE  Books' /\ Fresh(work[w])'
<1>1. ASSUME NEW i \in Invoices, NEW s \in ImportSheets, ImportInvoice(w, i, s)
      PROVE  Books'
  <2> DEFINE row == [status |-> "POSTED", totals |-> ImportedTotals(s), imported |-> TRUE]
  <2>1. ~EnteredPosted(i) /\ row.imported /\ row.status # "DRAFT"
    BY <1>1 DEF ImportInvoice, EnteredPosted
  <2>2. invoices' = [invoices EXCEPT ![i] = row] /\ UNCHANGED <<vouchers, journals>>
    BY <1>1 DEF ImportInvoice
  <2> HIDE DEF row
  <2> QED
    BY <2>1, <2>2, BooksOutside
<1>2. ASSUME NEW i \in Invoices, NEW v \in Vouchers, NEW a \in Amounts, ImportVoucher(w, v, i, a)
      PROVE  Books'
  <2> DEFINE row == [type |-> "SETTLEMENT", inv |-> i, linked |-> FALSE, amount |-> a,
                     imported |-> TRUE]
  <2>1. /\ vouchers[v].type = "NONE" /\ row.imported
        /\ vouchers' = [vouchers EXCEPT ![v] = row] /\ UNCHANGED <<invoices, journals>>
    BY <1>2 DEF ImportVoucher
  <2> HIDE DEF row
  <2> QED
    BY <2>1, BooksImportedVoucher
<1>3. Books'
  BY <1>1, <1>2 DEF ImportStep, Reach
<1>4. Fresh(work[w])'
  BY EndFresh DEF ImportStep, ImportInvoice, ImportVoucher
<1> QED
  BY <1>3, <1>4

LEMMA SerialInvariant == Spec => []SerialInv
<1>1. Init => SerialInv
  <2> SUFFICES ASSUME Init PROVE SerialInv
    OBVIOUS
  <2>1. \A i \in Invoices : InBooks(i)
    BY DEF Init, InBooks, EnteredPosted, PostedSuffixes, Sources
  <2>im. \A i \in Invoices : ~invoices[i].imported
    BY DEF Init
  <2>2. PartyBalance = OpenInvoices - AgainstThem
    <3> DEFINE f == [j \in Sources \X Suffixes |-> journals[j].effect.party]
               g == [i \in Invoices |-> Signed(Kind[i], invoices[i].totals.grand)]
               h == [v \in Vouchers |-> Signed(Side(vouchers[v].type, Kind[vouchers[v].inv]),
                                               vouchers[v].amount)]
    <3>1. /\ {j \in Sources \X Suffixes : journals[j].status = "POSTED"} = {}
          /\ {i \in Invoices : EnteredPosted(i)} = {}
          /\ {v \in Vouchers : vouchers[v].type # "NONE" /\ ~vouchers[v].imported} = {}
      BY DEF Init, EnteredPosted
    <3>2. /\ PartyBalance = SumOver(f, {}) /\ OpenInvoices = SumOver(g, {})
          /\ AgainstThem = SumOver(h, {})
      BY <3>1 DEF PartyBalance, OpenInvoices, AgainstThem
    <3>3. PartyBalance = 0 /\ OpenInvoices = 0 /\ AgainstThem = 0
      BY <3>2, SumEmpty
    <3> QED
      BY <3>3
  <2>3. ASSUME NEW w \in Workers, work[w].pc # "off" PROVE Fresh(work[w])
    <3>1. work[w] = Idle
      BY <2>3 DEF Init, Off, Idle
    <3> QED
      BY <3>1, IdleFresh
  <2> QED
    BY <2>1, <2>im, <2>2, <2>3 DEF SerialInv, Books
<1>2. LedgerInv /\ SerialInv /\ [Next]_vars => SerialInv'
  <2> SUFFICES ASSUME LedgerInv, SerialInv, [Next]_vars, Serial'
               PROVE  Books' /\ \A w \in Workers : work'[w].pc # "off" => Fresh(work[w])'
    BY DEF SerialInv
  <2>0. TypeOK /\ Serial /\ Books /\ \A w \in Workers : work[w].pc # "off" => Fresh(work[w])
    BY SerialStays DEF LedgerInv, SerialInv
  <2>1. CASE UNCHANGED vars
    BY <2>0, <2>1, BooksUnread DEF vars, Fresh, Settled, PostedSuffixes
  <2>2. CASE Next
    <3> SUFFICES ASSUME NEW w \in Workers, InvoiceStep(w) \/ VoucherStep(w) \/ PeriodStep(w) \/ ImportStep(w)
                 PROVE  Books' /\ \A x \in Workers : work'[x].pc # "off" => Fresh(work[x])'
      BY <2>2 DEF Next
    <3>1. Fresh(work[w]) /\ \A x \in Workers \ {w} : work'[x].pc = "off"
      BY <2>0, StepOfOne, OthersOff
    <3>2. Books' /\ Fresh(work[w])'
      BY <2>0, <3>1, InvoiceStepSerial, VoucherStepSerial, PeriodStepSerial, ImportStepSerial
    <3> QED
      BY <3>1, <3>2
  <2> QED
    BY <2>1, <2>2
<1> QED
  BY <1>1, <1>2, LedgerInvariant, PTL DEF Spec

\* While requests follow one another, imports among them, an invoice that was entered is in
\* the books exactly while it is posted, with the totals it has, and an imported one never is.
THEOREM JournalsMirrorInvoices == Spec => []JournalMirrorsInvoice
<1>1. SerialInv => JournalMirrorsInvoice
  BY DEF SerialInv, Books, JournalMirrorsInvoice
<1> QED
  BY <1>1, SerialInvariant, PTL

\* And the control account is the open entered invoices less the entered vouchers, for any
\* number of them: exactly what was imported is missing from it.
THEOREM ControlAccountAlwaysAgrees == Spec => []ControlAccountAgrees
<1>1. SerialInv => ControlAccountAgrees
  BY DEF SerialInv, Books, ControlAccountAgrees
<1> QED
  BY <1>1, SerialInvariant, PTL

-----------------------------------------------------------------------------
Frozen ==
    Serial /\ period # "OPEN" =>
          \A j \in Sources \X Suffixes :
             (journals[j].status = "POSTED") <=> (journals'[j].status = "POSTED")

LEMMA WriteSteps ==
    ASSUME NEW w, InvoiceStep(w) \/ VoucherStep(w) \/ PeriodStep(w) \/ ImportStep(w)
    PROVE  \/ UNCHANGED <<vouchers, journals>>
           \/ UNCHANGED vouchers /\ (PostCommit(w) \/ CancelCommit(w))
           \/ VoucherCommit(w) /\ ~Refuse(w)
           \/ ImportStep(w) /\ UNCHANGED journals
<1>1. Refuse(w) => UNCHANGED <<vouchers, journals>>
  BY DEF Refuse, Rows
<1>2. CASE InvoiceStep(w)
  <2>1. ASSUME NEW i \in Invoices, NEW s \in Sheets, CreateLoad(w, i, s) \/ UpdateLoad(w, i, s)
        PROVE  UNCHANGED <<vouchers, journals>>
    BY <2>1 DEF CreateLoad, UpdateLoad, Begin, Rows
  <2>2. ASSUME NEW i \in Invoices, PostLoad(w, i) \/ CancelLoad(w, i)
        PROVE  UNCHANGED <<vouchers, journals>>
    BY <2>2 DEF PostLoad, CancelLoad, Begin, Rows
  <2>3. CreateCommit(w) \/ UpdateCommit(w) => UNCHANGED <<vouchers, journals>>
    BY <1>1 DEF CreateCommit, UpdateCommit, Refuse, Rows
  <2>4. ExistingJournal(w) \/ GenerateNumber(w) => UNCHANGED <<vouchers, journals>>
    BY <1>1 DEF ExistingJournal, GenerateNumber, Rows
  <2>5. PostCommit(w) \/ CancelCommit(w) => UNCHANGED vouchers
    BY <1>1 DEF PostCommit, CancelCommit
  <2> QED
    BY <1>2, <2>1, <2>2, <2>3, <2>4, <2>5 DEF InvoiceStep, Reach
<1>3. CASE VoucherStep(w)
  <2>1. ASSUME NEW v \in Vouchers, NEW i \in Invoices, NEW linked \in BOOLEAN,
               NEW type \in {"SETTLEMENT", "REFUND"}, NEW a \in Amounts,
               SettleBegin(w, v, i, type, a, linked)
        PROVE  UNCHANGED <<vouchers, journals>>
    BY <2>1 DEF SettleBegin, Begin, Rows
  <2>2. ASSUME NEW v \in Vouchers, NEW i \in Invoices, NEW linked \in BOOLEAN,
               NEW type \in {"CREDIT", "DEBIT"}, NEW s \in NoteSheets,
               NoteBegin(w, v, i, type, s, linked)
        PROVE  UNCHANGED <<vouchers, journals>>
    BY <2>2 DEF NoteBegin, Begin, Rows
  <2>3. SettleInvoice(w) \/ SettleSum(w) \/ NoteInvoice(w) => UNCHANGED <<vouchers, journals>>
    BY <1>1 DEF SettleInvoice, SettleSum, NoteInvoice, Rows
  <2> QED
    BY <1>1, <1>3, <2>1, <2>2, <2>3 DEF VoucherStep, Reach
<1>4. CASE PeriodStep(w)
  BY <1>1, <1>4 DEF PeriodStep, AssertPeriodOpen, PeriodLoad, PeriodCommit, Begin, Rows
<1>5. CASE ImportStep(w)
  BY <1>5 DEF ImportStep, ImportInvoice, ImportVoucher
<1> QED
  BY <1>2, <1>3, <1>4, <1>5

\* A worker alone that has got as far as its commit found the period open, and it still is.
LEMMA FrozenStep ==
    ASSUME TypeOK, NEW w \in Workers, Fresh(work[w]),
           InvoiceStep(w) \/ VoucherStep(w) \/ PeriodStep(w) \/ ImportStep(w)
    PROVE  period # "OPEN" => \A j \in Sources \X Suffixes :
              (journals[j].status = "POSTED") <=> (journals'[j].status = "POSTED")
<1> SUFFICES ASSUME period # "OPEN", ~UNCHANGED journals PROVE FALSE
  OBVIOUS
<1>1. ~PostCommit(w)
  BY DEF PostCommit, At, Fresh
<1>2. ~VoucherCommit(w)
  BY DEF VoucherCommit, At, Fresh
<1>3. CASE CancelCommit(w)
  <2>1. work[w].found = {}
    BY <1>3 DEF CancelCommit, At, Fresh
  <2>2. journals' = journals
    BY <1>3, <2>1 DEF CancelCommit, TypeOK
  <2> QED
    BY <2>2
<1> QED
  BY <1>1, <1>2, <1>3, WriteSteps

\* Nothing posted changes in a closed period, one request after the other.
THEOREM ClosedPeriodStaysFrozen == Spec => ClosedPeriodFrozen
<1>1. LedgerInv /\ SerialInv /\ [Next]_vars => [Frozen]_vars
  <2> SUFFICES ASSUME LedgerInv, SerialInv, Next, Serial, period # "OPEN"
               PROVE  \A j \in Sources \X Suffixes :
                         (journals[j].status = "POSTED") <=> (journals'[j].status = "POSTED")
    BY DEF Frozen
  <2>1. PICK w \in Workers : InvoiceStep(w) \/ VoucherStep(w) \/ PeriodStep(w) \/ ImportStep(w)
    BY DEF Next
  <2>2. TypeOK /\ Fresh(work[w])
    BY <2>1, StepOfOne DEF LedgerInv, SerialInv
  <2> QED
    BY <2>1, <2>2, FrozenStep
<1> QED
  BY <1>1, LedgerInvariant, SerialInvariant, PTL DEF Spec, ClosedPeriodFrozen, Frozen

Within ==
    \A i \in Invoices :
          (Serial /\ invoices[i].status # "NONE" /\ Settled(i)' > Settled(i))
             => Settled(i)' <= invoices[i].totals.grand

\* The sum of the settlements of i after a voucher was inserted.
LEMMA SettledAfter ==
    ASSUME TypeOK, NEW i \in Invoices, NEW v \in Vouchers, NEW row \in VoucherRow,
           vouchers[v].type = "NONE", vouchers' = [vouchers EXCEPT ![v] = row]
    PROVE  Settled(i)' = IF row.type = "SETTLEMENT" /\ row.linked /\ row.inv = i
                         THEN Settled(i) + row.amount ELSE Settled(i)
<1> DEFINE f == [x \in Vouchers |-> vouchers[x].amount]
           S == {x \in Vouchers : vouchers[x].type = "SETTLEMENT" /\ vouchers[x].linked
                                    /\ vouchers[x].inv = i}
           counts == row.type = "SETTLEMENT" /\ row.linked /\ row.inv = i
<1>0. vouchers'[v] = row /\ \A x \in Vouchers \ {v} : vouchers'[x] = vouchers[x]
  BY DEF TypeOK
<1>1. v \notin S /\ S \subseteq Vouchers
  OBVIOUS
<1>2. IsFiniteSet(S)
  <2> HIDE DEF S
  <2> QED
    BY <1>1, PostingAssumption, FS_Subset
<1>3. \A x \in S : f[x] \in Int /\ f'[x] = f[x]
  BY <1>0 DEF TypeOK, VoucherRow
<1>4. f'[v] = row.amount /\ f'[v] \in Int
  BY <1>0 DEF VoucherRow
<1>5. S' = IF counts THEN S \cup {v} ELSE S
  BY <1>0
<1>6. Settled(i) = SumOver(f, S) /\ Settled(i)' = SumOver(f', S')
  BY DEF Settled
<1>7. CASE counts
  <2> HIDE DEF f, S
  <2>1. SumOver(f', S \cup {v}) = SumOver(f, S) + f'[v]
    BY <1>1, <1>2, <1>3, <1>4, SumOneMore
  <2> QED
    BY <1>4, <1>5, <1>6, <1>7, <2>1
<1>8. CASE ~counts
  <2> HIDE DEF f, S
  <2>1. SumOver(f', S) = SumOver(f, S)
    BY <1>2, <1>3, SumSame
  <2> QED
    BY <1>5, <1>6, <1>8, <2>1
<1> QED
  BY <1>7, <1>8

LEMMA WithinStep ==
    ASSUME TypeOK, NEW w \in Workers, Fresh(work[w]),
           InvoiceStep(w) \/ VoucherStep(w) \/ PeriodStep(w) \/ ImportStep(w),
           NEW i \in Invoices, invoices[i].status # "NONE", Settled(i)' > Settled(i)
    PROVE  Settled(i)' <= invoices[i].totals.grand
<1>0. work[w] \in Request /\ Settled(i) \in Nat /\ invoices[i] \in InvoiceRow
  BY SettledType DEF TypeOK
<1>1. VoucherCommit(w) /\ ~Refuse(w)
  <2>0. ~ImportStep(w)
    <3> SUFFICES ASSUME ImportStep(w) PROVE Settled(i)' = Settled(i)
      BY <1>0
    <3>1. CASE UNCHANGED vouchers
      BY <3>1 DEF Settled
    <3>2. ASSUME NEW x \in Invoices, NEW v \in Vouchers, NEW a \in Amounts,
                 ImportVoucher(w, v, x, a)
          PROVE  Settled(i)' = Settled(i)
      <4> DEFINE row == [type |-> "SETTLEMENT", inv |-> x, linked |-> FALSE, amount |-> a,
                         imported |-> TRUE]
      <4>1. /\ vouchers[v].type = "NONE" /\ vouchers' = [vouchers EXCEPT ![v] = row]
            /\ row \in VoucherRow /\ ~row.linked
        BY <3>2, PostingAssumption DEF ImportVoucher, VoucherRow, VoucherType
      <4> HIDE DEF row
      <4> QED
        BY <4>1, SettledAfter
    <3> QED
      BY <3>1, <3>2 DEF ImportStep, ImportInvoice, Reach
  <2>1. UNCHANGED vouchers => Settled(i)' = Settled(i)
    BY DEF Settled
  <2>2. ~UNCHANGED vouchers
    BY <1>0, <2>1
  <2>3. PostCommit(w) \/ CancelCommit(w) => UNCHANGED vouchers
    BY DEF PostCommit, CancelCommit, Refuse, Rows
  <2> QED
    BY <2>0, <2>2, <2>3, WriteSteps
<1> DEFINE row == [type |-> work[w].type, inv |-> work[w].inv, linked |-> work[w].linked,
                   amount |-> IF work[w].op = "settle" THEN work[w].amount
                              ELSE NoteTotal(work[w].sheet), imported |-> FALSE]
<1>2. /\ vouchers[work[w].voucher].type = "NONE"
      /\ vouchers' = [vouchers EXCEPT ![work[w].voucher] = row]
  BY <1>1 DEF VoucherCommit
<1>3. /\ work[w].voucher \in Vouchers /\ work[w].inv \in Invoices /\ work[w].linked \in BOOLEAN
      /\ work[w].amount \in Nat /\ work[w].sheet \in Sheets /\ work[w].type \in VoucherType
  BY <1>0 DEF Request
<1>4. NoteTotal(work[w].sheet) \in Nat
  BY <1>3, PostingAssumption DEF NoteTotal
<1>5. row \in VoucherRow
  BY <1>3, <1>4 DEF VoucherRow
<1>6. /\ row.type = work[w].type /\ row.inv = work[w].inv /\ row.linked = work[w].linked
      /\ work[w].op = "settle" => row.amount = work[w].amount
  OBVIOUS
<1> HIDE DEF row
<1>7. /\ row.type = "SETTLEMENT" /\ row.linked /\ row.inv = i
      /\ Settled(i)' = Settled(i) + row.amount
  <2>1. Settled(i)' = IF row.type = "SETTLEMENT" /\ row.linked /\ row.inv = i
                      THEN Settled(i) + row.amount ELSE Settled(i)
    BY <1>2, <1>3, <1>5, SettledAfter
  <2>2. ~(Settled(i) > Settled(i))
    BY <1>0
  <2> QED
    BY <2>1, <2>2
<1>8. work[w].op = "settle" /\ work[w].pc = "commit"
  BY <1>1, <1>6, <1>7 DEF VoucherCommit, At, Fresh
<1>9. work[w].amount <= invoices[i].totals.grand - Settled(i)
  BY <1>6, <1>7, <1>8 DEF Fresh
<1> QED
  BY <1>0, <1>3, <1>6, <1>7, <1>8, <1>9 DEF InvoiceRow, Totals

\* A receipt never takes an invoice's settlements past its grand total, one request after
\* the other.
THEOREM SettlementsStayWithinBalance == Spec => SettlementWithinBalance
<1>1. LedgerInv /\ SerialInv /\ [Next]_vars => [Within]_vars
  <2> SUFFICES ASSUME LedgerInv, SerialInv, Next, Serial, NEW i \in Invoices,
                      invoices[i].status # "NONE", Settled(i)' > Settled(i)
               PROVE  Settled(i)' <= invoices[i].totals.grand
    BY DEF Within
  <2>1. PICK w \in Workers : InvoiceStep(w) \/ VoucherStep(w) \/ PeriodStep(w) \/ ImportStep(w)
    BY DEF Next
  <2>2. TypeOK /\ Fresh(work[w])
    BY <2>1, StepOfOne DEF LedgerInv, SerialInv
  <2> QED
    BY <2>1, <2>2, WithinStep
<1> QED
  BY <1>1, LedgerInvariant, SerialInvariant, PTL DEF Spec, SettlementWithinBalance, Within

-----------------------------------------------------------------------------
(* What the documentation says of POSTED, one request after the other.       *)

LEMMA InvoiceWrites ==
    ASSUME NEW w, InvoiceStep(w) \/ VoucherStep(w) \/ PeriodStep(w) \/ ImportStep(w), invoices' # invoices
    PROVE  /\ ~Refuse(w)
           /\ \/ CreateCommit(w) \/ UpdateCommit(w) \/ PostCommit(w) \/ CancelCommit(w)
              \/ \E i \in Invoices, s \in ImportSheets : ImportInvoice(w, i, s)
<1>1. ~Refuse(w)
  BY DEF Refuse, Rows
<1>2. CASE InvoiceStep(w)
  <2>1. ASSUME NEW i \in Invoices, NEW s \in Sheets, CreateLoad(w, i, s) \/ UpdateLoad(w, i, s)
        PROVE  FALSE
    BY <2>1 DEF CreateLoad, UpdateLoad, Rows
  <2>2. ASSUME NEW i \in Invoices, PostLoad(w, i) \/ CancelLoad(w, i) PROVE FALSE
    BY <2>2 DEF PostLoad, CancelLoad, Rows
  <2>3. ~ExistingJournal(w) /\ ~GenerateNumber(w)
    BY <1>1 DEF ExistingJournal, GenerateNumber, Rows
  <2> QED
    BY <1>1, <1>2, <2>1, <2>2, <2>3 DEF InvoiceStep, Reach
<1>3. ~VoucherStep(w)
  <2>1. ASSUME NEW v \in Vouchers, NEW i \in Invoices, NEW linked \in BOOLEAN, NEW type, NEW x,
               SettleBegin(w, v, i, type, x, linked) \/ NoteBegin(w, v, i, type, x, linked)
        PROVE  FALSE
    BY <2>1 DEF SettleBegin, NoteBegin, Rows
  <2>2. ~SettleInvoice(w) /\ ~SettleSum(w) /\ ~NoteInvoice(w) /\ ~VoucherCommit(w)
    BY <1>1 DEF SettleInvoice, SettleSum, NoteInvoice, VoucherCommit, Rows
  <2> QED
    BY <2>1, <2>2 DEF VoucherStep, Reach
<1>4. ~PeriodStep(w)
  BY <1>1 DEF PeriodStep, AssertPeriodOpen, PeriodLoad, PeriodCommit, Rows
<1>5. CASE ImportStep(w)
  BY <1>1, <1>5 DEF ImportStep, ImportVoucher, Reach
<1> QED
  BY <1>1, <1>2, <1>3, <1>4, <1>5

\* An update that runs alone writes over the DRAFT it loaded.
LEMMA TotalsKept ==
    ASSUME TypeOK, NEW w \in Workers, Fresh(work[w]), NEW i \in Invoices,
           InvoiceStep(w) \/ VoucherStep(w) \/ PeriodStep(w) \/ ImportStep(w), invoices[i].status = "POSTED"
    PROVE  invoices'[i].totals = invoices[i].totals
<1> SUFFICES ASSUME invoices' # invoices PROVE invoices'[i].totals = invoices[i].totals
  OBVIOUS
<1>1. CASE CreateCommit(w)
  BY <1>1, InvoiceWrites DEF CreateCommit, TypeOK
<1>2. CASE UpdateCommit(w)
  <2>1. invoices[work[w].inv].status = "DRAFT"
    BY <1>2 DEF UpdateCommit, At, Fresh
  <2> QED
    BY <1>2, <2>1 DEF UpdateCommit, TypeOK
<1>3. CASE PostCommit(w) \/ CancelCommit(w)
  <2>1. \E status : invoices' = [invoices EXCEPT ![work[w].inv].status = status]
    BY <1>3, InvoiceWrites DEF PostCommit, CancelCommit
  <2> QED
    BY <2>1 DEF TypeOK, InvoiceRow
<1>4. ASSUME NEW x \in Invoices, NEW s \in ImportSheets, ImportInvoice(w, x, s)
      PROVE  invoices'[i].totals = invoices[i].totals
  BY <1>4 DEF ImportInvoice, TypeOK
<1> QED
  BY <1>1, <1>2, <1>3, <1>4, InvoiceWrites

\* TransactionStatus: a posted invoice is never edited.  It takes an update that overlaps the
\* posting to break it (the run `posted`): while requests are served one at a time the totals
\* of a posted invoice never change.
THEOREM PostedKeptInOrder == Spec /\ []Serial => PostedNeverEdited
<1> DEFINE Kept == \A i \in Invoices : invoices[i].status = "POSTED" =>
                     invoices'[i].totals = invoices[i].totals
<1>1. LedgerInv /\ SerialInv /\ Serial /\ [Next]_vars => [Kept]_vars
  <2> SUFFICES ASSUME LedgerInv, SerialInv, Serial, Next PROVE Kept
    OBVIOUS
  <2>1. PICK w \in Workers : InvoiceStep(w) \/ VoucherStep(w) \/ PeriodStep(w) \/ ImportStep(w)
    BY DEF Next
  <2>2. TypeOK /\ Fresh(work[w])
    BY <2>1, StepOfOne DEF LedgerInv, SerialInv
  <2> QED
    BY <2>1, <2>2, TotalsKept
<1>2. Spec /\ []Serial => [][Kept]_vars
  BY <1>1, LedgerInvariant, SerialInvariant, PTL DEF Spec
<1> QED
  BY <1>2 DEF PostedNeverEdited

=============================================================================
