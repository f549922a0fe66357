---------------------------- MODULE TdsPayments ----------------------------
(***************************************************************************)
(* TDS deductions, the challans that pay them, the allocation of one to    *)
(* the other, and the reconciliation run that compares the two.            *)
(*                                                                         *)
(* As in LedgerPosting a worker is one request with a session of its own:  *)
(* every SELECT is a step, the writes become visible together in a commit  *)
(* step, and an UPDATE writes only the columns that differ from what was   *)
(* loaded, whatever the row holds by then.  Allocations are only ever      *)
(* inserted, so the two sums the code computes over them are kept as       *)
(* running totals.  Init chooses the crew of workers that are on.          *)
(***************************************************************************)
EXTENDS Money

CONSTANTS
    Workers,      \* requests in flight at one time
    Challans,     \* challan numbers of one company and financial year
    Txns,         \* TDS transactions of the same financial year
    Amounts,      \* what a payload asks for a challan or an allocation, in tenths of a paisa
    TdsAmounts,   \* paise of TDS the rule engine, an override or an import can arrive at
    Alone,        \* bound: what a single worker works on, and how many runs it starts
    Contended     \* bound: the same for several workers

Scopes == [challans : SUBSET Challans, txns : SUBSET Txns, amounts : SUBSET Amounts,
           tds : SUBSET TdsAmounts, runs : Nat]

ASSUME PaymentAssumption ==
    /\ Amounts \subseteq Nat \ {0}
    /\ TdsAmounts \subseteq Nat
    /\ Alone \in Scopes /\ Contended \in Scopes
    /\ Challans # {} /\ Txns # {}

VARIABLES
    challans,     \* tds_challans rows
    txns,         \* tds_transactions rows
    challanSum,   \* sum of the allocations of a challan
    txnSum,       \* sum of the allocations to a transaction
    links,        \* the pairs <<challan, transaction>> with an allocation
    findings,     \* tds_payment_reconciliations rows
    runs,         \* reconciliation runs started
    work          \* the requests in flight

vars == <<challans, txns, challanSum, txnSum, links, findings, runs, work>>
Rows == <<challans, txns, challanSum, txnSum, links, findings, runs>>

-----------------------------------------------------------------------------
ChallanStatus == {"NONE", "DRAFT", "GENERATED", "PAID", "RECONCILED", "CANCELLED"}
TxnStatus == {"NONE", "DRAFT", "CALCULATED", "REVIEW_REQUIRED", "DEDUCTED", "PAID", "CANCELLED"}

Transitions ==          \* _ALLOWED_STATUS_TRANSITIONS
    [s \in ChallanStatus |->
        IF s = "DRAFT" THEN {"GENERATED", "CANCELLED"}
        ELSE IF s = "GENERATED" THEN {"PAID", "CANCELLED"}
        ELSE IF s = "PAID" THEN {"CANCELLED"} ELSE {}]

\* Mutant of CalculableFrom: a DEDUCTED transaction can be recalculated.
CalculableUntilPaid == {"DRAFT", "CALCULATED", "REVIEW_REQUIRED", "DEDUCTED"}
CalculableFrom == {"DRAFT", "CALCULATED", "REVIEW_REQUIRED"}
CancellableFrom == {"DRAFT", "CALCULATED"}
AllocatableTo == {"DEDUCTED", "PAID"}

ChallanRow == [status : ChallanStatus, amount : Nat]
TxnRow == [status : TxnStatus, tds : Nat]
NoChallan == [status |-> "NONE", amount |-> 0]
NoTxn == [status |-> "NONE", tds |-> 0]

FindingStatus == {"MATCHED", "PARTIALLY_MATCHED", "AMOUNT_MISMATCH", "MISSING_CHALLAN",
                  "UNALLOCATED_PAYMENT"}
FindingRow == [run : Nat, about : Challans \cup Txns, status : FindingStatus]

Ops == {"none", "txn", "edit", "allocate", "reconcile"}
PCs == {"off", "idle", "sum", "txn", "challanSum", "txnSum", "clear", "list", "txns", "challans",
        "commit"}

\* A request: the rows its session has loaded, the sum it read, and its payload.
Request ==
    [op : Ops, pc : PCs, challan : Challans, txn : Txns,
     challans : [Challans -> ChallanRow], txns : [Txns -> TxnRow], txnSum : Nat,
     amount : Nat, status : ChallanStatus, newTxn : TxnRow,
     run : Nat, cleared : SUBSET FindingRow, found : SUBSET FindingRow,
     todo : SUBSET (Challans \cup Txns), settled : SUBSET Challans]

Idle == [op |-> "none", pc |-> "idle",
         challan |-> CHOOSE c \in Challans : TRUE, txn |-> CHOOSE t \in Txns : TRUE,
         challans |-> [c \in Challans |-> NoChallan], txns |-> [t \in Txns |-> NoTxn],
         txnSum |-> 0, amount |-> 0, status |-> "NONE", newTxn |-> NoTxn,
         run |-> 0, cleared |-> {}, found |-> {}, todo |-> {}, settled |-> {}]
Off == [Idle EXCEPT !.pc = "off"]      \* a worker outside the crew, for good

\* The crew is a single worker: a request begins when the one before has ended.
Serial == \A v, w \in Workers : work[v].pc # "off" /\ work[w].pc # "off" => v = w
Scope == IF Serial THEN Alone ELSE Contended

Begin(w, r) == work' = [work EXCEPT ![w] = r]
End(w) == work' = [work EXCEPT ![w] = Idle]
At(w, op, pc) == work[w].op = op /\ work[w].pc = pc
IsIdle(w) == work[w].pc = "idle"
Refuse(w) == End(w) /\ UNCHANGED Rows     \* an exception: the session rolls back

\* What an UPDATE of the columns changed from `loaded` to `new` makes of the row `now`.
OverlayChallan(now, loaded, new) ==
    [status |-> IF new.status = loaded.status THEN now.status ELSE new.status,
     amount |-> IF new.amount = loaded.amount THEN now.amount ELSE new.amount]
OverlayTxn(now, loaded, new) ==
    [status |-> IF new.status = loaded.status THEN now.status ELSE new.status,
     tds    |-> IF new.tds = loaded.tds THEN now.tds ELSE new.tds]

Init ==
    /\ challans = [c \in Challans |-> NoChallan]
    /\ txns = [t \in Txns |-> NoTxn]
    /\ challanSum = [c \in Challans |-> 0]
    /\ txnSum = [t \in Txns |-> 0]
    /\ links = {}
    /\ findings = {}
    /\ runs = 0
    /\ \E crew \in (SUBSET Workers) \ {{}} :
          work = [w \in Workers |-> IF w \in crew THEN Idle ELSE Off]

-----------------------------------------------------------------------------
(* TDS transactions                                                         *)

\* An insert nobody else can see before it commits is one step.
TxnCreate(w, t) ==
    /\ IsIdle(w)
    /\ txns[t].status = "NONE"
    /\ txns' = [txns EXCEPT ![t] = [status |-> "DRAFT", tds |-> 0]]
    /\ UNCHANGED <<challans, challanSum, txnSum, links, findings, runs, work>>

\* A TDS import inserts its rows as already deducted.
TxnImport(w, t, d) ==
    /\ IsIdle(w)
    /\ txns[t].status = "NONE"
    /\ txns' = [txns EXCEPT ![t] = [status |-> "DEDUCTED", tds |-> d]]
    /\ UNCHANGED <<challans, challanSum, txnSum, links, findings, runs, work>>

LoadTxn(w, t, new) ==
    /\ IsIdle(w)
    /\ Begin(w, [Idle EXCEPT !.op = "txn", !.pc = "commit", !.txn = t,
                             !.txns[t] = txns[t], !.newTxn = new])
    /\ UNCHANGED Rows

\* The rule engine finds TDS due, none due, or no certain answer: then it leaves
\* the amount alone.
Calculate(w, t) ==
    /\ txns[t].status \in CalculableFrom
    /\ \/ \E d \in Scope.tds \cup {0} : LoadTxn(w, t, [status |-> "CALCULATED", tds |-> d])
       \/ LoadTxn(w, t, [txns[t] EXCEPT !.status = "REVIEW_REQUIRED"])

Override(w, t) ==
    /\ txns[t].status = "CALCULATED"
    /\ \E d \in Scope.tds : LoadTxn(w, t, [txns[t] EXCEPT !.tds = d])

Deduct(w, t) ==
    /\ txns[t].status = "CALCULATED"
    /\ LoadTxn(w, t, [txns[t] EXCEPT !.status = "DEDUCTED"])

CancelTxn(w, t) ==
    /\ txns[t].status \in CancellableFrom
    /\ LoadTxn(w, t, [txns[t] EXCEPT !.status = "CANCELLED"])

TxnCommit(w) ==
    /\ At(w, "txn", "commit")
    /\ txns' = [txns EXCEPT ![work[w].txn] =
                    OverlayTxn(@, work[w].txns[work[w].txn], work[w].newTxn)]
    /\ End(w)
    /\ UNCHANGED <<challans, challanSum, txnSum, links, findings, runs>>

-----------------------------------------------------------------------------
(* challans                                                                 *)

\* Refused by the unique index if the number is taken.  The payload's amount is
\* above zero; what is left of it after rounding may be zero.
ChallanCreate(w, c, a) ==
    /\ IsIdle(w)
    /\ challans[c].status = "NONE"
    /\ challans' = [challans EXCEPT ![c] = [status |-> "DRAFT", amount |-> RoundMoney(a)]]
    /\ UNCHANGED <<txns, challanSum, txnSum, links, findings, runs, work>>

\* Mutant of EditLoad: a RECONCILED challan can be edited.
EditLoadReconciled(w, c, to, amount, next) ==
    /\ IsIdle(w)
    /\ challans[c].status \notin {"NONE", "CANCELLED"}
    /\ to \in Transitions[challans[c].status] \cup {challans[c].status}
    /\ Begin(w, [Idle EXCEPT !.op = "edit", !.challan = c, !.challans[c] = challans[c],
                             !.status = to, !.amount = amount, !.pc = next])
    /\ UNCHANGED Rows

\* update: a PATCH of the status, which keeps the amount and can be committed next,
\* or of the amount and perhaps the status, which reads the sum next.
EditLoad(w, c, to, amount, next) ==
    /\ IsIdle(w)
    /\ challans[c].status \notin {"NONE", "RECONCILED", "CANCELLED"}
    /\ to \in Transitions[challans[c].status] \cup {challans[c].status}
    /\ Begin(w, [Idle EXCEPT !.op = "edit", !.challan = c, !.challans[c] = challans[c],
                             !.status = to, !.amount = amount, !.pc = next])
    /\ UNCHANGED Rows

\* Mutant of EditSum: the amount may fall below what is allocated.
EditUnchecked(w) ==
    /\ At(w, "edit", "sum")
    /\ work' = [work EXCEPT ![w].pc = "commit", ![w].amount = RoundMoney(@)]
    /\ UNCHANGED Rows

\* The amount is weighed as it was asked for and rounded after.
EditSum(w) ==
    /\ At(w, "edit", "sum")
    /\ IF work[w].amount < Exact(challanSum[work[w].challan])
       THEN Refuse(w)
       ELSE /\ work' = [work EXCEPT ![w].pc = "commit", ![w].amount = RoundMoney(@)]
            /\ UNCHANGED Rows

EditCommit(w) ==
    /\ At(w, "edit", "commit")
    /\ challans' = [challans EXCEPT ![work[w].challan] =
          OverlayChallan(@, work[w].challans[work[w].challan],
                         [status |-> work[w].status, amount |-> work[w].amount])]
    /\ End(w)
    /\ UNCHANGED <<txns, challanSum, txnSum, links, findings, runs>>

-----------------------------------------------------------------------------
(* allocation                                                               *)

\* An allocation, too, may be rounded down to nothing.
AllocateLoad(w, c, t, a) ==
    /\ IsIdle(w)
    /\ challans[c].status \notin {"NONE", "CANCELLED"}
    /\ Begin(w, [Idle EXCEPT !.op = "allocate", !.pc = "txn", !.challan = c, !.txn = t,
                             !.amount = RoundMoney(a), !.challans[c] = challans[c]])
    /\ UNCHANGED Rows

AllocateTxn(w) ==
    /\ At(w, "allocate", "txn")
    /\ LET row == txns[work[w].txn] IN
       IF row.status \in AllocatableTo
       THEN /\ work' = [work EXCEPT ![w].txns[work[w].txn] = row, ![w].pc = "challanSum"]
            /\ UNCHANGED Rows
       ELSE Refuse(w)

AllocateChallanSum(w) ==
    /\ At(w, "allocate", "challanSum")
    /\ IF challanSum[work[w].challan] + work[w].amount
          > work[w].challans[work[w].challan].amount
       THEN Refuse(w)
       ELSE work' = [work EXCEPT ![w].pc = "txnSum"] /\ UNCHANGED Rows

AllocateTxnSum(w) ==
    /\ At(w, "allocate", "txnSum")
    /\ LET sum == txnSum[work[w].txn] IN
       IF sum + work[w].amount > work[w].txns[work[w].txn].tds
       THEN Refuse(w)
       ELSE work' = [work EXCEPT ![w].txnSum = sum, ![w].pc = "commit"] /\ UNCHANGED Rows

\* Mutant of AllocateCommit: the challan is credited instead of debited.
AllocateBackwards(w) ==
    /\ At(w, "allocate", "commit")
    /\ LET r == work[w] IN
       /\ challanSum' = [challanSum EXCEPT ![r.challan] = @ - r.amount]
       /\ txnSum' = [txnSum EXCEPT ![r.txn] = @ + r.amount]
       /\ links' = links \cup {<<r.challan, r.txn>>}
    /\ End(w)
    /\ UNCHANGED <<challans, txns, findings, runs>>

\* The allocation is inserted; a transaction it completes against a challan
\* loaded as PAID becomes PAID.
AllocateCommit(w) ==
    /\ At(w, "allocate", "commit")
    /\ LET r == work[w]
           loaded == r.txns[r.txn]
           pays == r.challans[r.challan].status = "PAID" /\ r.txnSum + r.amount >= loaded.tds
           new == [loaded EXCEPT !.status = IF pays THEN "PAID" ELSE @] IN
       /\ challanSum' = [challanSum EXCEPT ![r.challan] = @ + r.amount]
       /\ txnSum' = [txnSum EXCEPT ![r.txn] = @ + r.amount]
       /\ links' = links \cup {<<r.challan, r.txn>>}
       /\ txns' = [txns EXCEPT ![r.txn] = OverlayTxn(@, loaded, new)]
    /\ End(w)
    /\ UNCHANGED <<challans, findings, runs>>

-----------------------------------------------------------------------------
(* reconciliation run                                                       *)

\* The DELETE of the earlier findings takes its snapshot ...
ReconcileBegin(w) ==
    /\ IsIdle(w)
    /\ runs < Scope.runs
    /\ runs' = runs + 1
    /\ Begin(w, [Idle EXCEPT !.op = "reconcile", !.pc = "clear", !.run = runs + 1,
                             !.cleared = findings])
    /\ UNCHANGED <<challans, txns, challanSum, txnSum, links, findings>>

\* Mutant of ReconcileClear: the earlier findings stay.
ReconcileKeep(w) ==
    /\ At(w, "reconcile", "clear")
    /\ work' = [work EXCEPT ![w].cleared = {}, ![w].pc = "list"]
    /\ UNCHANGED Rows

\* ... and waits for every run that holds a lock on one of its rows; rows deleted
\* meanwhile are skipped.
ReconcileClear(w) ==
    /\ At(w, "reconcile", "clear")
    /\ \A x \in Workers \ {w} :
          work[x].op = "reconcile" /\ work[x].pc # "clear"
             => work[x].cleared \cap work[w].cleared = {}
    /\ work' = [work EXCEPT ![w].cleared = @ \cap findings, ![w].pc = "list"]
    /\ UNCHANGED Rows

ReconcileTxnList(w) ==
    /\ At(w, "reconcile", "list")
    /\ work' = [work EXCEPT ![w].todo = {t \in Txns : txns[t].status \in AllocatableTo},
                            ![w].txns = txns, ![w].pc = "txns"]
    /\ UNCHANGED Rows

TxnFinding(expected, allocated) ==
    IF allocated = 0 THEN "MISSING_CHALLAN"
    ELSE IF allocated = expected THEN "MATCHED"
    ELSE IF allocated < expected THEN "PARTIALLY_MATCHED" ELSE "AMOUNT_MISMATCH"

ReconcileTxn(w, t) ==
    /\ At(w, "reconcile", "txns")
    /\ t \in work[w].todo
    /\ work' = [work EXCEPT ![w].todo = @ \ {t},
           ![w].found = @ \cup {[run |-> work[w].run, about |-> t,
                                 status |-> TxnFinding(work[w].txns[t].tds, txnSum[t])]}]
    /\ UNCHANGED Rows

ReconcileChallanList(w) ==
    /\ At(w, "reconcile", "txns")
    /\ work[w].todo = {}
    /\ work' = [work EXCEPT ![w].pc = "challans", ![w].challans = challans,
           ![w].todo = {c \in Challans : challans[c].status \notin {"NONE", "CANCELLED"}}]
    /\ UNCHANGED Rows

\* A row and the sum of its allocations: money nothing is allocated to, and a
\* challan allocated in full.
Unallocated(row, sum) == sum < row.amount /\ row.status \in {"GENERATED", "PAID"}
\* Mutant of Settles: any PAID challan is taken for reconciled.
SettlesPaid(row, sum) == sum <= row.amount /\ row.status = "PAID"
Settles(row, sum) == sum = row.amount /\ row.status = "PAID"

ReconcileChallan(w, c) ==
    /\ At(w, "reconcile", "challans")
    /\ c \in work[w].todo
    /\ LET row == work[w].challans[c] IN
       work' = [work EXCEPT ![w].todo = @ \ {c},
           ![w].found = @ \cup {f \in {[run |-> work[w].run, about |-> c,
                                        status |-> "UNALLOCATED_PAYMENT"]} :
                                  Unallocated(row, challanSum[c])},
           ![w].settled = @ \cup {x \in {c} : Settles(row, challanSum[c])}]
    /\ UNCHANGED Rows

ReconcileCommit(w) ==
    /\ At(w, "reconcile", "challans")
    /\ work[w].todo = {}
    /\ challans' = [c \in Challans |->
                       IF c \in work[w].settled THEN [challans[c] EXCEPT !.status = "RECONCILED"]
                       ELSE challans[c]]
    /\ findings' = (findings \ work[w].cleared) \cup work[w].found
    /\ End(w)
    /\ UNCHANGED <<txns, challanSum, txnSum, links, runs>>

-----------------------------------------------------------------------------
TxnStep(w) ==
    \/ \E t \in Scope.txns :
          TxnCreate(w, t) \/ Calculate(w, t) \/ Override(w, t) \/ Deduct(w, t) \/ CancelTxn(w, t)
    \/ \E t \in Scope.txns, d \in Scope.tds \cup {0} : TxnImport(w, t, d)
    \/ TxnCommit(w)

ChallanStep(w) ==
    \/ \E c \in Scope.challans, a \in Scope.amounts : ChallanCreate(w, c, a)
    \/ \E c \in Scope.challans, to \in ChallanStatus :
          \/ EditLoad(w, c, to, challans[c].amount, "commit")
          \/ \E a \in Scope.amounts : EditLoad(w, c, to, a, "sum")
    \/ EditSum(w) \/ EditCommit(w)

AllocateStep(w) ==
    \/ \E c \in Scope.challans, t \in Scope.txns, a \in Scope.amounts : AllocateLoad(w, c, t, a)
    \/ AllocateTxn(w) \/ AllocateChallanSum(w) \/ AllocateTxnSum(w) \/ AllocateCommit(w)

ReconcileStep(w) ==
    \/ ReconcileBegin(w) \/ ReconcileClear(w) \/ ReconcileTxnList(w)
    \/ \E t \in Txns : ReconcileTxn(w, t)
    \/ ReconcileChallanList(w)
    \/ \E c \in Challans : ReconcileChallan(w, c)
    \/ ReconcileCommit(w)

Next == \E w \in Workers : TxnStep(w) \/ ChallanStep(w) \/ AllocateStep(w) \/ ReconcileStep(w)

Spec == Init /\ [][Next]_vars

-----------------------------------------------------------------------------
(* Properties                                                               *)

\* Every row and every request in flight has its declared shape.
TypeOK ==
    /\ challans \in [Challans -> ChallanRow]
    /\ txns \in [Txns -> TxnRow]
    /\ challanSum \in [Challans -> Nat]
    /\ txnSum \in [Txns -> Nat]
    /\ links \in SUBSET (Challans \X Txns)
    /\ findings \in SUBSET FindingRow
    /\ runs \in Nat
    /\ work \in [Workers -> Request]

\* What TDSChallanAllocation says of allocate: neither the challan's nor the
\* transaction's balance is ever exceeded.  Needs serialised requests.
AllocationsWithinBalance ==
    Serial =>
    /\ \A c \in Challans : challanSum[c] <= challans[c].amount
    /\ \A t \in Txns : txnSum[t] <= txns[t].tds

\* RECONCILED and PAID mean fully allocated, to the paisa, and stay so: a
\* reconciled challan has no money left and a paid transaction no TDS left.  Needs
\* serialised requests.
SettledMeansAllocated ==
    Serial =>
    /\ \A c \in Challans : challans[c].status = "RECONCILED" => challanSum[c] = challans[c].amount
    /\ \A t \in Txns : txns[t].status = "PAID" => txnSum[t] = txns[t].tds

\* However requests interleave, whoever settles has seen enough: a challan becomes
\* RECONCILED only by a run that listed it PAID, when the allocations cover the
\* amount it listed; a transaction becomes PAID only by an allocation from a challan
\* loaded as PAID, and then the allocations cover the TDS loaded with it.
SettledOnEvidence ==
    [][/\ \A c \in Challans : challans[c].status # "RECONCILED" /\ challans'[c].status = "RECONCILED" =>
             \E w \in Workers : /\ At(w, "reconcile", "challans")
                                /\ work[w].challans[c].status = "PAID"
                                /\ challanSum[c] >= work[w].challans[c].amount
       /\ \A t \in Txns : txns[t].status # "PAID" /\ txns'[t].status = "PAID" =>
             \E w \in Workers : /\ At(w, "allocate", "commit")
                                /\ work[w].challans[work[w].challan].status = "PAID"
                                /\ <<work[w].challan, t>> \in links'
                                /\ txnSum'[t] >= work[w].txns[t].tds]_vars

\* What _ALLOWED_STATUS_TRANSITIONS says of RECONCILED: it reflects a match against
\* allocations, so there is one.
ReconciledIsAllocated ==
    \A c \in Challans : challans[c].status = "RECONCILED" => \E t \in Txns : <<c, t>> \in links

\* A transaction, once DEDUCTED, keeps its TDS and its only further status is PAID:
\* the allocations are weighed against an amount that no longer moves.  Needs
\* serialised requests.
DeductionFrozen ==
    [][\A t \in Txns : Serial /\ txns[t].status \in AllocatableTo =>
          /\ txns'[t].tds = txns[t].tds
          /\ txns'[t].status \in {txns[t].status, "PAID"}]_vars

\* A run that commits leaves exactly one finding about each deducted transaction,
\* and one about each challan with money left, all true of the rows it leaves.
\* Needs serialised requests.
FindingsExact ==
    [][Serial /\ findings' # findings =>
          {[about |-> f.about, status |-> f.status] : f \in findings'} =
              {[about |-> t, status |-> TxnFinding(txns[t].tds, txnSum[t])] :
                  t \in {u \in Txns : txns[u].status \in AllocatableTo}}
         \cup {[about |-> c, status |-> "UNALLOCATED_PAYMENT"] :
                  c \in {d \in Challans : Unallocated(challans[d], challanSum[d])}}]_vars

\* What allocate says of PAID: the full TDS is allocated against PAID challans.
PaidByPaidChallans ==
    [][\A t \in Txns : txns[t].status # "PAID" /\ txns'[t].status = "PAID" =>
          \A c \in Challans : <<c, t>> \in links' =>
              challans[c].status \in {"PAID", "RECONCILED"}]_vars

=============================================================================
