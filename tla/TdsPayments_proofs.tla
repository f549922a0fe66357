------------------------ MODULE TdsPayments_proofs ------------------------
(* Proofs about TdsPayments, for every set of workers, challans,            *)
(* transactions and amounts.                                                *)
EXTENDS TdsPayments, TLAPS

LEMMA IdleType == Idle \in Request
<1>1. (CHOOSE c \in Challans : TRUE) \in Challans /\ (CHOOSE t \in Txns : TRUE) \in Txns
  BY PaymentAssumption
<1>2. NoChallan \in ChallanRow /\ NoTxn \in TxnRow
  BY DEF NoChallan, ChallanRow, ChallanStatus, NoTxn, TxnRow, TxnStatus
<1> QED
  BY <1>1, <1>2 DEF Idle, Request, Ops, PCs, ChallanStatus

\* An UPDATE of a row by a row of the table leaves a row of the table.
LEMMA OverlayType ==
    /\ \A now, old, new \in ChallanRow : OverlayChallan(now, old, new) \in ChallanRow
    /\ \A now, old, new \in TxnRow : OverlayTxn(now, old, new) \in TxnRow
BY DEF OverlayChallan, OverlayTxn, ChallanRow, TxnRow

-----------------------------------------------------------------------------
(* Type correctness                                                         *)

LEMMA RefuseType ==
    ASSUME TypeOK, NEW w \in Workers, Refuse(w)
    PROVE  TypeOK'
BY IdleType DEF TypeOK, Refuse, End, Rows

\* A SELECT changes the request alone.
LEMMA SelectType ==
    ASSUME TypeOK, NEW w \in Workers, NEW r \in Request,
           work' = [work EXCEPT ![w] = r], UNCHANGED Rows
    PROVE  TypeOK'
BY DEF TypeOK, Rows

LEMMA LoadTxnType ==
    ASSUME TypeOK, NEW w \in Workers, NEW t \in Txns, NEW new \in TxnRow, LoadTxn(w, t, new)
    PROVE  TypeOK'
<1>1. [Idle EXCEPT !.op = "txn", !.pc = "commit", !.txn = t,
                   !.txns[t] = txns[t], !.newTxn = new] \in Request
  BY IdleType DEF TypeOK, Request, Ops, PCs
<1> QED
  BY <1>1, SelectType DEF LoadTxn, Begin

LEMMA ScopeType == /\ Scope.challans \subseteq Challans /\ Scope.txns \subseteq Txns
                   /\ Scope.amounts \subseteq Nat /\ Scope.tds \subseteq TdsAmounts
  BY PaymentAssumption DEF Scope, Scopes

\* What is left of a payload's amount is an amount, and covers what it covered.
LEMMA Rounded ==
    ASSUME NEW a \in Nat
    PROVE  RoundMoney(a) \in Nat /\ \A s \in Nat : a >= Exact(s) => RoundMoney(a) >= s
BY DEF RoundMoney, Exact

\* A PATCH that names no amount keeps the one it loaded.
EditLoads(w, c, to, a, next) ==
    EditLoad(w, c, to, a, next) /\ next \in {"commit", "sum"}
    /\ (next = "commit" => a = challans[c].amount)

LEMMA ChallanSteps ==
    ASSUME TypeOK, NEW w \in Workers, ChallanStep(w)
    PROVE  \/ \E c \in Challans, a \in Nat : ChallanCreate(w, c, a)
           \/ \E c \in Challans, to \in ChallanStatus, a \in Nat, next \in {"commit", "sum"} :
                 EditLoads(w, c, to, a, next)
           \/ EditSum(w) \/ EditCommit(w)
<1>1. \A c \in Challans : challans[c].amount \in Nat
  BY DEF TypeOK, ChallanRow
<1> QED
  BY <1>1, ScopeType DEF ChallanStep, EditLoads

LEMMA TxnStepType ==
    ASSUME TypeOK, NEW w \in Workers, TxnStep(w)
    PROVE  TypeOK'
<1>0. work[w] \in Request /\ Idle \in Request
  BY IdleType DEF TypeOK
<1>1. ASSUME NEW t \in Txns, TxnCreate(w, t)
      PROVE  TypeOK'
  BY <1>1 DEF TypeOK, TxnCreate, TxnRow, TxnStatus
<1>7. ASSUME NEW t \in Txns, NEW d \in TdsAmounts \cup {0}, TxnImport(w, t, d)
      PROVE  TypeOK'
  BY <1>7, PaymentAssumption DEF TypeOK, TxnImport, TxnRow, TxnStatus
<1>2. ASSUME NEW t \in Txns, Calculate(w, t)
      PROVE  TypeOK'
  <2>1. txns[t] \in TxnRow
    BY DEF TypeOK
  <2>2. [txns[t] EXCEPT !.status = "REVIEW_REQUIRED"] \in TxnRow
    BY <2>1 DEF TxnRow, TxnStatus
  <2>3. \A d \in TdsAmounts \cup {0} : [status |-> "CALCULATED", tds |-> d] \in TxnRow
    BY PaymentAssumption DEF TxnRow, TxnStatus
  <2> QED
    <3>1. \A d \in Scope.tds \cup {0} : d \in TdsAmounts \cup {0}
      BY ScopeType
    <3> DEFINE row == [txns[t] EXCEPT !.status = "REVIEW_REQUIRED"]
    <3>2. \/ \E d \in Scope.tds \cup {0} : LoadTxn(w, t, [status |-> "CALCULATED", tds |-> d])
          \/ LoadTxn(w, t, row)
      BY <1>2 DEF Calculate
    <3>3. row \in TxnRow
      BY <2>2
    <3> HIDE DEF row
    <3> QED
      BY <2>3, <3>1, <3>2, <3>3, LoadTxnType
<1>3. ASSUME NEW t \in Txns, Override(w, t)
      PROVE  TypeOK'
  <2>1. \A d \in TdsAmounts : [txns[t] EXCEPT !.tds = d] \in TxnRow
    BY PaymentAssumption DEF TypeOK, TxnRow
  <2> QED
    BY <1>3, <2>1, LoadTxnType, ScopeType DEF Override
<1>4. ASSUME NEW t \in Txns, Deduct(w, t)
      PROVE  TypeOK'
  <2>1. [txns[t] EXCEPT !.status = "DEDUCTED"] \in TxnRow
    BY DEF TypeOK, TxnRow, TxnStatus
  <2> QED
    BY <1>4, <2>1, LoadTxnType DEF Deduct
<1>5. ASSUME NEW t \in Txns, CancelTxn(w, t)
      PROVE  TypeOK'
  <2>1. [txns[t] EXCEPT !.status = "CANCELLED"] \in TxnRow
    BY DEF TypeOK, TxnRow, TxnStatus
  <2> QED
    BY <1>5, <2>1, LoadTxnType DEF CancelTxn
<1>6. CASE TxnCommit(w)
  <2> DEFINE t == work[w].txn
  <2>1. t \in Txns /\ work[w].txns[t] \in TxnRow /\ work[w].newTxn \in TxnRow /\ txns[t] \in TxnRow
    BY <1>0 DEF Request, TypeOK
  <2>2. OverlayTxn(txns[t], work[w].txns[t], work[w].newTxn) \in TxnRow
    BY <2>1, OverlayType
  <2> QED
    BY <1>0, <1>6, <2>1, <2>2 DEF TxnCommit, End, TypeOK
<1> QED
  BY <1>1, <1>2, <1>3, <1>4, <1>5, <1>6, <1>7, ScopeType DEF TxnStep

LEMMA ChallanStepType ==
    ASSUME TypeOK, NEW w \in Workers, ChallanStep(w)
    PROVE  TypeOK'
<1>0. work[w] \in Request /\ Idle \in Request
  BY IdleType DEF TypeOK
<1>1. ASSUME NEW c \in Challans, NEW a \in Nat, ChallanCreate(w, c, a)
      PROVE  TypeOK'
  BY <1>1, Rounded DEF TypeOK, ChallanCreate, ChallanRow, ChallanStatus
<1>2. ASSUME NEW c \in Challans, NEW to \in ChallanStatus, NEW a \in Nat,
             NEW next \in {"commit", "sum"}, EditLoads(w, c, to, a, next)
      PROVE  TypeOK'
  <2>1. [Idle EXCEPT !.op = "edit", !.challan = c, !.challans[c] = challans[c],
                     !.status = to, !.amount = a, !.pc = next] \in Request
    BY <1>0 DEF TypeOK, Request, Ops, PCs
  <2> QED
    BY <1>2, <2>1, SelectType DEF EditLoads, EditLoad, Begin
<1>3. CASE EditSum(w)
  <2>1. CASE Refuse(w)
    BY <2>1, RefuseType
  <2>2. CASE ~Refuse(w)
    <3> DEFINE r == [work[w] EXCEPT !.pc = "commit", !.amount = RoundMoney(@)]
    <3>1. r \in Request
      BY <1>0, Rounded DEF Request, PCs
    <3>2. work' = [work EXCEPT ![w] = r] /\ UNCHANGED Rows
      BY <1>0, <1>3, <2>2 DEF EditSum
    <3> QED
      BY <3>1, <3>2, SelectType
  <2> QED
    BY <2>1, <2>2
<1>4. CASE EditCommit(w)
  <2> DEFINE c == work[w].challan
             new == [status |-> work[w].status, amount |-> work[w].amount]
  <2>1. /\ c \in Challans /\ work[w].challans[c] \in ChallanRow /\ challans[c] \in ChallanRow
        /\ new \in ChallanRow
    BY <1>0 DEF Request, TypeOK, ChallanRow
  <2>2. OverlayChallan(challans[c], work[w].challans[c], new) \in ChallanRow
    BY <2>1, OverlayType
  <2> QED
    BY <1>0, <1>4, <2>1, <2>2 DEF EditCommit, End, TypeOK
<1> QED
  BY <1>1, <1>2, <1>3, <1>4, ChallanSteps

LEMMA AllocateStepType ==
    ASSUME TypeOK, NEW w \in Workers, AllocateStep(w)
    PROVE  TypeOK'
<1>0. work[w] \in Request /\ Idle \in Request
  BY IdleType DEF TypeOK
<1>1. ASSUME NEW c \in Challans, NEW t \in Txns, NEW a \in Nat, AllocateLoad(w, c, t, a)
      PROVE  TypeOK'
  <2>1. [Idle EXCEPT !.op = "allocate", !.pc = "txn", !.challan = c, !.txn = t,
                     !.amount = RoundMoney(a), !.challans[c] = challans[c]] \in Request
    BY <1>0, Rounded DEF TypeOK, Request, Ops, PCs
  <2> QED
    BY <1>1, <2>1, SelectType DEF AllocateLoad, Begin
<1>2. CASE AllocateTxn(w)
  <2>1. CASE Refuse(w)
    BY <2>1, RefuseType
  <2>2. CASE ~Refuse(w)
    <3> DEFINE r == [work[w] EXCEPT !.txns[work[w].txn] = txns[work[w].txn], !.pc = "challanSum"]
    <3>1. r \in Request
      BY <1>0 DEF TypeOK, Request, PCs
    <3>2. work' = [work EXCEPT ![w] = r] /\ UNCHANGED Rows
      BY <1>2, <2>2 DEF AllocateTxn
    <3> QED
      BY <3>1, <3>2, SelectType
  <2> QED
    BY <2>1, <2>2
<1>3. CASE AllocateChallanSum(w)
  <2>1. CASE Refuse(w)
    BY <2>1, RefuseType
  <2>2. CASE ~Refuse(w)
    <3>1. [work[w] EXCEPT !.pc = "txnSum"] \in Request
      BY <1>0 DEF Request, PCs
    <3>2. work' = [work EXCEPT ![w] = [work[w] EXCEPT !.pc = "txnSum"]] /\ UNCHANGED Rows
      BY <1>3, <2>2 DEF AllocateChallanSum
    <3> QED
      BY <3>1, <3>2, SelectType
  <2> QED
    BY <2>1, <2>2
<1>4. CASE AllocateTxnSum(w)
  <2>1. CASE Refuse(w)
    BY <2>1, RefuseType
  <2>2. CASE ~Refuse(w)
    <3> DEFINE r == [work[w] EXCEPT !.txnSum = txnSum[work[w].txn], !.pc = "commit"]
    <3>1. r \in Request
      BY <1>0 DEF TypeOK, Request, PCs
    <3>2. work' = [work EXCEPT ![w] = r] /\ UNCHANGED Rows
      BY <1>4, <2>2 DEF AllocateTxnSum
    <3> QED
      BY <3>1, <3>2, SelectType
  <2> QED
    BY <2>1, <2>2
<1>5. CASE AllocateCommit(w)
  <2> DEFINE t == work[w].txn
             c == work[w].challan
             loaded == work[w].txns[t]
  <2>1. /\ t \in Txns /\ c \in Challans /\ work[w].amount \in Nat
        /\ loaded \in TxnRow /\ txns[t] \in TxnRow
    BY <1>0 DEF Request, TypeOK
  <2>2. [loaded EXCEPT !.status = "PAID"] \in TxnRow /\ [loaded EXCEPT !.status = @] \in TxnRow
    BY <2>1, SMTT(30) DEF TxnRow, TxnStatus
  <2>3. PICK row \in TxnRow : txns' = [txns EXCEPT ![t] = row]
    <3>1. \A new \in TxnRow : OverlayTxn(txns[t], loaded, new) \in TxnRow
      BY <2>1, OverlayType
    <3> QED
      BY <1>5, <2>2, <3>1 DEF AllocateCommit
  <2>4. /\ challanSum' = [challanSum EXCEPT ![c] = @ + work[w].amount]
        /\ txnSum' = [txnSum EXCEPT ![t] = @ + work[w].amount]
        /\ links' = links \cup {<<c, t>>}
        /\ work' = [work EXCEPT ![w] = Idle]
        /\ UNCHANGED <<challans, findings, runs>>
    BY <1>5 DEF AllocateCommit, End
  <2> QED
    BY <1>0, <2>1, <2>3, <2>4 DEF TypeOK
<1> QED
  BY <1>1, <1>2, <1>3, <1>4, <1>5, ScopeType DEF AllocateStep

LEMMA ReconcileStepType ==
    ASSUME TypeOK, NEW w \in Workers, ReconcileStep(w)
    PROVE  TypeOK'
<1>0. work[w] \in Request /\ Idle \in Request
  BY IdleType DEF TypeOK
<1>1. CASE ReconcileBegin(w)
  <2>1. runs + 1 \in Nat
    BY DEF TypeOK
  <2>2. [Idle EXCEPT !.op = "reconcile", !.pc = "clear", !.run = runs + 1,
                     !.cleared = findings] \in Request
    BY <1>0, <2>1 DEF TypeOK, Request, Ops, PCs
  <2> QED
    BY <1>1, <2>1, <2>2 DEF ReconcileBegin, Begin, TypeOK
<1>2. CASE ReconcileClear(w)
  <2> DEFINE r == [work[w] EXCEPT !.cleared = @ \cap findings, !.pc = "list"]
  <2>1. r \in Request
    BY <1>0 DEF TypeOK, Request, PCs
  <2>2. work' = [work EXCEPT ![w] = r] /\ UNCHANGED Rows
    BY <1>2 DEF ReconcileClear
  <2> QED
    BY <2>1, <2>2, SelectType
<1>3. CASE ReconcileTxnList(w)
  <2> DEFINE r == [work[w] EXCEPT !.todo = {t \in Txns : txns[t].status \in AllocatableTo},
                                  !.txns = txns, !.pc = "txns"]
  <2>1. r \in Request
    BY <1>0 DEF TypeOK, Request, PCs
  <2>2. work' = [work EXCEPT ![w] = r] /\ UNCHANGED Rows
    BY <1>3 DEF ReconcileTxnList
  <2> QED
    BY <2>1, <2>2, SelectType
<1>4. ASSUME NEW t \in Txns, ReconcileTxn(w, t)
      PROVE  TypeOK'
  <2> DEFINE f == [run |-> work[w].run, about |-> t,
                   status |-> TxnFinding(work[w].txns[t].tds, txnSum[t])]
             r == [work[w] EXCEPT !.todo = @ \ {t}, !.found = @ \cup {f}]
  <2>1. f \in FindingRow
    BY <1>0 DEF Request, FindingRow, FindingStatus, TxnFinding
  <2>2. work' = [work EXCEPT ![w] = r] /\ UNCHANGED Rows
    BY <1>4 DEF ReconcileTxn
  <2> HIDE DEF f
  <2>3. r \in Request
    BY <1>0, <2>1 DEF Request
  <2> QED
    BY <2>2, <2>3, SelectType
<1>5. CASE ReconcileChallanList(w)
  <2> DEFINE r == [work[w] EXCEPT !.pc = "challans", !.challans = challans,
                      !.todo = {c \in Challans : challans[c].status \notin {"NONE", "CANCELLED"}}]
  <2>1. r \in Request
    BY <1>0 DEF TypeOK, Request, PCs
  <2>2. work' = [work EXCEPT ![w] = r] /\ UNCHANGED Rows
    BY <1>5 DEF ReconcileChallanList
  <2> QED
    BY <2>1, <2>2, SelectType
<1>6. ASSUME NEW c \in Challans, ReconcileChallan(w, c)
      PROVE  TypeOK'
  <2> DEFINE row == work[w].challans[c]
             fs == {f \in {[run |-> work[w].run, about |-> c, status |-> "UNALLOCATED_PAYMENT"]} :
                       Unallocated(row, challanSum[c])}
             cs == {x \in {c} : Settles(row, challanSum[c])}
             r == [work[w] EXCEPT !.todo = @ \ {c}, !.found = @ \cup fs, !.settled = @ \cup cs]
  <2>1. fs \subseteq FindingRow /\ cs \subseteq Challans
    BY <1>0 DEF Request, FindingRow, FindingStatus
  <2>2. work' = [work EXCEPT ![w] = r] /\ UNCHANGED Rows
    BY <1>6 DEF ReconcileChallan
  <2> HIDE DEF fs, cs
  <2>3. r \in Request
    BY <1>0, <2>1 DEF Request
  <2> QED
    BY <2>2, <2>3, SelectType
<1>7. CASE ReconcileCommit(w)
  <2>1. \A c \in Challans : [challans[c] EXCEPT !.status = "RECONCILED"] \in ChallanRow
    BY DEF TypeOK, ChallanRow, ChallanStatus
  <2>2. challans' \in [Challans -> ChallanRow]
    BY <1>7, <2>1 DEF ReconcileCommit, TypeOK
  <2>3. findings' \in SUBSET FindingRow
    BY <1>0, <1>7 DEF ReconcileCommit, TypeOK, Request
  <2> QED
    BY <1>0, <1>7, <2>2, <2>3 DEF ReconcileCommit, End, TypeOK
<1> QED
  BY <1>1, <1>2, <1>3, <1>4, <1>5, <1>6, <1>7 DEF ReconcileStep

LEMMA InitType == Init => TypeOK
<1> SUFFICES ASSUME Init PROVE TypeOK
  OBVIOUS
<1>1. Idle \in Request /\ NoChallan \in ChallanRow /\ NoTxn \in TxnRow
  BY IdleType DEF NoChallan, ChallanRow, ChallanStatus, NoTxn, TxnRow, TxnStatus
<1> QED
  <2>1. Off \in Request
    BY <1>1 DEF Off, Request, PCs
  <2> QED
    BY <1>1, <2>1 DEF Init, TypeOK

LEMMA StepType == TypeOK /\ [Next]_vars => TypeOK'
<1> SUFFICES ASSUME TypeOK, [Next]_vars PROVE TypeOK'
  OBVIOUS
<1>1. CASE UNCHANGED vars
  BY <1>1 DEF vars, TypeOK
<1>2. CASE Next
  BY <1>2, TxnStepType, ChallanStepType, AllocateStepType, ReconcileStepType DEF Next
<1> QED
  BY <1>1, <1>2

\* Every reachable state is well typed, whatever the constants.
THEOREM TypeCorrect == Spec => []TypeOK
BY InitType, StepType, PTL DEF Spec

-----------------------------------------------------------------------------
(* What no interleaving can break                                           *)

\* A request on a transaction or a challan never writes PAID or RECONCILED itself;
\* the sum an allocation has read can only have grown; and what a run has settled it
\* listed as PAID and found covered.
EvidenceOf(r) ==
    /\ r.op = "txn" => r.newTxn.status # "PAID"
    /\ r.op = "edit" => r.status # "RECONCILED"
    /\ r.op = "allocate" /\ r.pc = "commit" => r.txnSum <= txnSum[r.txn]
    /\ r.pc # "challans" => r.settled = {}
    /\ \A c \in r.settled : r.challans[c].status = "PAID" /\ challanSum[c] >= r.challans[c].amount

EvidenceInv == TypeOK /\ \A w \in Workers : EvidenceOf(work[w])

SettleStep ==
    /\ \A c \in Challans : challans[c].status # "RECONCILED" /\ challans'[c].status = "RECONCILED" =>
          \E w \in Workers : /\ At(w, "reconcile", "challans")
                             /\ work[w].challans[c].status = "PAID"
                             /\ challanSum[c] >= work[w].challans[c].amount
    /\ \A t \in Txns : txns[t].status # "PAID" /\ txns'[t].status = "PAID" =>
          \E w \in Workers : /\ At(w, "allocate", "commit")
                             /\ work[w].challans[work[w].challan].status = "PAID"
                             /\ <<work[w].challan, t>> \in links'
                             /\ txnSum'[t] >= work[w].txns[t].tds

LEMMA IdleEvidence == EvidenceOf(Idle) /\ EvidenceOf(Off)
BY DEF EvidenceOf, Idle, Off

\* A step answers for its own request; no sum shrinks under the others.
LEMMA OwnEvidence ==
    ASSUME EvidenceInv, TypeOK', NEW w \in Workers, NEW r, work' = [work EXCEPT ![w] = r],
           \A c \in Challans : challanSum'[c] >= challanSum[c],
           \A t \in Txns : txnSum'[t] >= txnSum[t],
           EvidenceOf(r)'
    PROVE  EvidenceInv'
<1>1. ASSUME NEW x \in Workers PROVE EvidenceOf(work[x])'
  <2>1. CASE x = w
    <3>1. work'[x] = r
      BY <2>1 DEF EvidenceInv, TypeOK
    <3> QED
      BY <3>1 DEF EvidenceOf
  <2>2. CASE x # w
    <3>1. work'[x] = work[x] /\ EvidenceOf(work[x]) /\ work[x] \in Request
      BY <2>2 DEF EvidenceInv, TypeOK
    <3>2. /\ work[x].txn \in Txns /\ work[x].settled \subseteq Challans /\ work[x].txnSum \in Nat
          /\ \A c \in Challans : work[x].challans[c].amount \in Nat
      BY <3>1 DEF Request, ChallanRow
    <3>3. /\ \A c \in Challans : challanSum[c] \in Nat /\ challanSum'[c] \in Nat
          /\ \A t \in Txns : txnSum[t] \in Nat /\ txnSum'[t] \in Nat
      BY DEF EvidenceInv, TypeOK
    <3>4. work[x].op = "allocate" /\ work[x].pc = "commit" => work[x].txnSum <= txnSum'[work[x].txn]
      BY <3>1, <3>2, <3>3 DEF EvidenceOf
    <3>5. \A c \in work[x].settled : /\ work[x].challans[c].status = "PAID"
                                     /\ challanSum'[c] >= work[x].challans[c].amount
      BY <3>1, <3>2, <3>3 DEF EvidenceOf
    <3> QED
      BY <3>1, <3>4, <3>5 DEF EvidenceOf
  <2> QED
    BY <2>1, <2>2
<1> QED
  BY <1>1 DEF EvidenceInv

\* A SELECT, a BEGIN or a refusal moves no status.
LEMMA SelectEvidence ==
    ASSUME EvidenceInv, TypeOK', NEW w \in Workers, NEW r, work' = [work EXCEPT ![w] = r],
           UNCHANGED <<challans, txns, challanSum, txnSum, links>>, EvidenceOf(r)
    PROVE  EvidenceInv' /\ SettleStep
<1>1. /\ \A c \in Challans : challanSum'[c] >= challanSum[c]
      /\ \A t \in Txns : txnSum'[t] >= txnSum[t]
  BY DEF EvidenceInv, TypeOK
<1>2. EvidenceOf(r)'
  BY DEF EvidenceOf
<1> QED
  BY <1>1, <1>2, OwnEvidence DEF SettleStep

LEMMA RefuseEvidence ==
    ASSUME EvidenceInv, NEW w \in Workers, Refuse(w)
    PROVE  EvidenceInv' /\ SettleStep
<1>1. TypeOK'
  BY RefuseType DEF EvidenceInv
<1> QED
  BY <1>1, IdleEvidence, SelectEvidence DEF Refuse, End, Rows

\* A commit of a request that ends.
LEMMA CommitEvidence ==
    ASSUME EvidenceInv, TypeOK', NEW w \in Workers, work' = [work EXCEPT ![w] = Idle],
           \A c \in Challans : challanSum'[c] >= challanSum[c],
           \A t \in Txns : txnSum'[t] >= txnSum[t]
    PROVE  EvidenceInv'
<1>1. EvidenceOf(Idle)'
  BY DEF EvidenceOf, Idle
<1> QED
  BY <1>1, OwnEvidence

LEMMA TxnStepEvidence ==
    ASSUME EvidenceInv, NEW w \in Workers, TxnStep(w)
    PROVE  EvidenceInv' /\ SettleStep
<1>0. TypeOK /\ TypeOK' /\ work[w] \in Request /\ EvidenceOf(work[w])
  BY TxnStepType DEF EvidenceInv, TypeOK
<1>00. /\ \A c \in Challans : challanSum[c] \in Nat
       /\ \A t \in Txns : txnSum[t] \in Nat
  BY <1>0 DEF TypeOK
<1>1. ASSUME NEW t \in Txns, NEW row, row.status # "PAID", work' = work,
             txns' = [txns EXCEPT ![t] = row], UNCHANGED <<challans, challanSum, txnSum, links>>
      PROVE  EvidenceInv' /\ SettleStep
  <2>1. SettleStep
    BY <1>0, <1>1 DEF SettleStep, TypeOK
  <2>2. \A x \in Workers : EvidenceOf(work[x])'
    BY <1>1 DEF EvidenceInv, EvidenceOf
  <2> QED
    BY <1>0, <2>1, <2>2 DEF EvidenceInv
<1>2. CASE \E t \in Txns : TxnCreate(w, t) \/ \E d \in TdsAmounts \cup {0} : TxnImport(w, t, d)
  BY <1>1, <1>2 DEF TxnCreate, TxnImport
<1>3. ASSUME NEW t \in Txns, NEW new, LoadTxn(w, t, new), new.status # "PAID"
      PROVE  EvidenceInv' /\ SettleStep
  <2> DEFINE r == [Idle EXCEPT !.op = "txn", !.pc = "commit", !.txn = t,
                               !.txns[t] = txns[t], !.newTxn = new]
  <2>1. EvidenceOf(r)
    BY <1>3 DEF EvidenceOf, Idle
  <2>2. work' = [work EXCEPT ![w] = r] /\ UNCHANGED Rows
    BY <1>3 DEF LoadTxn, Begin
  <2> HIDE DEF r
  <2> QED
    BY <1>0, <2>1, <2>2, SelectEvidence DEF Rows
<1>4. ASSUME NEW t \in Txns, Calculate(w, t) \/ Override(w, t) \/ Deduct(w, t) \/ CancelTxn(w, t)
      PROVE  EvidenceInv' /\ SettleStep
  <2>1. txns[t] \in TxnRow
    BY <1>0 DEF TypeOK
  <2>2. /\ \A d : [status |-> "CALCULATED", tds |-> d].status # "PAID"
        /\ \A d : [txns[t] EXCEPT !.tds = d].status = txns[t].status
        /\ \A s \in TxnStatus : [txns[t] EXCEPT !.status = s].status = s
    BY <2>1 DEF TxnRow
  <2>3. \E new : LoadTxn(w, t, new) /\ new.status # "PAID"
    <3>1. CASE Calculate(w, t)
      BY <2>2, <3>1, ScopeType DEF Calculate, TxnStatus
    <3>2. CASE Override(w, t)
      <4>1. PICK d : txns[t].status = "CALCULATED" /\ LoadTxn(w, t, [txns[t] EXCEPT !.tds = d])
        BY <3>2, Zenon DEF Override
      <4>2. PICK new : new = [txns[t] EXCEPT !.tds = d]
        OBVIOUS
      <4>3. LoadTxn(w, t, new)
        BY <4>1, <4>2, Zenon
      <4>4. new.status # "PAID"
        BY <2>2, <4>1, <4>2
      <4> QED
        BY <4>3, <4>4
    <3>3. CASE Deduct(w, t)
      BY <2>2, <3>3 DEF Deduct, TxnStatus
    <3>4. CASE CancelTxn(w, t)
      BY <2>2, <3>4 DEF CancelTxn, TxnStatus
    <3> QED
      BY <1>4, <3>1, <3>2, <3>3, <3>4
  <2> QED
    BY <1>3, <2>3
<1>5. CASE TxnCommit(w)
  <2> DEFINE t == work[w].txn
             new == OverlayTxn(txns[t], work[w].txns[t], work[w].newTxn)
  <2>1. t \in Txns /\ work[w].newTxn.status # "PAID"
    BY <1>0, <1>5 DEF TxnCommit, At, Request, EvidenceOf
  <2>2. new.status = "PAID" => txns[t].status = "PAID"
    BY <2>1 DEF OverlayTxn
  <2>3. txns' = [txns EXCEPT ![t] = new] /\ UNCHANGED <<challans, challanSum, txnSum, links>>
        /\ work' = [work EXCEPT ![w] = Idle]
    BY <1>5 DEF TxnCommit, End
  <2> HIDE DEF new
  <2>4. SettleStep
    BY <1>0, <2>1, <2>2, <2>3 DEF SettleStep, TypeOK
  <2>5. /\ \A d \in Challans : challanSum'[d] >= challanSum[d]
        /\ \A u \in Txns : txnSum'[u] >= txnSum[u]
    BY <1>00, <2>3
  <2>6. EvidenceInv'
    BY <1>0, <2>3, <2>5, CommitEvidence
  <2> QED
    BY <2>4, <2>6
<1> QED
  BY <1>2, <1>4, <1>5, ScopeType DEF TxnStep

LEMMA ChallanStepEvidence ==
    ASSUME EvidenceInv, NEW w \in Workers, ChallanStep(w)
    PROVE  EvidenceInv' /\ SettleStep
<1>0. TypeOK /\ TypeOK' /\ work[w] \in Request /\ EvidenceOf(work[w])
  BY ChallanStepType DEF EvidenceInv, TypeOK
<1>00. /\ \A c \in Challans : challanSum[c] \in Nat
       /\ \A t \in Txns : txnSum[t] \in Nat
  BY <1>0 DEF TypeOK
<1>1. ASSUME NEW c \in Challans, NEW a \in Nat, ChallanCreate(w, c, a)
      PROVE  EvidenceInv' /\ SettleStep
  <2> DEFINE row == [status |-> "DRAFT", amount |-> RoundMoney(a)]
  <2>1. row.status # "RECONCILED"
    OBVIOUS
  <2>2. challans' = [challans EXCEPT ![c] = row]
        /\ UNCHANGED <<txns, challanSum, txnSum, links>> /\ work' = work
    BY <1>1 DEF ChallanCreate
  <2> HIDE DEF row
  <2>3. SettleStep
    BY <1>0, <2>1, <2>2 DEF SettleStep, TypeOK
  <2>4. \A x \in Workers : EvidenceOf(work[x])'
    BY <2>2 DEF EvidenceInv, EvidenceOf
  <2> QED
    BY <1>0, <2>3, <2>4 DEF EvidenceInv
<1>2. ASSUME NEW c \in Challans, NEW to \in ChallanStatus, NEW a \in Nat,
             NEW next \in {"commit", "sum"}, EditLoads(w, c, to, a, next)
      PROVE  EvidenceInv' /\ SettleStep
  <2> DEFINE r == [Idle EXCEPT !.op = "edit", !.challan = c, !.challans[c] = challans[c],
                     !.status = to, !.amount = a, !.pc = next]
  <2>1. to # "RECONCILED"
    BY <1>0, <1>2 DEF EditLoads, EditLoad, Transitions, TypeOK, ChallanRow, ChallanStatus
  <2>2. r.op = "edit" /\ r.status = to /\ r.settled = {}
    BY DEF Idle
  <2>3. work' = [work EXCEPT ![w] = r] /\ UNCHANGED Rows
    BY <1>2 DEF EditLoads, EditLoad, Begin
  <2> HIDE DEF r
  <2>4. EvidenceOf(r)
    BY <2>1, <2>2 DEF EvidenceOf
  <2> QED
    BY <1>0, <2>3, <2>4, SelectEvidence DEF Rows
<1>3. CASE EditSum(w)
  <2>1. CASE Refuse(w)
    BY <2>1, RefuseEvidence
  <2>2. CASE ~Refuse(w)
    <3> DEFINE r == [work[w] EXCEPT !.pc = "commit", !.amount = RoundMoney(@)]
    <3>1. work' = [work EXCEPT ![w] = r] /\ UNCHANGED Rows
          /\ work[w].op = "edit" /\ work[w].pc = "sum"
      BY <1>0, <1>3, <2>2 DEF EditSum, At
    <3>2. r.op = "edit" /\ r.status = work[w].status /\ r.settled = work[w].settled
      BY <1>0, <3>1 DEF Request
    <3> HIDE DEF r
    <3>3. EvidenceOf(r)
      BY <1>0, <3>1, <3>2 DEF EvidenceOf
    <3> QED
      BY <1>0, <3>1, <3>3, SelectEvidence DEF Rows
  <2> QED
    BY <2>1, <2>2
<1>4. CASE EditCommit(w)
  <2> DEFINE c == work[w].challan
             new == OverlayChallan(challans[c], work[w].challans[c],
                                   [status |-> work[w].status, amount |-> work[w].amount])
  <2>1. c \in Challans /\ work[w].status # "RECONCILED"
    BY <1>0, <1>4 DEF EditCommit, At, Request, EvidenceOf
  <2>2. new.status = "RECONCILED" => challans[c].status = "RECONCILED"
    BY <2>1 DEF OverlayChallan
  <2>3. challans' = [challans EXCEPT ![c] = new] /\ UNCHANGED <<txns, challanSum, txnSum, links>>
        /\ work' = [work EXCEPT ![w] = Idle]
    BY <1>4 DEF EditCommit, End
  <2> HIDE DEF new
  <2>4. SettleStep
    BY <1>0, <2>1, <2>2, <2>3 DEF SettleStep, TypeOK
  <2>5. /\ \A d \in Challans : challanSum'[d] >= challanSum[d]
        /\ \A u \in Txns : txnSum'[u] >= txnSum[u]
    BY <1>00, <2>3
  <2>6. EvidenceInv'
    BY <1>0, <2>3, <2>5, CommitEvidence
  <2> QED
    BY <2>4, <2>6
<1> QED
  BY <1>0, <1>1, <1>2, <1>3, <1>4, ChallanSteps

LEMMA AllocateStepEvidence ==
    ASSUME EvidenceInv, NEW w \in Workers, AllocateStep(w)
    PROVE  EvidenceInv' /\ SettleStep
<1>0. TypeOK /\ TypeOK' /\ work[w] \in Request /\ EvidenceOf(work[w])
  BY AllocateStepType DEF EvidenceInv, TypeOK
<1>00. /\ \A c \in Challans : challanSum[c] \in Nat
       /\ \A t \in Txns : txnSum[t] \in Nat
  BY <1>0 DEF TypeOK
<1>1. ASSUME NEW r, work' = [work EXCEPT ![w] = r], UNCHANGED Rows, r.op = "allocate",
             r.settled = {}, r.pc = "commit" => r.txnSum <= txnSum[r.txn]
      PROVE  EvidenceInv' /\ SettleStep
  <2>1. EvidenceOf(r)
    BY <1>1 DEF EvidenceOf
  <2> QED
    BY <1>0, <1>1, <2>1, SelectEvidence DEF Rows
<1>2. ASSUME NEW c \in Challans, NEW t \in Txns, NEW a \in Nat, AllocateLoad(w, c, t, a)
      PROVE  EvidenceInv' /\ SettleStep
  <2> DEFINE r == [Idle EXCEPT !.op = "allocate", !.pc = "txn", !.challan = c, !.txn = t,
                               !.amount = RoundMoney(a), !.challans[c] = challans[c]]
  <2>1. r.op = "allocate" /\ r.settled = {} /\ r.pc = "txn"
    BY DEF Idle
  <2>2. work' = [work EXCEPT ![w] = r] /\ UNCHANGED Rows
    BY <1>2 DEF AllocateLoad, Begin
  <2> HIDE DEF r
  <2> QED
    BY <1>1, <2>1, <2>2
<1>3. CASE AllocateTxn(w)
  <2>1. CASE Refuse(w)
    BY <2>1, RefuseEvidence
  <2>2. CASE ~Refuse(w)
    <3> DEFINE r == [work[w] EXCEPT !.txns[work[w].txn] = txns[work[w].txn], !.pc = "challanSum"]
    <3>1. work' = [work EXCEPT ![w] = r] /\ UNCHANGED Rows
          /\ work[w].op = "allocate" /\ work[w].pc = "txn"
      BY <1>3, <2>2 DEF AllocateTxn, At
    <3>2. r.op = "allocate" /\ r.pc = "challanSum" /\ r.settled = {}
      BY <1>0, <3>1 DEF Request, EvidenceOf
    <3> HIDE DEF r
    <3> QED
      BY <1>1, <3>1, <3>2
  <2> QED
    BY <2>1, <2>2
<1>4. CASE AllocateChallanSum(w)
  <2>1. CASE Refuse(w)
    BY <2>1, RefuseEvidence
  <2>2. CASE ~Refuse(w)
    <3> DEFINE r == [work[w] EXCEPT !.pc = "txnSum"]
    <3>1. work' = [work EXCEPT ![w] = r] /\ UNCHANGED Rows
          /\ work[w].op = "allocate" /\ work[w].pc = "challanSum"
      BY <1>4, <2>2 DEF AllocateChallanSum, At
    <3>2. r.op = "allocate" /\ r.pc = "txnSum" /\ r.settled = {}
      BY <1>0, <3>1 DEF Request, EvidenceOf
    <3> HIDE DEF r
    <3> QED
      BY <1>1, <3>1, <3>2
  <2> QED
    BY <2>1, <2>2
<1>5. CASE AllocateTxnSum(w)
  <2>1. CASE Refuse(w)
    BY <2>1, RefuseEvidence
  <2>2. CASE ~Refuse(w)
    <3> DEFINE r == [work[w] EXCEPT !.txnSum = txnSum[work[w].txn], !.pc = "commit"]
    <3>1. work' = [work EXCEPT ![w] = r] /\ UNCHANGED Rows
          /\ work[w].op = "allocate" /\ work[w].pc = "txnSum"
      BY <1>5, <2>2 DEF AllocateTxnSum, At
    <3>2. r.op = "allocate" /\ r.settled = {} /\ r.txn = work[w].txn
          /\ r.txnSum = txnSum[work[w].txn] /\ r.txn \in Txns
      BY <1>0, <3>1 DEF Request, EvidenceOf
    <3> HIDE DEF r
    <3>3. r.txnSum <= txnSum[r.txn]
      BY <1>00, <3>2
    <3> QED
      BY <1>1, <3>1, <3>2, <3>3
  <2> QED
    BY <2>1, <2>2
<1>6. CASE AllocateCommit(w)
  <2> DEFINE t == work[w].txn
             c == work[w].challan
             a == work[w].amount
             loaded == work[w].txns[t]
             pays == work[w].challans[c].status = "PAID" /\ work[w].txnSum + a >= loaded.tds
             new == [loaded EXCEPT !.status = IF pays THEN "PAID" ELSE @]
             row == OverlayTxn(txns[t], loaded, new)
  <2>1. t \in Txns /\ c \in Challans /\ a \in Nat /\ work[w].txnSum \in Nat /\ loaded \in TxnRow
        /\ work[w].txnSum <= txnSum[t] /\ At(w, "allocate", "commit")
    BY <1>0, <1>6 DEF Request, AllocateCommit, At, EvidenceOf
  <2>2. row.status = "PAID" => txns[t].status = "PAID" \/ pays
    <3>1. ~pays => new.status = loaded.status
      BY <2>1 DEF TxnRow
    <3> QED
      BY <3>1 DEF OverlayTxn
  <2>3. /\ challanSum' = [challanSum EXCEPT ![c] = @ + a]
        /\ txnSum' = [txnSum EXCEPT ![t] = @ + a]
        /\ links' = links \cup {<<c, t>>}
        /\ txns' = [txns EXCEPT ![t] = row]
        /\ work' = [work EXCEPT ![w] = Idle] /\ challans' = challans
    BY <1>6 DEF AllocateCommit, End
  <2> HIDE DEF row, new
  <2>4. /\ \A d \in Challans : challanSum'[d] >= challanSum[d]
        /\ \A u \in Txns : txnSum'[u] >= txnSum[u]
        /\ txnSum'[t] = txnSum[t] + a
    BY <1>0, <1>00, <2>1, <2>3 DEF TypeOK
  <2>5. pays => txnSum'[t] >= loaded.tds
    BY <1>00, <2>1, <2>4 DEF TxnRow
  <2>6. ASSUME NEW u \in Txns, txns[u].status # "PAID", txns'[u].status = "PAID"
        PROVE  u = t /\ pays
    BY <1>0, <2>1, <2>2, <2>3, <2>6 DEF TypeOK
  <2>7. SettleStep
    BY <2>1, <2>3, <2>5, <2>6 DEF SettleStep
  <2>8. EvidenceInv'
    BY <1>0, <2>3, <2>4, CommitEvidence
  <2> QED
    BY <2>7, <2>8
<1> QED
  BY <1>2, <1>3, <1>4, <1>5, <1>6, ScopeType DEF AllocateStep

LEMMA ReconcileStepEvidence ==
    ASSUME EvidenceInv, NEW w \in Workers, ReconcileStep(w)
    PROVE  EvidenceInv' /\ SettleStep
<1>0. TypeOK /\ TypeOK' /\ work[w] \in Request /\ EvidenceOf(work[w])
  BY ReconcileStepType DEF EvidenceInv, TypeOK
<1>00. /\ \A c \in Challans : challanSum[c] \in Nat
       /\ \A t \in Txns : txnSum[t] \in Nat
  BY <1>0 DEF TypeOK
<1>1. ASSUME NEW r, work' = [work EXCEPT ![w] = r],
             UNCHANGED <<challans, txns, challanSum, txnSum, links>>,
             r.op = "reconcile", r.settled = {}
      PROVE  EvidenceInv' /\ SettleStep
  <2>1. EvidenceOf(r)
    BY <1>1 DEF EvidenceOf
  <2> QED
    BY <1>0, <1>1, <2>1, SelectEvidence
<1>2. CASE ReconcileBegin(w)
  <2> DEFINE r == [Idle EXCEPT !.op = "reconcile", !.pc = "clear", !.run = runs + 1,
                               !.cleared = findings]
  <2>1. r.op = "reconcile" /\ r.settled = {}
    BY DEF Idle
  <2>2. work' = [work EXCEPT ![w] = r] /\ UNCHANGED <<challans, txns, challanSum, txnSum, links>>
    BY <1>2 DEF ReconcileBegin, Begin
  <2> HIDE DEF r
  <2> QED
    BY <1>1, <2>1, <2>2
<1>3. CASE ReconcileClear(w)
  <2> DEFINE r == [work[w] EXCEPT !.cleared = @ \cap findings, !.pc = "list"]
  <2>1. r.op = "reconcile" /\ r.settled = {}
    BY <1>0, <1>3 DEF ReconcileClear, At, Request, EvidenceOf
  <2>2. work' = [work EXCEPT ![w] = r] /\ UNCHANGED Rows
    BY <1>3 DEF ReconcileClear
  <2> HIDE DEF r
  <2> QED
    BY <1>1, <2>1, <2>2 DEF Rows
<1>4. CASE ReconcileTxnList(w)
  <2> DEFINE r == [work[w] EXCEPT !.todo = {t \in Txns : txns[t].status \in AllocatableTo},
                                  !.txns = txns, !.pc = "txns"]
  <2>1. r.op = "reconcile" /\ r.settled = {}
    BY <1>0, <1>4 DEF ReconcileTxnList, At, Request, EvidenceOf
  <2>2. work' = [work EXCEPT ![w] = r] /\ UNCHANGED Rows
    BY <1>4 DEF ReconcileTxnList
  <2> HIDE DEF r
  <2> QED
    BY <1>1, <2>1, <2>2 DEF Rows
<1>5. ASSUME NEW t \in Txns, ReconcileTxn(w, t)
      PROVE  EvidenceInv' /\ SettleStep
  <2> DEFINE f == [run |-> work[w].run, about |-> t,
                   status |-> TxnFinding(work[w].txns[t].tds, txnSum[t])]
             r == [work[w] EXCEPT !.todo = @ \ {t}, !.found = @ \cup {f}]
  <2>1. r.op = "reconcile" /\ r.settled = {}
    BY <1>0, <1>5 DEF ReconcileTxn, At, Request, EvidenceOf
  <2>2. work' = [work EXCEPT ![w] = r] /\ UNCHANGED Rows
    BY <1>5 DEF ReconcileTxn
  <2> HIDE DEF r
  <2> QED
    BY <1>1, <2>1, <2>2 DEF Rows
<1>6. CASE ReconcileChallanList(w)
  <2> DEFINE r == [work[w] EXCEPT !.pc = "challans", !.challans = challans,
                      !.todo = {c \in Challans : challans[c].status \notin {"NONE", "CANCELLED"}}]
  <2>1. r.op = "reconcile" /\ r.settled = {}
    BY <1>0, <1>6 DEF ReconcileChallanList, At, Request, EvidenceOf
  <2>2. work' = [work EXCEPT ![w] = r] /\ UNCHANGED Rows
    BY <1>6 DEF ReconcileChallanList
  <2> HIDE DEF r
  <2> QED
    BY <1>1, <2>1, <2>2 DEF Rows
<1>7. ASSUME NEW c \in Challans, ReconcileChallan(w, c)
      PROVE  EvidenceInv' /\ SettleStep
  <2> DEFINE row == work[w].challans[c]
             fs == {f \in {[run |-> work[w].run, about |-> c, status |-> "UNALLOCATED_PAYMENT"]} :
                       Unallocated(row, challanSum[c])}
             cs == {x \in {c} : Settles(row, challanSum[c])}
             r == [work[w] EXCEPT !.todo = @ \ {c}, !.found = @ \cup fs, !.settled = @ \cup cs]
  <2>1. work' = [work EXCEPT ![w] = r] /\ UNCHANGED Rows
    BY <1>7 DEF ReconcileChallan
  <2>2. \A d \in cs : work[w].challans[d].status = "PAID"
                      /\ challanSum[d] >= work[w].challans[d].amount
    <3>1. challanSum[c] \in Nat
      BY <1>00
    <3> QED
      BY <3>1 DEF Settles
  <2> HIDE DEF fs, cs
  <2>3. r.op = "reconcile" /\ r.pc = "challans" /\ r.challans = work[w].challans
        /\ r.settled = work[w].settled \cup cs
    BY <1>0, <1>7 DEF ReconcileChallan, At, Request
  <2> HIDE DEF r
  <2>4. EvidenceOf(r)
    BY <1>0, <2>2, <2>3 DEF EvidenceOf
  <2> QED
    BY <1>0, <2>1, <2>4, SelectEvidence DEF Rows
<1>8. CASE ReconcileCommit(w)
  <2>1. /\ UNCHANGED <<txns, challanSum, txnSum, links>> /\ work' = [work EXCEPT ![w] = Idle]
        /\ At(w, "reconcile", "challans")
        /\ \A c \in Challans : c \in work[w].settled \/ challans'[c] = challans[c]
    BY <1>8 DEF ReconcileCommit, End
  <2>2. SettleStep
    BY <1>0, <2>1 DEF SettleStep, EvidenceOf
  <2>3. /\ \A d \in Challans : challanSum'[d] >= challanSum[d]
        /\ \A u \in Txns : txnSum'[u] >= txnSum[u]
    BY <1>00, <2>1
  <2>4. EvidenceInv'
    BY <1>0, <2>1, <2>3, CommitEvidence
  <2> QED
    BY <2>2, <2>4
<1> QED
  BY <1>2, <1>3, <1>4, <1>5, <1>6, <1>7, <1>8 DEF ReconcileStep

\* However requests interleave, a challan becomes RECONCILED only by a run that listed
\* it PAID and finds the listed amount allocated, and a transaction PAID only by an
\* allocation from a challan loaded as PAID that covers the TDS loaded with it.
THEOREM SettledOnEvidenceHolds == Spec => SettledOnEvidence
<1>1. Init => EvidenceInv
  <2> SUFFICES ASSUME Init PROVE EvidenceInv
    OBVIOUS
  <2>1. TypeOK
    BY InitType
  <2>2. \A w \in Workers : EvidenceOf(work[w])
    BY IdleEvidence DEF Init
  <2> QED
    BY <2>1, <2>2 DEF EvidenceInv
<1>2. EvidenceInv /\ [Next]_vars => EvidenceInv' /\ [SettleStep]_vars
  <2> SUFFICES ASSUME EvidenceInv, [Next]_vars PROVE EvidenceInv' /\ [SettleStep]_vars
    OBVIOUS
  <2>1. CASE UNCHANGED vars
    <3>1. TypeOK'
      BY StepType DEF EvidenceInv
    <3>2. \A w \in Workers : EvidenceOf(work[w])'
      BY <2>1 DEF vars, EvidenceInv, EvidenceOf
    <3> QED
      BY <2>1, <3>1, <3>2 DEF EvidenceInv
  <2>2. CASE Next
    BY <2>2, TxnStepEvidence, ChallanStepEvidence, AllocateStepEvidence, ReconcileStepEvidence DEF Next
  <2> QED
    BY <2>1, <2>2
<1> QED
  BY <1>1, <1>2, PTL DEF Spec, SettledOnEvidence, SettleStep

-----------------------------------------------------------------------------
(* What requests one after the other keep                                   *)

\* A step is taken by a worker of the crew and neither adds a worker to it nor
\* removes one.
LEMMA StepOn ==
    ASSUME TypeOK, NEW w \in Workers,
           TxnStep(w) \/ ChallanStep(w) \/ AllocateStep(w) \/ ReconcileStep(w)
    PROVE  /\ work[w].pc # "off" /\ work'[w].pc # "off"
           /\ \A x \in Workers \ {w} : work'[x] = work[x]
<1>0. work \in [Workers -> Request] /\ work[w] \in Request /\ Idle.pc = "idle"
  BY DEF TypeOK, Idle
<1>1. ASSUME NEW r, work' = [work EXCEPT ![w] = r], work[w].pc # "off", r.pc # "off"
      PROVE  /\ work[w].pc # "off" /\ work'[w].pc # "off"
             /\ \A x \in Workers \ {w} : work'[x] = work[x]
  BY <1>0, <1>1
<1>2. ASSUME End(w), work[w].pc # "off"
      PROVE  work[w].pc # "off" /\ work'[w].pc # "off"
             /\ \A x \in Workers \ {w} : work'[x] = work[x]
  BY <1>0, <1>2 DEF End
<1>3. CASE TxnStep(w)
  <2>1. ASSUME NEW t \in Txns, NEW new, LoadTxn(w, t, new)
        PROVE  work[w].pc = "idle" /\ work'[w].pc # "off"
               /\ \A x \in Workers \ {w} : work'[x] = work[x]
    BY <1>0, <2>1 DEF LoadTxn, Begin, IsIdle, Idle
  <2>2. CASE \E t \in Txns : TxnCreate(w, t) \/ \E d \in TdsAmounts \cup {0} : TxnImport(w, t, d)
    BY <1>0, <2>2 DEF TxnCreate, TxnImport, IsIdle
  <2>3. CASE \E t \in Txns : Calculate(w, t) \/ Override(w, t) \/ Deduct(w, t) \/ CancelTxn(w, t)
    BY <2>1, <2>3, ScopeType DEF Calculate, Override, Deduct, CancelTxn
  <2>4. CASE TxnCommit(w)
    BY <1>2, <2>4 DEF TxnCommit, At
  <2> QED
    BY <1>3, <2>2, <2>3, <2>4, ScopeType DEF TxnStep
<1>4. CASE ChallanStep(w)
  <2>1. CASE \E c \in Challans, a \in Nat : ChallanCreate(w, c, a)
    BY <1>0, <2>1 DEF ChallanCreate, IsIdle
  <2>2. CASE \E c \in Challans, to \in ChallanStatus, a \in Nat, next \in {"commit", "sum"} :
               EditLoads(w, c, to, a, next)
    BY <1>0, <2>2 DEF EditLoads, EditLoad, Begin, IsIdle, Idle
  <2>3. CASE EditSum(w)
    BY <1>0, <1>2, <2>3 DEF EditSum, Refuse, At, Request
  <2>4. CASE EditCommit(w)
    BY <1>2, <2>4 DEF EditCommit, At
  <2> QED
    BY <1>4, <2>1, <2>2, <2>3, <2>4, ChallanSteps
<1>5. CASE AllocateStep(w)
  <2>1. CASE \E c \in Challans, t \in Txns, a \in Nat : AllocateLoad(w, c, t, a)
    BY <1>0, <2>1 DEF AllocateLoad, Begin, IsIdle, Idle
  <2>2. CASE AllocateTxn(w)
    BY <1>0, <1>2, <2>2 DEF AllocateTxn, Refuse, At, Request
  <2>3. CASE AllocateChallanSum(w)
    BY <1>0, <1>2, <2>3 DEF AllocateChallanSum, Refuse, At, Request
  <2>4. CASE AllocateTxnSum(w)
    BY <1>0, <1>2, <2>4 DEF AllocateTxnSum, Refuse, At, Request
  <2>5. CASE AllocateCommit(w)
    BY <1>2, <2>5 DEF AllocateCommit, At
  <2> QED
    BY <1>5, <2>1, <2>2, <2>3, <2>4, <2>5, ScopeType DEF AllocateStep
<1>6. CASE ReconcileStep(w)
  <2>1. CASE ReconcileBegin(w)
    BY <1>0, <2>1 DEF ReconcileBegin, Begin, IsIdle, Idle
  <2>2. CASE ReconcileClear(w)
    BY <1>0, <2>2 DEF ReconcileClear, At, Request
  <2>3. CASE ReconcileTxnList(w)
    BY <1>0, <2>3 DEF ReconcileTxnList, At, Request
  <2>4. CASE \E t \in Txns : ReconcileTxn(w, t)
    BY <1>0, <2>4 DEF ReconcileTxn, At, Request
  <2>5. CASE ReconcileChallanList(w)
    BY <1>0, <2>5 DEF ReconcileChallanList, At, Request
  <2>6. CASE \E c \in Challans : ReconcileChallan(w, c)
    BY <1>0, <2>6 DEF ReconcileChallan, At, Request
  <2>7. CASE ReconcileCommit(w)
    BY <1>2, <2>7 DEF ReconcileCommit, At
  <2> QED
    BY <1>6, <2>1, <2>2, <2>3, <2>4, <2>5, <2>6, <2>7 DEF ReconcileStep
<1> QED
  BY <1>3, <1>4, <1>5, <1>6

LEMMA SerialKept ==
    ASSUME TypeOK, [Next]_vars
    PROVE  Serial' <=> Serial
<1>1. CASE UNCHANGED vars
  BY <1>1 DEF vars, Serial
<1>2. CASE Next
  <2>1. \A x \in Workers : work'[x].pc # "off" <=> work[x].pc # "off"
    BY <1>2, StepOn DEF Next
  <2> QED
    BY <2>1 DEF Serial
<1> QED
  BY <1>1, <1>2

\* The rows the only request has loaded are still the rows of the tables, and each
\* check it has passed still holds.
SerialOK(r) ==
    /\ r.pc \in {"idle", "off"} => r.op = "none"
    /\ r.op = "txn" => /\ r.txns[r.txn] = txns[r.txn]
                       /\ txns[r.txn].status \notin AllocatableTo
                       /\ r.newTxn.status # "PAID"
    /\ r.op = "edit" => /\ r.challans[r.challan] = challans[r.challan]
                        /\ challans[r.challan].status # "RECONCILED"
                        /\ r.status \notin {"NONE", "RECONCILED"}
                        /\ r.pc = "commit" => r.amount >= challanSum[r.challan]
    /\ r.op = "allocate" =>
          /\ r.challans[r.challan] = challans[r.challan]
          /\ challans[r.challan].status # "NONE"
          /\ r.pc # "txn" => /\ r.txns[r.txn] = txns[r.txn]
                             /\ txns[r.txn].status \in AllocatableTo
          /\ r.pc \in {"txnSum", "commit"} =>
                challanSum[r.challan] + r.amount <= challans[r.challan].amount
          /\ r.pc = "commit" => /\ r.txnSum = txnSum[r.txn]
                                /\ txnSum[r.txn] + r.amount <= txns[r.txn].tds
    /\ r.op = "reconcile" =>
          /\ r.pc = "challans" => r.challans = challans
          /\ r.pc # "challans" => r.settled = {}
          /\ \A c \in r.settled : challanSum[c] = challans[c].amount

\* Nothing is allocated to a challan that does not exist or to a transaction that is
\* not deducted.
NothingAllocatedEarly ==
    /\ \A c \in Challans : challans[c].status = "NONE" => challanSum[c] = 0
    /\ \A t \in Txns : txns[t].status \notin AllocatableTo => txnSum[t] = 0

RowsOK == AllocationsWithinBalance /\ SettledMeansAllocated /\ NothingAllocatedEarly

BalanceInv == TypeOK /\ RowsOK /\ \A w \in Workers : SerialOK(work[w])

LEMMA SerialSelect ==
    ASSUME Serial, BalanceInv, TypeOK', NEW w \in Workers, NEW r, SerialOK(r),
           work' = [work EXCEPT ![w] = r], UNCHANGED <<challans, txns, challanSum, txnSum>>
    PROVE  BalanceInv'
<1>1. \A x \in Workers : SerialOK(work'[x])
  BY DEF BalanceInv, TypeOK
<1>2. \A x : SerialOK(x)' <=> SerialOK(x')
  BY DEF SerialOK
<1>3. RowsOK'
  BY DEF BalanceInv, RowsOK, AllocationsWithinBalance, SettledMeansAllocated, NothingAllocatedEarly
<1> QED
  BY <1>1, <1>2, <1>3 DEF BalanceInv, SerialOK

\* With no other request a commit has only the rows to answer for.
LEMMA SerialCommit ==
    ASSUME Serial, BalanceInv, TypeOK', RowsOK', NEW w \in Workers, work[w].pc # "off",
           work' = [work EXCEPT ![w] = Idle] \/ (work' = work /\ work[w].pc = "idle")
    PROVE  BalanceInv'
<1>1. ASSUME NEW x \in Workers PROVE SerialOK(work[x])'
  <2>1. x # w => work[x].op = "none"
    BY DEF Serial, BalanceInv, SerialOK
  <2>2. CASE work' = [work EXCEPT ![w] = Idle]
    <3>1. work'[x].op = "none"
      BY <2>1, <2>2 DEF BalanceInv, TypeOK, Idle
    <3> QED
      BY <3>1 DEF SerialOK
  <2>3. CASE work' = work /\ work[w].pc = "idle"
    <3>1. work'[x].op = "none"
      BY <2>1, <2>3 DEF BalanceInv, SerialOK
    <3> QED
      BY <3>1 DEF SerialOK
  <2> QED
    BY <2>2, <2>3
<1> QED
  BY <1>1 DEF BalanceInv

LEMMA SerialRefuse ==
    ASSUME Serial, BalanceInv, NEW w \in Workers, work[w].pc # "off", Refuse(w)
    PROVE  BalanceInv'
<1>1. TypeOK'
  BY RefuseType DEF BalanceInv
<1>2. RowsOK'
  BY DEF Refuse, Rows, BalanceInv, RowsOK, AllocationsWithinBalance, SettledMeansAllocated,
         NothingAllocatedEarly
<1> QED
  BY <1>1, <1>2, SerialCommit DEF Refuse, End

LEMMA TxnStepBalance ==
    ASSUME Serial, BalanceInv, NEW w \in Workers, work[w].pc # "off", TxnStep(w)
    PROVE  BalanceInv'
<1>0. TypeOK /\ TypeOK' /\ RowsOK /\ work[w] \in Request /\ SerialOK(work[w])
  BY TxnStepType DEF BalanceInv, TypeOK
<1>1. ASSUME NEW t \in Txns, NEW row \in TxnRow, txns' = [txns EXCEPT ![t] = row],
             UNCHANGED <<challans, challanSum, txnSum>>,
             txns[t].status \notin AllocatableTo, row.status # "PAID"
      PROVE  RowsOK'
  <2>1. txnSum[t] = 0 /\ row.tds \in Nat
    BY <1>0, <1>1 DEF RowsOK, NothingAllocatedEarly, TxnRow
  <2> QED
    BY <1>0, <1>1, <2>1 DEF TypeOK, RowsOK, AllocationsWithinBalance, SettledMeansAllocated,
                            NothingAllocatedEarly
<1>2. ASSUME NEW t \in Txns, TxnCreate(w, t)
      PROVE  BalanceInv'
  <2>1. [status |-> "DRAFT", tds |-> 0] \in TxnRow
    BY DEF TxnRow, TxnStatus
  <2>2. RowsOK'
    BY <1>1, <1>2, <2>1 DEF TxnCreate, AllocatableTo
  <2> QED
    BY <1>0, <1>2, <2>2, SerialCommit DEF TxnCreate, IsIdle
<1>6. ASSUME NEW t \in Txns, NEW d \in TdsAmounts \cup {0}, TxnImport(w, t, d)
      PROVE  BalanceInv'
  <2>0. d \in Nat
    BY PaymentAssumption
  <2>1. [status |-> "DEDUCTED", tds |-> d] \in TxnRow
    BY <2>0 DEF TxnRow, TxnStatus
  <2>2. RowsOK'
    BY <1>1, <1>6, <2>1 DEF TxnImport, AllocatableTo
  <2> QED
    BY <1>0, <1>6, <2>2, SerialCommit DEF TxnImport, IsIdle
<1>3. ASSUME NEW t \in Txns, NEW new, LoadTxn(w, t, new), new.status # "PAID",
             txns[t].status \notin AllocatableTo
      PROVE  BalanceInv'
  <2> DEFINE r == [Idle EXCEPT !.op = "txn", !.pc = "commit", !.txn = t,
                               !.txns[t] = txns[t], !.newTxn = new]
  <2>1. SerialOK(r)
    BY <1>3 DEF SerialOK, Idle
  <2>2. work' = [work EXCEPT ![w] = r] /\ UNCHANGED <<challans, txns, challanSum, txnSum>>
    BY <1>3 DEF LoadTxn, Begin, Rows
  <2> HIDE DEF r
  <2> QED
    BY <1>0, <2>1, <2>2, SerialSelect
<1>4. ASSUME NEW t \in Txns, Calculate(w, t) \/ Override(w, t) \/ Deduct(w, t) \/ CancelTxn(w, t)
      PROVE  BalanceInv'
  <2>1. txns[t] \in TxnRow
    BY <1>0 DEF TypeOK
  <2>2. /\ \A d : [status |-> "CALCULATED", tds |-> d].status # "PAID"
        /\ \A d : [txns[t] EXCEPT !.tds = d].status = txns[t].status
        /\ \A s \in TxnStatus : [txns[t] EXCEPT !.status = s].status = s
    BY <2>1 DEF TxnRow
  <2>3. \E new : LoadTxn(w, t, new) /\ new.status # "PAID"
    <3>1. CASE Calculate(w, t)
      BY <2>2, <3>1, ScopeType DEF Calculate, TxnStatus
    <3>2. CASE Override(w, t)
      <4>1. PICK d : txns[t].status = "CALCULATED" /\ LoadTxn(w, t, [txns[t] EXCEPT !.tds = d])
        BY <3>2, Zenon DEF Override
      <4>2. PICK new : new = [txns[t] EXCEPT !.tds = d]
        OBVIOUS
      <4>3. LoadTxn(w, t, new)
        BY <4>1, <4>2, Zenon
      <4>4. new.status # "PAID"
        BY <2>2, <4>1, <4>2
      <4> QED
        BY <4>3, <4>4
    <3>3. CASE Deduct(w, t)
      BY <2>2, <3>3 DEF Deduct, TxnStatus
    <3>4. CASE CancelTxn(w, t)
      BY <2>2, <3>4 DEF CancelTxn, TxnStatus
    <3> QED
      BY <1>4, <3>1, <3>2, <3>3, <3>4
  <2>4. txns[t].status \notin AllocatableTo
    BY <1>4, ScopeType DEF Calculate, Override, Deduct, CancelTxn, CalculableFrom, CancellableFrom, AllocatableTo
  <2> QED
    BY <1>3, <2>3, <2>4
<1>5. CASE TxnCommit(w)
  <2> DEFINE t == work[w].txn
             new == OverlayTxn(txns[t], work[w].txns[t], work[w].newTxn)
  <2>1. t \in Txns /\ work[w].newTxn.status # "PAID" /\ txns[t].status \notin AllocatableTo
    BY <1>0, <1>5 DEF TxnCommit, At, Request, SerialOK
  <2>2. new \in TxnRow
    BY <1>0, OverlayType DEF Request, TypeOK
  <2>3. new.status # "PAID"
    BY <2>1 DEF OverlayTxn, AllocatableTo
  <2>4. txns' = [txns EXCEPT ![t] = new] /\ UNCHANGED <<challans, challanSum, txnSum>>
        /\ work' = [work EXCEPT ![w] = Idle]
    BY <1>5 DEF TxnCommit, End
  <2> HIDE DEF new
  <2>5. RowsOK'
    BY <1>1, <2>1, <2>2, <2>3, <2>4
  <2> QED
    BY <1>0, <2>4, <2>5, SerialCommit
<1> QED
  BY <1>2, <1>4, <1>5, <1>6, ScopeType DEF TxnStep

LEMMA ChallanStepBalance ==
    ASSUME Serial, BalanceInv, NEW w \in Workers, work[w].pc # "off", ChallanStep(w)
    PROVE  BalanceInv'
<1>0. TypeOK /\ TypeOK' /\ RowsOK /\ work[w] \in Request /\ SerialOK(work[w])
  BY ChallanStepType DEF BalanceInv, TypeOK
<1>1. ASSUME NEW c \in Challans, NEW row \in ChallanRow, challans' = [challans EXCEPT ![c] = row],
             UNCHANGED <<txns, challanSum, txnSum>>,
             challanSum[c] <= row.amount, row.status \notin {"NONE", "RECONCILED"}
      PROVE  RowsOK'
  BY <1>0, <1>1 DEF TypeOK, RowsOK, AllocationsWithinBalance, SettledMeansAllocated,
                    NothingAllocatedEarly
<1>2. ASSUME NEW c \in Challans, NEW a \in Nat, ChallanCreate(w, c, a)
      PROVE  BalanceInv'
  <2> DEFINE m == RoundMoney(a)
  <2>1. m \in Nat
    BY Rounded
  <2>2. challans' = [challans EXCEPT ![c] = [status |-> "DRAFT", amount |-> m]]
        /\ UNCHANGED <<txns, challanSum, txnSum>> /\ challans[c].status = "NONE"
    BY <1>2 DEF ChallanCreate
  <2> HIDE DEF m
  <2> DEFINE row == [status |-> "DRAFT", amount |-> m]
  <2>3. row \in ChallanRow /\ row.amount >= 0 /\ row.status \notin {"NONE", "RECONCILED"}
    BY <2>1 DEF ChallanRow, ChallanStatus
  <2>4. challanSum[c] = 0
    BY <1>0, <2>2 DEF RowsOK, NothingAllocatedEarly
  <2> HIDE DEF row
  <2>5. RowsOK'
    BY <1>1, <2>2, <2>3, <2>4 DEF row
  <2> QED
    BY <1>0, <1>2, <2>5, SerialCommit DEF ChallanCreate, IsIdle
<1>3. ASSUME NEW c \in Challans, NEW to \in ChallanStatus, NEW a \in Nat,
             NEW next \in {"commit", "sum"}, EditLoads(w, c, to, a, next)
      PROVE  BalanceInv'
  <2> DEFINE r == [Idle EXCEPT !.op = "edit", !.challan = c, !.challans[c] = challans[c],
                     !.status = to, !.amount = a, !.pc = next]
  <2>1. to \notin {"NONE", "RECONCILED"} /\ challans[c].status # "RECONCILED"
    BY <1>0, <1>3 DEF EditLoads, EditLoad, Transitions, TypeOK, ChallanRow, ChallanStatus
  <2>2. next = "commit" => a >= challanSum[c]
    BY <1>0, <1>3 DEF EditLoads, RowsOK, AllocationsWithinBalance, TypeOK, ChallanRow
  <2>4. r.op = "edit" /\ r.status = to /\ r.amount = a /\ r.challan = c /\ r.pc = next
        /\ r.challans[c] = challans[c]
    BY DEF Idle
  <2>5. work' = [work EXCEPT ![w] = r] /\ UNCHANGED <<challans, txns, challanSum, txnSum>>
    BY <1>3 DEF EditLoads, EditLoad, Begin, Rows
  <2> HIDE DEF r
  <2>6. SerialOK(r)
    BY <2>1, <2>2, <2>4 DEF SerialOK
  <2> QED
    BY <1>0, <2>5, <2>6, SerialSelect
<1>4. CASE EditSum(w)
  <2>1. CASE Refuse(w)
    BY <2>1, SerialRefuse
  <2>2. CASE ~Refuse(w)
    <3> DEFINE m == RoundMoney(work[w].amount)
               r == [work[w] EXCEPT !.pc = "commit", !.amount = m]
    <3>1. work' = [work EXCEPT ![w] = r] /\ UNCHANGED <<challans, txns, challanSum, txnSum>>
          /\ work[w].op = "edit" /\ ~(work[w].amount < Exact(challanSum[work[w].challan]))
      BY <1>0, <1>4, <2>2 DEF EditSum, Rows, At
    <3>2. work[w].amount \in Nat /\ challanSum[work[w].challan] \in Nat
      BY <1>0 DEF TypeOK, Request
    <3>3. m >= challanSum[work[w].challan]
      <4>1. work[w].amount >= Exact(challanSum[work[w].challan])
        BY <3>1, <3>2 DEF Exact
      <4> QED
        BY <3>2, <4>1, Rounded
    <3> HIDE DEF m
    <3>4. SerialOK(r)
      BY <1>0, <3>1, <3>3 DEF SerialOK, Request
    <3> HIDE DEF r
    <3> QED
      BY <1>0, <3>1, <3>4, SerialSelect
  <2> QED
    BY <2>1, <2>2
<1>5. CASE EditCommit(w)
  <2> DEFINE c == work[w].challan
             new == OverlayChallan(challans[c], work[w].challans[c],
                                   [status |-> work[w].status, amount |-> work[w].amount])
  <2>1. /\ c \in Challans /\ challans[c] \in ChallanRow /\ work[w].challans[c] = challans[c]
        /\ work[w].status \in ChallanStatus \ {"NONE", "RECONCILED"}
        /\ work[w].amount \in Nat /\ work[w].amount >= challanSum[c]
    BY <1>0, <1>5 DEF EditCommit, At, Request, SerialOK, TypeOK
  <2>2. new = [status |-> work[w].status, amount |-> work[w].amount]
    BY <2>1 DEF OverlayChallan, ChallanRow
  <2>3. new \in ChallanRow /\ challanSum[c] <= new.amount /\ new.status \notin {"NONE", "RECONCILED"}
    BY <1>0, <2>1, <2>2 DEF ChallanRow, TypeOK
  <2>4. challans' = [challans EXCEPT ![c] = new] /\ UNCHANGED <<txns, challanSum, txnSum>>
        /\ work' = [work EXCEPT ![w] = Idle]
    BY <1>5 DEF EditCommit, End
  <2> HIDE DEF new
  <2>5. RowsOK'
    BY <1>1, <2>1, <2>3, <2>4
  <2> QED
    BY <1>0, <2>4, <2>5, SerialCommit
<1> QED
  BY <1>2, <1>3, <1>4, <1>5, ChallanSteps DEF BalanceInv

LEMMA AllocateStepBalance ==
    ASSUME Serial, BalanceInv, NEW w \in Workers, work[w].pc # "off", AllocateStep(w)
    PROVE  BalanceInv'
<1>0. TypeOK /\ TypeOK' /\ RowsOK /\ work[w] \in Request /\ SerialOK(work[w])
  BY AllocateStepType DEF BalanceInv, TypeOK
<1>1. ASSUME NEW c \in Challans, NEW t \in Txns, NEW a \in Nat, AllocateLoad(w, c, t, a)
      PROVE  BalanceInv'
  <2> DEFINE r == [Idle EXCEPT !.op = "allocate", !.pc = "txn", !.challan = c, !.txn = t,
                               !.amount = RoundMoney(a), !.challans[c] = challans[c]]
  <2>1. r.op = "allocate" /\ r.pc = "txn" /\ r.challan = c /\ r.challans[c] = challans[c]
    BY DEF Idle
  <2>2. work' = [work EXCEPT ![w] = r] /\ UNCHANGED <<challans, txns, challanSum, txnSum>>
        /\ challans[c].status # "NONE"
    BY <1>1 DEF AllocateLoad, Begin, Rows
  <2> HIDE DEF r
  <2>3. SerialOK(r)
    BY <2>1, <2>2 DEF SerialOK
  <2> QED
    BY <1>0, <2>2, <2>3, SerialSelect
<1>2. CASE AllocateTxn(w)
  <2>1. CASE Refuse(w)
    BY <2>1, SerialRefuse
  <2>2. CASE ~Refuse(w)
    <3> DEFINE r == [work[w] EXCEPT !.txns[work[w].txn] = txns[work[w].txn], !.pc = "challanSum"]
    <3>1. work' = [work EXCEPT ![w] = r] /\ UNCHANGED <<challans, txns, challanSum, txnSum>>
          /\ work[w].op = "allocate" /\ txns[work[w].txn].status \in AllocatableTo
      BY <1>2, <2>2 DEF AllocateTxn, Rows, At
    <3>2. /\ r.op = "allocate" /\ r.pc = "challanSum" /\ r.challan = work[w].challan
          /\ r.txn = work[w].txn /\ r.amount = work[w].amount /\ r.challans = work[w].challans
          /\ r.txns[r.txn] = txns[r.txn]
      BY <1>0, <3>1 DEF Request
    <3> HIDE DEF r
    <3>3. SerialOK(r)
      BY <1>0, <3>1, <3>2 DEF SerialOK
    <3> QED
      BY <1>0, <3>1, <3>3, SerialSelect
  <2> QED
    BY <2>1, <2>2
<1>3. CASE AllocateChallanSum(w)
  <2>1. CASE Refuse(w)
    BY <2>1, SerialRefuse
  <2>2. CASE ~Refuse(w)
    <3> DEFINE r == [work[w] EXCEPT !.pc = "txnSum"]
    <3>1. work' = [work EXCEPT ![w] = r] /\ UNCHANGED <<challans, txns, challanSum, txnSum>>
          /\ work[w].op = "allocate" /\ work[w].pc = "challanSum"
          /\ ~(challanSum[work[w].challan] + work[w].amount
                   > work[w].challans[work[w].challan].amount)
      BY <1>3, <2>2 DEF AllocateChallanSum, Rows, At
    <3>2. challanSum[work[w].challan] + work[w].amount <= challans[work[w].challan].amount
      BY <1>0, <3>1 DEF TypeOK, Request, SerialOK, ChallanRow
    <3>3. /\ r.op = "allocate" /\ r.pc = "txnSum" /\ r.challan = work[w].challan
          /\ r.txn = work[w].txn /\ r.amount = work[w].amount /\ r.challans = work[w].challans
          /\ r.txns = work[w].txns
      BY <1>0, <3>1 DEF Request
    <3> HIDE DEF r
    <3>4. SerialOK(r)
      BY <1>0, <3>1, <3>2, <3>3 DEF SerialOK
    <3> QED
      BY <1>0, <3>1, <3>4, SerialSelect
  <2> QED
    BY <2>1, <2>2
<1>4. CASE AllocateTxnSum(w)
  <2>1. CASE Refuse(w)
    BY <2>1, SerialRefuse
  <2>2. CASE ~Refuse(w)
    <3> DEFINE r == [work[w] EXCEPT !.txnSum = txnSum[work[w].txn], !.pc = "commit"]
    <3>1. work' = [work EXCEPT ![w] = r] /\ UNCHANGED <<challans, txns, challanSum, txnSum>>
          /\ work[w].op = "allocate" /\ work[w].pc = "txnSum"
          /\ ~(txnSum[work[w].txn] + work[w].amount > work[w].txns[work[w].txn].tds)
      BY <1>4, <2>2 DEF AllocateTxnSum, Rows, At
    <3>2. txnSum[work[w].txn] + work[w].amount <= txns[work[w].txn].tds
      BY <1>0, <3>1 DEF TypeOK, Request, SerialOK, TxnRow
    <3>3. /\ r.op = "allocate" /\ r.pc = "commit" /\ r.challan = work[w].challan
          /\ r.txn = work[w].txn /\ r.amount = work[w].amount /\ r.challans = work[w].challans
          /\ r.txns = work[w].txns /\ r.txnSum = txnSum[work[w].txn]
      BY <1>0, <3>1 DEF Request
    <3> HIDE DEF r
    <3>4. SerialOK(r)
      BY <1>0, <3>1, <3>2, <3>3 DEF SerialOK
    <3> QED
      BY <1>0, <3>1, <3>4, SerialSelect
  <2> QED
    BY <2>1, <2>2
<1>5. CASE AllocateCommit(w)
  <2> DEFINE t == work[w].txn
             c == work[w].challan
             a == work[w].amount
             pays == work[w].challans[c].status = "PAID" /\ txnSum[t] + a >= txns[t].tds
  <2>1. /\ t \in Txns /\ c \in Challans /\ a \in Nat
        /\ work[w].txns[t] = txns[t] /\ txns[t].status \in AllocatableTo
        /\ challans[c].status # "NONE" /\ work[w].txnSum = txnSum[t]
        /\ challanSum[c] + a <= challans[c].amount /\ txnSum[t] + a <= txns[t].tds
    BY <1>0, <1>5 DEF AllocateCommit, At, Request, SerialOK
  <2>2. txns[t] \in TxnRow /\ challans[c].amount \in Nat /\ challanSum[c] \in Nat /\ txnSum[t] \in Nat
    BY <1>0, <2>1 DEF TypeOK, ChallanRow
  <2>3. OverlayTxn(txns[t], txns[t], [txns[t] EXCEPT !.status = IF pays THEN "PAID" ELSE @])
          = [status |-> IF pays THEN "PAID" ELSE txns[t].status, tds |-> txns[t].tds]
    BY <2>2 DEF OverlayTxn, TxnRow
  <2>4. /\ challanSum' = [challanSum EXCEPT ![c] = @ + a]
        /\ txnSum' = [txnSum EXCEPT ![t] = @ + a]
        /\ txns' = [txns EXCEPT ![t] = [status |-> IF pays THEN "PAID" ELSE txns[t].status,
                                         tds |-> txns[t].tds]]
        /\ work' = [work EXCEPT ![w] = Idle]
        /\ challans' = challans
    BY <1>0, <1>5, <2>1, <2>3 DEF AllocateCommit, End
  <2>5. /\ challans[c].status = "RECONCILED" => challanSum[c] + a = challans[c].amount
        /\ txns[t].status = "PAID" => txnSum[t] + a = txns[t].tds
    BY <1>0, <2>1, <2>2 DEF RowsOK, SettledMeansAllocated, TxnRow
  <2>6. pays => txnSum[t] + a = txns[t].tds
    BY <2>1, <2>2 DEF TxnRow
  <2>7. txns'[t].status = "PAID" => pays \/ txns[t].status = "PAID"
    BY <1>0, <2>1, <2>4, <2>5 DEF TypeOK
  <2>8. txns'[t].tds = txns[t].tds /\ txns'[t].status \in AllocatableTo
    BY <1>0, <2>1, <2>4 DEF TypeOK, AllocatableTo
  <2>9. challanSum'[c] = challanSum[c] + a /\ txnSum'[t] = txnSum[t] + a
    BY <1>0, <2>1, <2>4 DEF TypeOK
  <2>10. /\ \A u \in Txns \ {t} : txns'[u] = txns[u] /\ txnSum'[u] = txnSum[u]
         /\ \A d \in Challans \ {c} : challanSum'[d] = challanSum[d]
    BY <1>0, <2>1, <2>4, SMTT(30) DEF TypeOK
  <2> HIDE DEF pays
  <2>11. AllocationsWithinBalance' /\ SettledMeansAllocated' /\ NothingAllocatedEarly'
    BY <1>0, <2>1, <2>2, <2>4, <2>5, <2>6, <2>7, <2>8, <2>9, <2>10
       DEF RowsOK, AllocationsWithinBalance, SettledMeansAllocated, NothingAllocatedEarly
  <2> QED
    BY <1>0, <2>4, <2>11, SerialCommit DEF RowsOK
<1> QED
  BY <1>1, <1>2, <1>3, <1>4, <1>5, ScopeType DEF AllocateStep

LEMMA ReconcileStepBalance ==
    ASSUME Serial, BalanceInv, NEW w \in Workers, work[w].pc # "off", ReconcileStep(w)
    PROVE  BalanceInv'
<1>0. TypeOK /\ TypeOK' /\ RowsOK /\ work[w] \in Request /\ SerialOK(work[w])
  BY ReconcileStepType DEF BalanceInv, TypeOK
<1>1. ASSUME NEW r, work' = [work EXCEPT ![w] = r],
             UNCHANGED <<challans, txns, challanSum, txnSum>>,
             r.op = "reconcile", r.pc \notin {"idle", "off", "challans"}, r.settled = {}
      PROVE  BalanceInv'
  <2>1. SerialOK(r)
    BY <1>1 DEF SerialOK
  <2> QED
    BY <1>0, <1>1, <2>1, SerialSelect
<1>2. CASE ReconcileBegin(w)
  <2> DEFINE r == [Idle EXCEPT !.op = "reconcile", !.pc = "clear", !.run = runs + 1,
                               !.cleared = findings]
  <2>1. r.op = "reconcile" /\ r.pc = "clear" /\ r.settled = {}
    BY DEF Idle
  <2>2. work' = [work EXCEPT ![w] = r] /\ UNCHANGED <<challans, txns, challanSum, txnSum>>
    BY <1>2 DEF ReconcileBegin, Begin
  <2> HIDE DEF r
  <2> QED
    BY <1>1, <2>1, <2>2
<1>3. CASE ReconcileClear(w)
  <2> DEFINE r == [work[w] EXCEPT !.cleared = @ \cap findings, !.pc = "list"]
  <2>1. r.op = "reconcile" /\ r.pc = "list" /\ r.settled = {}
    BY <1>0, <1>3 DEF ReconcileClear, At, Request, SerialOK
  <2>2. work' = [work EXCEPT ![w] = r] /\ UNCHANGED <<challans, txns, challanSum, txnSum>>
    BY <1>3 DEF ReconcileClear, Rows
  <2> HIDE DEF r
  <2> QED
    BY <1>1, <2>1, <2>2
<1>4. CASE ReconcileTxnList(w)
  <2> DEFINE r == [work[w] EXCEPT !.todo = {t \in Txns : txns[t].status \in AllocatableTo},
                                  !.txns = txns, !.pc = "txns"]
  <2>1. r.op = "reconcile" /\ r.pc = "txns" /\ r.settled = {}
    BY <1>0, <1>4 DEF ReconcileTxnList, At, Request, SerialOK
  <2>2. work' = [work EXCEPT ![w] = r] /\ UNCHANGED <<challans, txns, challanSum, txnSum>>
    BY <1>4 DEF ReconcileTxnList, Rows
  <2> HIDE DEF r
  <2> QED
    BY <1>1, <2>1, <2>2
<1>5. ASSUME NEW t \in Txns, ReconcileTxn(w, t)
      PROVE  BalanceInv'
  <2> DEFINE f == [run |-> work[w].run, about |-> t,
                   status |-> TxnFinding(work[w].txns[t].tds, txnSum[t])]
             r == [work[w] EXCEPT !.todo = @ \ {t}, !.found = @ \cup {f}]
  <2>1. r.op = "reconcile" /\ r.pc = "txns" /\ r.settled = {}
    BY <1>0, <1>5 DEF ReconcileTxn, At, Request, SerialOK
  <2>2. work' = [work EXCEPT ![w] = r] /\ UNCHANGED <<challans, txns, challanSum, txnSum>>
    BY <1>5 DEF ReconcileTxn, Rows
  <2> HIDE DEF r
  <2> QED
    BY <1>1, <2>1, <2>2
<1>6. CASE ReconcileChallanList(w)
  <2> DEFINE r == [work[w] EXCEPT !.pc = "challans", !.challans = challans,
                      !.todo = {c \in Challans : challans[c].status \notin {"NONE", "CANCELLED"}}]
  <2>1. r.op = "reconcile" /\ r.pc = "challans" /\ r.challans = challans /\ r.settled = {}
    BY <1>0, <1>6 DEF ReconcileChallanList, At, Request, SerialOK
  <2>2. work' = [work EXCEPT ![w] = r] /\ UNCHANGED <<challans, txns, challanSum, txnSum>>
    BY <1>6 DEF ReconcileChallanList, Rows
  <2> HIDE DEF r
  <2>3. SerialOK(r)
    BY <2>1 DEF SerialOK
  <2> QED
    BY <1>0, <2>2, <2>3, SerialSelect
<1>7. ASSUME NEW c \in Challans, ReconcileChallan(w, c)
      PROVE  BalanceInv'
  <2> DEFINE row == work[w].challans[c]
             fs == {f \in {[run |-> work[w].run, about |-> c, status |-> "UNALLOCATED_PAYMENT"]} :
                       Unallocated(row, challanSum[c])}
             cs == {x \in {c} : Settles(row, challanSum[c])}
             r == [work[w] EXCEPT !.todo = @ \ {c}, !.found = @ \cup fs, !.settled = @ \cup cs]
  <2>1. work' = [work EXCEPT ![w] = r] /\ UNCHANGED <<challans, txns, challanSum, txnSum>>
    BY <1>7 DEF ReconcileChallan, Rows
  <2>2. \A d \in cs : challanSum[d] = challans[d].amount
    BY <1>0, <1>7 DEF ReconcileChallan, At, SerialOK, Settles
  <2> HIDE DEF fs, cs
  <2>3. r.op = "reconcile" /\ r.pc = "challans" /\ r.challans = challans
        /\ r.settled = work[w].settled \cup cs
    BY <1>0, <1>7 DEF ReconcileChallan, At, Request, SerialOK
  <2> HIDE DEF r
  <2>4. SerialOK(r)
    BY <1>0, <1>7, <2>2, <2>3 DEF ReconcileChallan, At, SerialOK
  <2> QED
    BY <1>0, <2>1, <2>4, SerialSelect
<1>8. CASE ReconcileCommit(w)
  <2>1. /\ UNCHANGED <<txns, challanSum, txnSum>> /\ work' = [work EXCEPT ![w] = Idle]
        /\ \A c \in Challans :
              \/ c \in work[w].settled /\ challans'[c] = [challans[c] EXCEPT !.status = "RECONCILED"]
              \/ challans'[c] = challans[c]
    BY <1>8 DEF ReconcileCommit, End
  <2>2. \A c \in work[w].settled : challanSum[c] = challans[c].amount
    BY <1>0, <1>8 DEF ReconcileCommit, At, SerialOK
  <2>3. \A c \in Challans :
           /\ challans'[c].amount = challans[c].amount
           /\ \/ challans'[c].status = challans[c].status
              \/ challans'[c].status = "RECONCILED" /\ challanSum[c] = challans[c].amount
    BY <1>0, <2>1, <2>2 DEF TypeOK, ChallanRow
  <2>4. RowsOK'
    BY <1>0, <2>1, <2>3 DEF RowsOK, AllocationsWithinBalance, SettledMeansAllocated,
                            NothingAllocatedEarly
  <2> QED
    BY <1>0, <2>1, <2>4, SerialCommit
<1> QED
  BY <1>2, <1>3, <1>4, <1>5, <1>6, <1>7, <1>8 DEF ReconcileStep

LEMMA BalanceInvHolds == Spec => [](Serial => BalanceInv)
<1> DEFINE Inv == TypeOK /\ (Serial => BalanceInv)
<1>1. Init => Inv
  <2> SUFFICES ASSUME Init PROVE Inv
    OBVIOUS
  <2>1. TypeOK
    BY InitType
  <2>2. RowsOK
    BY DEF Init, RowsOK, AllocationsWithinBalance, SettledMeansAllocated, NothingAllocatedEarly,
           NoChallan, NoTxn
  <2>3. SerialOK(Idle) /\ SerialOK(Off)
    BY DEF SerialOK, Idle, Off
  <2>4. \A w \in Workers : work[w] \in {Idle, Off}
    BY DEF Init
  <2>5. \A w \in Workers : SerialOK(work[w])
    BY <2>3, <2>4
  <2> QED
    BY <2>1, <2>2, <2>5 DEF BalanceInv
<1>2. Inv /\ [Next]_vars => Inv'
  <2> SUFFICES ASSUME Inv, [Next]_vars PROVE Inv'
    OBVIOUS
  <2>1. TypeOK'
    BY StepType
  <2>2. Serial' => Serial
    BY SerialKept
  <2>3. ASSUME Serial PROVE BalanceInv'
    <3>1. BalanceInv
      BY <2>3
    <3>2. CASE UNCHANGED vars
      <4>1. UNCHANGED <<challans, txns, challanSum, txnSum, work>>
        BY <3>2 DEF vars
      <4>2. \A w \in Workers : SerialOK(work[w])'
        BY <3>1, <4>1 DEF BalanceInv, SerialOK
      <4>3. RowsOK'
        BY <2>3, <3>1, <4>1 DEF BalanceInv, RowsOK, AllocationsWithinBalance,
                                SettledMeansAllocated, NothingAllocatedEarly
      <4> QED
        BY <2>1, <4>2, <4>3 DEF BalanceInv
    <3>3. CASE Next
      BY <2>3, <3>1, <3>3, StepOn, TxnStepBalance, ChallanStepBalance, AllocateStepBalance,
         ReconcileStepBalance DEF Next
    <3> QED
      BY <3>2, <3>3
  <2> QED
    BY <2>1, <2>2, <2>3
<1>3. Inv => (Serial => BalanceInv)
  OBVIOUS
<1> HIDE DEF Inv
<1> QED
  BY <1>1, <1>2, <1>3, PTL DEF Spec

\* With requests one after the other no challan and no transaction is ever
\* allocated more than its amount.
THEOREM AllocationsStayWithinBalance == Spec => []AllocationsWithinBalance
<1>1. (Serial => BalanceInv) => AllocationsWithinBalance
  BY DEF BalanceInv, RowsOK, AllocationsWithinBalance
<1> QED
  BY <1>1, BalanceInvHolds, PTL

\* With requests one after the other RECONCILED and PAID mean allocated in full.
THEOREM SettledStaysAllocated == Spec => []SettledMeansAllocated
<1>1. (Serial => BalanceInv) => SettledMeansAllocated
  BY DEF BalanceInv, RowsOK, SettledMeansAllocated
<1> QED
  BY <1>1, BalanceInvHolds, PTL

-----------------------------------------------------------------------------
(* What a deduction keeps, and what a run finds                             *)

\* The rows of the transactions change in a commit alone, and no commit moves the TDS of
\* a deducted one.
LEMMA DeductedKept ==
    ASSUME Serial, BalanceInv, NEW w \in Workers, work[w].pc # "off",
           TxnStep(w) \/ ChallanStep(w) \/ AllocateStep(w) \/ ReconcileStep(w),
           NEW t \in Txns, txns[t].status \in AllocatableTo
    PROVE  /\ txns'[t].tds = txns[t].tds
           /\ txns'[t].status \in {txns[t].status, "PAID"}
<1>0. TypeOK /\ work[w] \in Request /\ SerialOK(work[w]) /\ txns[t] \in TxnRow
  BY DEF BalanceInv, TypeOK
<1>1. CASE TxnStep(w)
  <2>1. ASSUME NEW u \in Txns, TxnCreate(w, u) \/ \E d \in TdsAmounts \cup {0} : TxnImport(w, u, d)
        PROVE  txns'[t] = txns[t]
    BY <1>0, <2>1 DEF TxnCreate, TxnImport, TypeOK, AllocatableTo
  <2>2. ASSUME NEW u \in Txns, NEW new, LoadTxn(w, u, new) PROVE txns' = txns
    BY <2>2 DEF LoadTxn, Rows
  <2>3. ASSUME NEW u \in Txns, Calculate(w, u) \/ Override(w, u) \/ Deduct(w, u) \/ CancelTxn(w, u)
        PROVE  txns' = txns
    BY <2>2, <2>3 DEF Calculate, Override, Deduct, CancelTxn
  <2>4. CASE TxnCommit(w)
    <3>1. work[w].txn # t
      BY <1>0, <2>4 DEF TxnCommit, At, SerialOK
    <3> QED
      BY <1>0, <2>4, <3>1 DEF TxnCommit, TypeOK
  <2> QED
    BY <1>1, <2>1, <2>3, <2>4, ScopeType DEF TxnStep
<1>2. CASE ChallanStep(w)
  <2>1. txns' = txns
    BY <1>2 DEF ChallanStep, ChallanCreate, EditLoad, EditSum, EditCommit, Refuse, Rows
  <2> QED
    BY <2>1
<1>3. CASE AllocateStep(w)
  <2>1. CASE AllocateCommit(w)
    <3> DEFINE u == work[w].txn
               pays == work[w].challans[work[w].challan].status = "PAID"
                          /\ work[w].txnSum + work[w].amount >= work[w].txns[u].tds
               new == [work[w].txns[u] EXCEPT !.status = IF pays THEN "PAID" ELSE @]
    <3>1. u \in Txns /\ work[w].txns[u] = txns[u] /\ txns[u] \in TxnRow
      BY <1>0, <2>1 DEF AllocateCommit, At, Request, SerialOK, TypeOK
    <3>2. txns' = [txns EXCEPT ![u] = OverlayTxn(txns[u], txns[u], new)]
      BY <2>1, <3>1 DEF AllocateCommit
    <3>3. new.tds = txns[u].tds /\ new.status \in {txns[u].status, "PAID"}
      BY <3>1 DEF TxnRow
    <3> HIDE DEF new, pays
    <3>4. /\ OverlayTxn(txns[u], txns[u], new).tds = txns[u].tds
          /\ OverlayTxn(txns[u], txns[u], new).status \in {txns[u].status, "PAID"}
      BY <3>3, SMTT(30) DEF OverlayTxn
    <3> HIDE DEF u
    <3> QED
      BY <1>0, <3>1, <3>2, <3>4 DEF TypeOK
  <2>2. CASE ~AllocateCommit(w)
    <3>1. txns' = txns
      BY <1>3, <2>2, ZenonT(60) DEF AllocateStep, AllocateLoad, AllocateTxn, AllocateChallanSum,
         AllocateTxnSum, Refuse, Rows
    <3> QED
      BY <3>1
  <2> QED
    BY <2>1, <2>2
<1>4. CASE ReconcileStep(w)
  <2>1. txns' = txns
    BY <1>4 DEF ReconcileStep, ReconcileBegin, ReconcileClear, ReconcileTxnList, ReconcileTxn,
       ReconcileChallanList, ReconcileChallan, ReconcileCommit, Rows
  <2> QED
    BY <2>1
<1> QED
  BY <1>1, <1>2, <1>3, <1>4

DeductionKept ==
    \A t \in Txns : Serial /\ txns[t].status \in AllocatableTo =>
        /\ txns'[t].tds = txns[t].tds
        /\ txns'[t].status \in {txns[t].status, "PAID"}

\* One request after the other, the TDS of a deducted transaction no longer moves and its
\* only further status is PAID (deduct, calculate and allocate).
THEOREM DeductionStaysFrozen == Spec => DeductionFrozen
<1>1. TypeOK /\ (Serial => BalanceInv) /\ [Next]_vars => [DeductionKept]_vars
  <2> SUFFICES ASSUME TypeOK, Serial => BalanceInv, Next PROVE DeductionKept
    OBVIOUS
  <2>1. PICK w \in Workers : TxnStep(w) \/ ChallanStep(w) \/ AllocateStep(w) \/ ReconcileStep(w)
    BY DEF Next
  <2>2. work[w].pc # "off"
    BY <2>1, StepOn
  <2> QED
    BY <2>1, <2>2, DeductedKept DEF DeductionKept
<1> QED
  BY <1>1, TypeCorrect, BalanceInvHolds, PTL DEF Spec, DeductionFrozen, DeductionKept

-----------------------------------------------------------------------------
About(fs) == {[about |-> f.about, status |-> f.status] : f \in fs}
Unspent(c) == [about |-> c, status |-> "UNALLOCATED_PAYMENT"]

\* What a reconciliation run looks at, and what it should say of it.
Ground ==
    [findings |-> findings,
     txns |-> txns,
     deducted |-> {t \in Txns : txns[t].status \in AllocatableTo},
     verdict |-> [t \in Txns |-> [about |-> t, status |-> TxnFinding(txns[t].tds, txnSum[t])]],
     charged |-> {c \in Challans : challans[c].status \notin {"NONE", "CANCELLED"}},
     owing |-> {c \in Challans : Unallocated(challans[c], challanSum[c])}]

\* What a run has found so far, over the ground g: a finding about each row it has come to.
FoundIn(r, g) ==
    r.op = "reconcile" =>
    /\ r.cleared = g.findings
    /\ r.pc \in {"clear", "list"} => r.found = {}
    /\ r.pc = "txns" => /\ r.txns = g.txns
                        /\ r.todo \subseteq g.deducted
                        /\ About(r.found) = {g.verdict[t] : t \in g.deducted \ r.todo}
    /\ r.pc = "challans" => /\ r.todo \subseteq g.charged
                            /\ About(r.found) = {g.verdict[t] : t \in g.deducted}
                                                   \cup {Unspent(c) : c \in g.owing \ r.todo}

FoundInv == \A w \in Workers : FoundIn(work[w], Ground)

LEMMA AboutUnion == \A a, b : About(a \cup b) = About(a) \cup About(b)
BY DEF About

LEMMA FoundStep ==
    ASSUME Serial, BalanceInv, NEW w \in Workers, work[w].pc # "off",
           \A x \in Workers \ {w} : work'[x] = work[x],
           FoundIn(work'[w], Ground')
    PROVE  FoundInv'
<1>1. ASSUME NEW x \in Workers, x # w PROVE work'[x].op # "reconcile"
  BY <1>1 DEF Serial, BalanceInv, SerialOK
<1>2. ASSUME NEW x \in Workers PROVE FoundIn(work'[x], Ground')
  BY <1>1 DEF FoundIn
<1> QED
  BY <1>2 DEF FoundInv

\* No other request touches what a run has found.
LEMMA FoundElsewhere ==
    ASSUME Serial, BalanceInv, NEW w \in Workers, work[w].pc # "off",
           TxnStep(w) \/ ChallanStep(w) \/ AllocateStep(w)
    PROVE  FoundInv'
<1> SUFFICES work'[w].op # "reconcile"
  <2>1. \A x \in Workers \ {w} : work'[x] = work[x]
    BY StepOn DEF BalanceInv
  <2> QED
    BY <2>1, FoundStep DEF FoundIn
<1>0. work \in [Workers -> Request] /\ work[w] \in Request /\ SerialOK(work[w])
      /\ Idle.op = "none"
  BY DEF BalanceInv, TypeOK, Idle
<1>1. ASSUME NEW r, work' = [work EXCEPT ![w] = r], r.op # "reconcile"
      PROVE  work'[w].op # "reconcile"
  BY <1>0, <1>1
<1>2. ASSUME End(w) PROVE work'[w].op # "reconcile"
  BY <1>0, <1>2 DEF End
<1>3. ASSUME work[w].pc = "idle", work' = work PROVE work'[w].op # "reconcile"
  BY <1>0, <1>3 DEF SerialOK
<1>4. ASSUME NEW u \in Txns, NEW new, LoadTxn(w, u, new) PROVE work'[w].op # "reconcile"
  BY <1>0, <1>4 DEF LoadTxn, Begin, Idle
<1>5. CASE TxnStep(w)
  <2>1. ASSUME NEW t \in Txns, Calculate(w, t) \/ Override(w, t) \/ Deduct(w, t) \/ CancelTxn(w, t)
        PROVE  work'[w].op # "reconcile"
    BY <1>4, <2>1 DEF Calculate, Override, Deduct, CancelTxn
  <2>2. CASE \E t \in Txns : TxnCreate(w, t) \/ \E d \in TdsAmounts \cup {0} : TxnImport(w, t, d)
    BY <1>3, <2>2 DEF TxnCreate, TxnImport, IsIdle
  <2>3. CASE TxnCommit(w)
    BY <1>2, <2>3 DEF TxnCommit
  <2> QED
    BY <1>5, <2>1, <2>2, <2>3, ScopeType DEF TxnStep
<1>6. ASSUME NEW c, NEW to, NEW a, NEW next, EditLoads(w, c, to, a, next)
      PROVE  work'[w].op # "reconcile"
  BY <1>0, <1>6 DEF EditLoads, EditLoad, Begin, Idle
<1>7. CASE ChallanStep(w)
  <2>1. CASE EditSum(w)
    BY <1>0, <1>2, <2>1 DEF EditSum, Refuse, At, Request
  <2>2. CASE EditCommit(w)
    BY <1>2, <2>2 DEF EditCommit
  <2>3. CASE \E c \in Challans, a \in Nat : ChallanCreate(w, c, a)
    BY <1>3, <2>3 DEF ChallanCreate, IsIdle
  <2> QED
    BY <1>6, <1>7, <2>1, <2>2, <2>3, ChallanSteps DEF BalanceInv
<1>8. CASE AllocateStep(w)
  <2>1. CASE AllocateTxn(w) \/ AllocateChallanSum(w) \/ AllocateTxnSum(w)
    BY <1>0, <1>2, <2>1, SMTT(30) DEF AllocateTxn, AllocateChallanSum, AllocateTxnSum, Refuse, At, Request
  <2>2. CASE AllocateCommit(w)
    BY <1>2, <2>2 DEF AllocateCommit
  <2>3. CASE \E c \in Challans, t \in Txns, a \in Nat : AllocateLoad(w, c, t, a)
    BY <1>0, <2>3 DEF AllocateLoad, Begin, Idle
  <2> QED
    BY <1>8, <2>1, <2>2, <2>3, ScopeType DEF AllocateStep
<1> QED
  BY <1>5, <1>7, <1>8

\* Each step of a run adds the finding about the row it comes to.
LEMMA FoundByRun ==
    ASSUME Serial, BalanceInv, FoundInv, NEW w \in Workers, work[w].pc # "off", ReconcileStep(w)
    PROVE  FoundInv'
<1> DEFINE q == work[w]
<1>0. /\ work \in [Workers -> Request] /\ q \in Request /\ SerialOK(q) /\ FoundIn(q, Ground)
      /\ \A x \in Workers \ {w} : work'[x] = work[x]
  BY StepOn DEF BalanceInv, TypeOK, FoundInv
<1>1. ASSUME NEW r, work' = [work EXCEPT ![w] = r], Ground' = Ground, FoundIn(r, Ground)
      PROVE  FoundInv'
  <2>1. work'[w] = r
    BY <1>0, <1>1
  <2> QED
    BY <1>0, <1>1, <2>1, FoundStep
<1>2. ASSUME UNCHANGED <<challans, txns, challanSum, txnSum, findings>> PROVE Ground' = Ground
  BY <1>2 DEF Ground
<1>3. /\ Ground.findings = findings /\ Ground.txns = txns
      /\ Ground.deducted = {t \in Txns : txns[t].status \in AllocatableTo}
      /\ \A t \in Txns : Ground.verdict[t] = [about |-> t, status |-> TxnFinding(txns[t].tds, txnSum[t])]
      /\ Ground.charged = {c \in Challans : challans[c].status \notin {"NONE", "CANCELLED"}}
      /\ Ground.owing = {c \in Challans : Unallocated(challans[c], challanSum[c])}
  BY DEF Ground
<1>4. CASE ReconcileBegin(w)
  <2> DEFINE r == [Idle EXCEPT !.op = "reconcile", !.pc = "clear", !.run = runs + 1,
                               !.cleared = findings]
  <2>1. work' = [work EXCEPT ![w] = r] /\ Ground' = Ground
    BY <1>2, <1>4 DEF ReconcileBegin, Begin
  <2>2. r.pc = "clear" /\ r.cleared = findings /\ r.found = {}
    BY DEF Idle
  <2> HIDE DEF r
  <2>3. FoundIn(r, Ground)
    BY <1>3, <2>2 DEF FoundIn
  <2> QED
    BY <1>1, <2>1, <2>3
<1>5. CASE ReconcileClear(w)
  <2> DEFINE r == [q EXCEPT !.cleared = @ \cap findings, !.pc = "list"]
  <2>1. work' = [work EXCEPT ![w] = r] /\ Ground' = Ground /\ q.pc = "clear" /\ q.op = "reconcile"
    BY <1>2, <1>5 DEF ReconcileClear, Rows, At
  <2>2. r.pc = "list" /\ r.cleared = q.cleared \cap findings /\ r.found = q.found
    BY <1>0 DEF Request
  <2> HIDE DEF r
  <2>3. FoundIn(r, Ground)
    BY <1>0, <1>3, <2>1, <2>2 DEF FoundIn
  <2> QED
    BY <1>1, <2>1, <2>3
<1>6. CASE ReconcileTxnList(w)
  <2> DEFINE r == [q EXCEPT !.todo = {t \in Txns : txns[t].status \in AllocatableTo},
                            !.txns = txns, !.pc = "txns"]
  <2>1. work' = [work EXCEPT ![w] = r] /\ Ground' = Ground /\ q.pc = "list" /\ q.op = "reconcile"
    BY <1>2, <1>6 DEF ReconcileTxnList, Rows, At
  <2>2. r.pc = "txns" /\ r.cleared = q.cleared /\ r.found = q.found /\ r.txns = txns
        /\ r.todo = Ground.deducted
    BY <1>0, <1>3 DEF Request
  <2> HIDE DEF r
  <2>3. About({}) = {}
    BY DEF About
  <2>4. {Ground.verdict[t] : t \in Ground.deducted \ r.todo} = {}
    BY <2>2
  <2>5. FoundIn(r, Ground)
    BY <1>0, <1>3, <2>1, <2>2, <2>3, <2>4 DEF FoundIn
  <2> QED
    BY <1>1, <2>1, <2>5
<1>7. ASSUME NEW t \in Txns, ReconcileTxn(w, t)
      PROVE  FoundInv'
  <2> DEFINE f == [run |-> q.run, about |-> t, status |-> TxnFinding(q.txns[t].tds, txnSum[t])]
             r == [q EXCEPT !.todo = @ \ {t}, !.found = @ \cup {f}]
  <2>1. work' = [work EXCEPT ![w] = r] /\ Ground' = Ground /\ q.pc = "txns" /\ q.op = "reconcile"
        /\ t \in q.todo
    BY <1>2, <1>7 DEF ReconcileTxn, Rows, At
  <2>2. q.txns = txns
    BY <1>0, <1>3, <2>1 DEF FoundIn
  <2>3. [about |-> f.about, status |-> f.status] = Ground.verdict[t]
    BY <1>3, <2>2
  <2> HIDE DEF f
  <2>4. r.pc = "txns" /\ r.cleared = q.cleared /\ r.found = q.found \cup {f} /\ r.txns = q.txns
        /\ r.todo = q.todo \ {t} /\ r.op = "reconcile"
    BY <1>0, <2>1 DEF Request
  <2> HIDE DEF r
  <2>5. About({f}) = {Ground.verdict[t]}
    BY <2>3 DEF About
  <2>6. About(r.found) = About(q.found) \cup {Ground.verdict[t]}
    BY <2>4, <2>5, AboutUnion
  <2>7. t \in Ground.deducted
    BY <1>0, <2>1 DEF FoundIn
  <2>8. {Ground.verdict[u] : u \in Ground.deducted \ r.todo}
           = {Ground.verdict[u] : u \in Ground.deducted \ q.todo} \cup {Ground.verdict[t]}
    BY <2>4, <2>7
  <2>9. FoundIn(r, Ground)
    BY <1>0, <2>1, <2>4, <2>6, <2>8 DEF FoundIn
  <2> QED
    BY <1>1, <2>1, <2>9
<1>8. CASE ReconcileChallanList(w)
  <2> DEFINE r == [q EXCEPT !.pc = "challans", !.challans = challans,
                      !.todo = {c \in Challans : challans[c].status \notin {"NONE", "CANCELLED"}}]
  <2>1. work' = [work EXCEPT ![w] = r] /\ Ground' = Ground /\ q.pc = "txns" /\ q.op = "reconcile"
        /\ q.todo = {}
    BY <1>2, <1>8 DEF ReconcileChallanList, Rows, At
  <2>2. r.pc = "challans" /\ r.cleared = q.cleared /\ r.found = q.found /\ r.todo = Ground.charged
    BY <1>0, <1>3 DEF Request
  <2> HIDE DEF r
  <2>3. Ground.owing \subseteq Ground.charged
    BY <1>3 DEF Unallocated
  <2>4. {Unspent(c) : c \in Ground.owing \ r.todo} = {}
    BY <2>2, <2>3
  <2>5. About(q.found) = {Ground.verdict[t] : t \in Ground.deducted}
    BY <1>0, <2>1 DEF FoundIn
  <2>6. FoundIn(r, Ground)
    BY <1>0, <2>1, <2>2, <2>4, <2>5 DEF FoundIn
  <2> QED
    BY <1>1, <2>1, <2>6
<1>9. ASSUME NEW c \in Challans, ReconcileChallan(w, c)
      PROVE  FoundInv'
  <2> DEFINE f == [run |-> q.run, about |-> c, status |-> "UNALLOCATED_PAYMENT"]
             fs == {g \in {f} : Unallocated(q.challans[c], challanSum[c])}
             cs == {x \in {c} : Settles(q.challans[c], challanSum[c])}
             r == [q EXCEPT !.todo = @ \ {c}, !.found = @ \cup fs, !.settled = @ \cup cs]
  <2>1. work' = [work EXCEPT ![w] = r] /\ Ground' = Ground /\ q.pc = "challans"
        /\ q.op = "reconcile" /\ c \in q.todo
    BY <1>2, <1>9 DEF ReconcileChallan, Rows, At
  <2>2. q.challans = challans
    BY <1>0, <2>1 DEF SerialOK
  <2>3. About(fs) = {Unspent(d) : d \in Ground.owing \cap {c}}
    <3>1. [about |-> f.about, status |-> f.status] = Unspent(c)
      BY DEF Unspent
    <3> HIDE DEF f
    <3>2. c \in Ground.owing <=> Unallocated(q.challans[c], challanSum[c])
      BY <1>3, <2>2
    <3>3. CASE c \in Ground.owing
      <4>1. fs = {f}
        BY <3>2, <3>3
      <4> QED
        BY <3>1, <3>3, <4>1 DEF About
    <3>4. CASE c \notin Ground.owing
      <4>1. fs = {}
        BY <3>2, <3>4
      <4> QED
        BY <3>4, <4>1 DEF About
    <3> QED
      BY <3>3, <3>4
  <2> HIDE DEF fs, cs, f
  <2>4. r.pc = "challans" /\ r.cleared = q.cleared /\ r.found = q.found \cup fs
        /\ r.todo = q.todo \ {c} /\ r.op = "reconcile"
    BY <1>0, <2>1 DEF Request
  <2> HIDE DEF r
  <2>5. {Unspent(d) : d \in Ground.owing \ r.todo}
           = {Unspent(d) : d \in Ground.owing \ q.todo} \cup {Unspent(d) : d \in Ground.owing \cap {c}}
    BY <2>1, <2>4
  <2>6. About(r.found) = {Ground.verdict[t] : t \in Ground.deducted}
                            \cup {Unspent(d) : d \in Ground.owing \ r.todo}
    <3>1. About(r.found) = About(q.found) \cup About(fs)
      BY <2>4, AboutUnion
    <3>2. About(q.found) = {Ground.verdict[t] : t \in Ground.deducted}
                              \cup {Unspent(d) : d \in Ground.owing \ q.todo}
      BY <1>0, <2>1 DEF FoundIn
    <3> QED
      BY <2>3, <2>5, <3>1, <3>2
  <2>7. r.todo \subseteq Ground.charged
    BY <1>0, <2>1, <2>4 DEF FoundIn
  <2>8. FoundIn(r, Ground)
    BY <1>0, <2>1, <2>4, <2>6, <2>7 DEF FoundIn
  <2> QED
    BY <1>1, <2>1, <2>8
<1>10. CASE ReconcileCommit(w)
  <2>1. work'[w].op # "reconcile"
    BY <1>0, <1>10 DEF ReconcileCommit, End, Idle
  <2> QED
    BY <1>0, <2>1, FoundStep DEF FoundIn
<1> QED
  BY <1>4, <1>5, <1>6, <1>7, <1>8, <1>9, <1>10 DEF ReconcileStep

LEMMA FoundInvHolds == Spec => [](TypeOK /\ (Serial => BalanceInv /\ FoundInv))
<1>1. Init => TypeOK /\ (Serial => FoundInv)
  <2> SUFFICES ASSUME Init PROVE FoundInv
    BY InitType
  <2>1. FoundIn(Idle, Ground) /\ FoundIn(Off, Ground)
    BY DEF FoundIn, Idle, Off
  <2>2. \A w \in Workers : work[w] \in {Idle, Off}
    BY DEF Init
  <2> QED
    BY <2>1, <2>2 DEF FoundInv
<1>2. TypeOK /\ (Serial => BalanceInv) /\ (Serial => FoundInv) /\ [Next]_vars
         => (Serial' => FoundInv')
  <2> SUFFICES ASSUME TypeOK, Serial, BalanceInv, FoundInv, [Next]_vars PROVE FoundInv'
    BY SerialKept
  <2>1. CASE UNCHANGED vars
    <3>1. Ground' = Ground /\ work' = work
      BY <2>1 DEF vars, Ground
    <3> QED
      BY <3>1 DEF FoundInv
  <2>2. CASE Next
    BY <2>2, StepOn, FoundElsewhere, FoundByRun DEF Next
  <2> QED
    BY <2>1, <2>2
<1> QED
  BY <1>1, <1>2, TypeCorrect, BalanceInvHolds, PTL DEF Spec

FindingsTrue ==
    Serial /\ findings' # findings =>
        {[about |-> f.about, status |-> f.status] : f \in findings'} =
            {[about |-> t, status |-> TxnFinding(txns[t].tds, txnSum[t])] :
                t \in {u \in Txns : txns[u].status \in AllocatableTo}}
       \cup {[about |-> c, status |-> "UNALLOCATED_PAYMENT"] :
                c \in {d \in Challans : Unallocated(challans[d], challanSum[d])}}

\* Only the commit of a run writes findings.
LEMMA FindingsChange ==
    ASSUME NEW w \in Workers, findings' # findings,
           TxnStep(w) \/ ChallanStep(w) \/ AllocateStep(w) \/ ReconcileStep(w)
    PROVE  ReconcileCommit(w)
<1>1. CASE TxnStep(w)
  <2>1. \A u, new : LoadTxn(w, u, new) => findings' = findings
    BY DEF LoadTxn, Rows
  <2> QED
    BY <1>1, <2>1 DEF TxnStep, TxnCreate, TxnImport, Calculate, Override, Deduct, CancelTxn, TxnCommit
<1>2. CASE ChallanStep(w)
  BY <1>2, ZenonT(60) DEF ChallanStep, ChallanCreate, EditLoad, EditSum, EditCommit, Refuse, Rows
<1>3. CASE AllocateStep(w)
  BY <1>3, ZenonT(60) DEF AllocateStep, AllocateLoad, AllocateTxn, AllocateChallanSum, AllocateTxnSum,
     AllocateCommit, Refuse, Rows
<1>4. CASE ReconcileStep(w)
  BY <1>4 DEF ReconcileStep, ReconcileBegin, ReconcileClear, ReconcileTxnList, ReconcileTxn,
     ReconcileChallanList, ReconcileChallan, Rows
<1> QED
  BY <1>1, <1>2, <1>3, <1>4

\* One request after the other, a run that commits leaves exactly one finding about each
\* deducted transaction and one about each challan with money left, all true of the rows it
\* leaves (run of the payment reconciliation).
THEOREM FindingsAreExact == Spec => FindingsExact
<1>1. TypeOK /\ (Serial => BalanceInv /\ FoundInv) /\ [Next]_vars => [FindingsTrue]_vars
  <2> SUFFICES ASSUME Serial, BalanceInv, FoundInv, Next, findings' # findings
               PROVE  FindingsTrue
    BY DEF FindingsTrue
  <2>1. PICK w \in Workers : ReconcileCommit(w)
    BY FindingsChange DEF Next
  <2>2. /\ FoundIn(work[w], Ground) /\ work[w].op = "reconcile" /\ work[w].pc = "challans"
        /\ work[w].todo = {} /\ findings' = (findings \ work[w].cleared) \cup work[w].found
    BY <2>1 DEF FoundInv, ReconcileCommit, At
  <2>3. Ground.findings = findings
    BY DEF Ground
  <2>4. findings' = work[w].found
    BY <2>2, <2>3 DEF FoundIn
  <2>5. About(findings') = {Ground.verdict[t] : t \in Ground.deducted}
                              \cup {Unspent(c) : c \in Ground.owing}
    BY <2>2, <2>4 DEF FoundIn
  <2>6. {Ground.verdict[t] : t \in Ground.deducted}
           = {[about |-> t, status |-> TxnFinding(txns[t].tds, txnSum[t])] :
                 t \in {u \in Txns : txns[u].status \in AllocatableTo}}
    BY DEF Ground
  <2>7. Ground.owing = {d \in Challans : Unallocated(challans[d], challanSum[d])}
    BY DEF Ground
  <2> QED
    BY <2>5, <2>6, <2>7 DEF About, Unspent, FindingsTrue
<1> QED
  BY <1>1, FoundInvHolds, PTL DEF Spec, FindingsExact, FindingsTrue

=============================================================================
