----------------------- MODULE ReturnSnapshots_proofs -----------------------
(* Proofs about ReturnSnapshots, for every set of requests and returns.     *)
EXTENDS ReturnSnapshots, TLAPS

LEMMA IdleType == Idle \in Request
BY ReturnAssumption DEF Idle, Request, PCs, Actions, PeriodStatus

LEMMA Workflow ==
    ASSUME NEW a \in Actions
    PROVE  /\ From[a] \in SnapshotStatus /\ To[a] \in SnapshotStatus \ {"DRAFT"}
           /\ <<From[a], To[a]>> \in ReviewEdges
BY DEF Actions, From, To, SnapshotStatus, ReviewEdges

\* What a commit of a review does to the versions of its return.
LEMMA SetStatus ==
    ASSUME NEW s \in Seq(Snapshot), NEW v \in 1 .. Len(s), NEW st \in SnapshotStatus
    PROVE  /\ [s EXCEPT ![v].status = st] \in Seq(Snapshot)
           /\ Len([s EXCEPT ![v].status = st]) = Len(s)
           /\ \A i \in 1 .. Len(s) :
                 [s EXCEPT ![v].status = st][i] = IF i = v THEN [s[v] EXCEPT !.status = st] ELSE s[i]
<1>1. s[v] \in Snapshot
  OBVIOUS
<1>2. [s[v] EXCEPT !.status = st] \in Snapshot
  BY <1>1 DEF Snapshot
<1> QED
  BY <1>1, <1>2

\* What a commit of a generation does to them.
LEMMA AddVersion ==
    ASSUME NEW s \in Seq(Snapshot), NEW x \in Snapshot
    PROVE  /\ Append(s, x) \in Seq(Snapshot)
           /\ Len(Append(s, x)) = Len(s) + 1
           /\ Append(s, x)[Len(s) + 1] = x
           /\ \A i \in 1 .. Len(s) : Append(s, x)[i] = s[i]
OBVIOUS

-----------------------------------------------------------------------------
(* The rows: how the two commits change them.                               *)

Submitted(ty) == \E v \in 1 .. Latest(ty) : snapshots[ty][v].status # "DRAFT"

\* A review in flight is of a version that exists.
VersionExists(r) ==
    r.pc \in {"flush", "period", "latest", "commit"} => r.version \in 1 .. Latest(r.type)

\* A request that would make the period FINALIZED has seen every other return submitted.
SeenSubmitted(r) ==
    LET Others(S) == \A ty \in S : ty = r.type \/ Submitted(ty) IN
    /\ r.pc = "latest" /\ r.all => Others(Types \ r.todo)
    /\ r.pc = "commit" /\ Tax = "GST" /\ r.period = "FINALIZED" /\ r.seen # "FINALIZED" => Others(Types)

Inv ==
    /\ TypeOK
    /\ PeriodHasReview
    /\ \A w \in Workers : VersionExists(work[w]) /\ SeenSubmitted(work[w])

\* Versions and what was submitted only grow.
Grows ==
    \A ty \in Types :
        /\ Latest(ty)' >= Latest(ty)
        /\ Submitted(ty) => Submitted(ty)'

LEMMA InitInv == Init => Inv
<1> SUFFICES ASSUME Init PROVE Inv
  OBVIOUS
<1>0. Off \in Request /\ Idle.pc = "idle" /\ Off.pc = "off"
  BY IdleType DEF Idle, Off, Request, PCs
<1>1. TypeOK
  BY <1>0, IdleType DEF Init, TypeOK, PeriodStatus
<1>2. PeriodHasReview
  BY DEF Init, PeriodHasReview
<1>3. \A w \in Workers : VersionExists(work[w]) /\ SeenSubmitted(work[w])
  BY <1>0 DEF Init, VersionExists, SeenSubmitted
<1> QED
  BY <1>1, <1>2, <1>3 DEF Inv

\* A step that only moves one request on.
LEMMA StepInv ==
    ASSUME Inv, UNCHANGED <<snapshots, period>>, books' \in Nat,
           NEW w \in Workers, NEW r \in Request, work' = [work EXCEPT ![w] = r],
           VersionExists(r), SeenSubmitted(r)
    PROVE  Inv'
<1>1. TypeOK'
  BY DEF Inv, TypeOK
<1>2. PeriodHasReview'
  BY DEF Inv, PeriodHasReview, Latest
<1>3. ASSUME NEW x \in Workers PROVE VersionExists(work[x])' /\ SeenSubmitted(work[x])'
  <2>1. work'[x] = IF x = w THEN r ELSE work[x]
    BY DEF Inv, TypeOK
  <2>2. VersionExists(work'[x]) /\ SeenSubmitted(work'[x])
    BY <2>1 DEF Inv
  <2> QED
    BY <2>2 DEF VersionExists, SeenSubmitted, Submitted, Latest
<1> QED
  BY <1>1, <1>2, <1>3 DEF Inv

\* A commit: the requests of the others keep what they have seen.
LEMMA CommitInv ==
    ASSUME Inv, Grows, TypeOK', PeriodHasReview', NEW w \in Workers, End(w)
    PROVE  Inv'
<1>1. ASSUME NEW x \in Workers PROVE VersionExists(work[x])' /\ SeenSubmitted(work[x])'
  <2>1. work'[x] = IF x = w THEN Idle ELSE work[x]
    BY DEF Inv, TypeOK, End
  <2>2. CASE x = w
    BY <2>1, <2>2 DEF Idle, VersionExists, SeenSubmitted
  <2>3. CASE x # w
    <3>1. work'[x] = work[x] /\ work[x] \in Request
      BY <2>1, <2>3 DEF Inv, TypeOK
    <3>2. VersionExists(work[x]) /\ SeenSubmitted(work[x])
      BY DEF Inv
    <3>3. VersionExists(work[x])'
      <4>1. work[x].type \in Types /\ work[x].version \in Nat
        BY <3>1 DEF Request
      <4>2. Len(snapshots'[work[x].type]) >= Len(snapshots[work[x].type])
        BY <4>1 DEF Grows, Latest
      <4>3. /\ Len(snapshots[work[x].type]) \in Nat
            /\ Len(snapshots'[work[x].type]) \in Nat
        BY <4>1 DEF Inv, TypeOK
      <4> QED
        BY <3>1, <3>2, <4>1, <4>2, <4>3 DEF VersionExists, Latest
    <3>4. SeenSubmitted(work[x])'
      BY <3>1, <3>2 DEF SeenSubmitted, Grows
    <3> QED
      BY <3>3, <3>4
  <2> QED
    BY <2>2, <2>3
<1> QED
  BY <1>1 DEF Inv

LEMMA GenerateInv ==
    ASSUME Inv, NEW w \in Workers, GenerateStep(w)
    PROVE  Inv'
<1> DEFINE r == work[w]
<1>1. r \in Request
  BY DEF Inv, TypeOK
<1>2. ASSUME NEW ty \in Types, GenerateBegin(w, ty) PROVE Inv'
  <2> DEFINE n == [Idle EXCEPT !.pc = "summary", !.type = ty, !.from = books]
  <2>1. n \in Request /\ n.pc = "summary"
    BY IdleType DEF Inv, TypeOK, Request, PCs
  <2> HIDE DEF n
  <2>2. work' = [work EXCEPT ![w] = n] /\ UNCHANGED <<snapshots, period>> /\ books' \in Nat
    BY <1>2 DEF GenerateBegin, Begin, Rows, n, Inv, TypeOK
  <2>3. VersionExists(n) /\ SeenSubmitted(n)
    BY <2>1 DEF VersionExists, SeenSubmitted
  <2> QED
    BY <2>1, <2>2, <2>3, StepInv
<1>3. CASE GenerateSummary(w)
  <2> DEFINE v == Latest(r.type) + 1
             n == [r EXCEPT !.pc = "insert", !.to = books, !.version = v]
  <2>0. v \in Nat /\ books \in Nat
    <3>1. r.type \in Types
      BY <1>1 DEF Request
    <3>2. snapshots[r.type] \in Seq(Snapshot) /\ books \in Nat
      BY <3>1 DEF Inv, TypeOK
    <3> QED
      BY <3>2 DEF Latest
  <2>1. n \in Request /\ n.pc = "insert"
    <3> HIDE DEF v
    <3> QED
      BY <1>1, <2>0 DEF Request, PCs
  <2>2. work' = [work EXCEPT ![w] = n]
    BY <1>3 DEF GenerateSummary, Begin
  <2> HIDE DEF n
  <2>3. UNCHANGED <<snapshots, period>> /\ books' \in Nat
    BY <1>3 DEF GenerateSummary, Rows, Inv, TypeOK
  <2>4. VersionExists(n) /\ SeenSubmitted(n)
    BY <2>1 DEF VersionExists, SeenSubmitted
  <2> QED
    BY <2>1, <2>2, <2>3, <2>4, StepInv
<1>4. CASE GenerateCommit(w) /\ r.version <= Latest(r.type)
  <2>1. work' = [work EXCEPT ![w] = Idle] /\ UNCHANGED <<snapshots, period>> /\ books' \in Nat
    BY <1>4 DEF GenerateCommit, Refuse, End, Rows, Inv, TypeOK
  <2>2. VersionExists(Idle) /\ SeenSubmitted(Idle)
    BY DEF VersionExists, SeenSubmitted, Idle
  <2> QED
    BY <2>1, <2>2, IdleType, StepInv
<1>5. CASE GenerateCommit(w) /\ ~(r.version <= Latest(r.type))
  <2>1. /\ snapshots' = [snapshots EXCEPT ![r.type] = Append(@, NewSnapshot(r))]
        /\ End(w) /\ UNCHANGED <<books, period>>
    BY <1>5 DEF GenerateCommit
  <2>2. NewSnapshot(r) \in Snapshot /\ r.type \in Types
    BY <1>1 DEF NewSnapshot, Request, Snapshot, SnapshotStatus
  <2>3. \A ty \in Types : snapshots[ty] \in Seq(Snapshot)
    BY DEF Inv, TypeOK
  <2>4. \A ty \in Types : snapshots'[ty] = IF ty = r.type THEN Append(snapshots[ty], NewSnapshot(r))
                                          ELSE snapshots[ty]
    BY <2>1 DEF Inv, TypeOK
  <2> HIDE DEF r
  <2>5. \A ty \in Types : snapshots'[ty] \in Seq(Snapshot)
    BY <2>2, <2>3, <2>4, AddVersion
  <2>6. TypeOK'
    BY <2>1, <2>5, IdleType DEF TypeOK, End, Inv
  <2>7. Grows
    <3> SUFFICES ASSUME NEW ty \in Types
                 PROVE  Len(snapshots'[ty]) >= Len(snapshots[ty]) /\ (Submitted(ty) => Submitted(ty)')
      BY DEF Grows, Latest
    <3>1. /\ Len(snapshots'[ty]) >= Len(snapshots[ty])
          /\ \A i \in 1 .. Len(snapshots[ty]) : snapshots'[ty][i] = snapshots[ty][i]
      <4>1. Len(snapshots[ty]) \in Nat
        BY <2>3
      <4>2. CASE ty = r.type
        <5>1. snapshots'[ty] = Append(snapshots[ty], NewSnapshot(r))
          BY <2>4, <4>2
        <5> QED
          BY <2>2, <2>3, <4>1, <5>1, AddVersion
      <4>3. CASE ty # r.type
        BY <2>4, <4>1, <4>3
      <4> QED
        BY <4>2, <4>3
    <3>2. Len(snapshots'[ty]) \in Nat /\ Len(snapshots[ty]) \in Nat
      BY <2>3, <2>5
    <3>3. ASSUME NEW v \in 1 .. Len(snapshots[ty]), snapshots[ty][v].status # "DRAFT"
          PROVE  v \in 1 .. Len(snapshots'[ty]) /\ snapshots'[ty][v].status # "DRAFT"
      BY <3>1, <3>2, <3>3
    <3> QED
      BY <3>1, <3>3 DEF Submitted, Latest
  <2>8. PeriodHasReview'
    BY <2>1, <2>7 DEF Inv, PeriodHasReview, Grows, Submitted
  <2> QED
    BY <2>1, <2>6, <2>7, <2>8, CommitInv
<1> QED
  BY <1>2, <1>3, <1>4, <1>5 DEF GenerateStep

LEMMA ReviewInv ==
    ASSUME Inv, NEW w \in Workers, ReviewStep(w)
    PROVE  Inv'
<1> DEFINE r == work[w]
<1>1. r \in Request /\ VersionExists(r) /\ SeenSubmitted(r)
  BY DEF Inv, TypeOK
<1>2. \A ty \in Types : snapshots[ty] \in Seq(Snapshot) /\ Latest(ty) \in Nat
  BY DEF Inv, TypeOK, Latest
<1>3. period \in PeriodStatus /\ books \in Nat
  BY DEF Inv, TypeOK
<1>4. ASSUME NEW ty \in Types, NEW a \in Actions, ReviewLoad(w, ty, a) PROVE Inv'
  <2> DEFINE n == [Idle EXCEPT !.pc = "flush", !.type = ty, !.version = Latest(ty), !.action = a]
  <2>1. work' = [work EXCEPT ![w] = n] /\ UNCHANGED Rows /\ Latest(ty) > 0
    BY <1>4 DEF ReviewLoad, Begin
  <2>2. n \in Request
    BY IdleType, <1>2 DEF Request, PCs
  <2>3. n.pc = "flush" /\ n.type = ty /\ n.version = Latest(ty)
    BY IdleType DEF Request
  <2> HIDE DEF n
  <2>4. VersionExists(n) /\ SeenSubmitted(n)
    BY <1>2, <2>1, <2>3 DEF VersionExists, SeenSubmitted
  <2> QED
    BY <1>3, <2>1, <2>2, <2>4, StepInv DEF Rows
<1>5. CASE ReviewFlush(w)
  <2> DEFINE n == [r EXCEPT !.pc = "period"]
  <2>1. work' = [work EXCEPT ![w] = n] /\ UNCHANGED Rows /\ r.pc = "flush"
    BY <1>5 DEF ReviewFlush, Begin
  <2>2. n \in Request /\ n.pc = "period" /\ n.type = r.type /\ n.version = r.version
    BY <1>1 DEF Request, PCs
  <2> HIDE DEF n
  <2>4. VersionExists(n) /\ SeenSubmitted(n)
    BY <1>1, <2>1, <2>2 DEF VersionExists, SeenSubmitted
  <2> QED
    BY <1>3, <2>1, <2>2, <2>4, StepInv DEF Rows
<1>6. CASE ReviewPeriod(w) /\ Tax = "GST" /\ To[r.action] = "FINALIZED"
  <2> DEFINE n == [r EXCEPT !.pc = "latest", !.seen = period, !.todo = Types]
  <2>1. work' = [work EXCEPT ![w] = n] /\ UNCHANGED Rows /\ r.pc = "period"
    BY <1>6 DEF ReviewPeriod, Begin
  <2>2. /\ n \in Request /\ n.pc = "latest" /\ n.type = r.type /\ n.version = r.version
        /\ n.todo = Types
    BY <1>1, <1>3 DEF Request, PCs
  <2> HIDE DEF n
  <2>4. VersionExists(n) /\ SeenSubmitted(n)
    BY <1>1, <2>1, <2>2 DEF VersionExists, SeenSubmitted
  <2> QED
    BY <1>3, <2>1, <2>2, <2>4, StepInv DEF Rows
<1>7. CASE ReviewPeriod(w) /\ ~(Tax = "GST" /\ To[r.action] = "FINALIZED")
  <2> DEFINE to == To[r.action]
             p == IF Tax = "GST" THEN GstPeriod(period, to, FALSE) ELSE TdsPeriod(period, to)
             n == [r EXCEPT !.pc = "commit", !.seen = period, !.period = p]
  <2>1. work' = [work EXCEPT ![w] = n] /\ UNCHANGED Rows /\ r.pc = "period"
    BY <1>7 DEF ReviewPeriod, Begin
  <2>2. to \in SnapshotStatus \ {"DRAFT"}
    BY <1>1, Workflow DEF Request
  <2> HIDE DEF to
  <2>3. /\ p \in PeriodStatus
        /\ Tax = "GST" /\ p = "FINALIZED" => period = "FINALIZED"
    BY <1>3, <1>7, <2>2 DEF GstPeriod, TdsPeriod, SnapshotStatus, PeriodStatus, to
  <2> HIDE DEF p
  <2>4. /\ n \in Request /\ n.pc = "commit" /\ n.type = r.type /\ n.version = r.version
        /\ n.period = p /\ n.seen = period
    BY <1>1, <1>3, <2>3 DEF Request, PCs
  <2> HIDE DEF n
  <2>5. VersionExists(n) /\ SeenSubmitted(n)
    BY <1>1, <2>1, <2>3, <2>4 DEF VersionExists, SeenSubmitted
  <2> QED
    BY <1>3, <2>1, <2>4, <2>5, StepInv DEF Rows
<1>8. ASSUME NEW ty \in Types, ReviewLatest(w, ty) PROVE Inv'
  <2> DEFINE rest == r.todo \ {ty}
             all == r.all /\ LatestFinalized(r, ty)
             p == IF rest = {} THEN GstPeriod(r.seen, "FINALIZED", all) ELSE r.period
             n == [r EXCEPT !.todo = rest, !.all = all, !.pc = IF rest = {} THEN "commit" ELSE "latest",
                            !.period = p]
  <2>1. work' = [work EXCEPT ![w] = n] /\ UNCHANGED Rows /\ r.pc = "latest"
    BY <1>8 DEF ReviewLatest, Begin
  <2>2. rest \in SUBSET Types /\ all \in BOOLEAN
    BY <1>1 DEF Request, LatestFinalized
  <2>3. p \in PeriodStatus /\ (rest = {} /\ p = "FINALIZED" => all)
    BY <1>1 DEF GstPeriod, Request, PeriodStatus
  <2>4. all => \A x \in Types \ rest : x = r.type \/ Submitted(x)
    <3> SUFFICES ASSUME all, NEW x \in Types \ rest, x # r.type PROVE Submitted(x)
      OBVIOUS
    <3>1. CASE x = ty
      BY <1>2, <3>1 DEF LatestFinalized, Submitted
    <3>2. CASE x # ty
      BY <1>1, <2>1, <3>2 DEF SeenSubmitted
    <3> QED
      BY <3>1, <3>2
  <2> HIDE DEF rest, all, p
  <2>5. n \in Request
    BY <1>1, <2>2, <2>3 DEF Request, PCs
  <2>6. /\ n.pc = IF rest = {} THEN "commit" ELSE "latest"
        /\ n.type = r.type /\ n.version = r.version
        /\ n.todo = rest /\ n.all = all /\ n.period = p
    BY <1>1 DEF Request
  <2> HIDE DEF n
  <2>7. VersionExists(n)
    BY <1>1, <2>1, <2>6 DEF VersionExists
  <2>8. SeenSubmitted(n)
    <3>1. CASE rest = {}
      BY <2>3, <2>4, <2>6, <3>1 DEF SeenSubmitted
    <3>2. CASE rest # {}
      BY <2>4, <2>6, <3>2 DEF SeenSubmitted
    <3> QED
      BY <3>1, <3>2
  <2> QED
    BY <1>3, <2>1, <2>5, <2>7, <2>8, StepInv DEF Rows
<1>9. CASE ReviewCommit(w)
  <2> DEFINE st == To[r.action]
  <2>1. /\ snapshots' = [snapshots EXCEPT ![r.type][r.version].status = st]
        /\ period' = IF r.period = r.seen THEN period ELSE r.period
        /\ End(w) /\ UNCHANGED books /\ r.pc = "commit"
    BY <1>9 DEF ReviewCommit
  <2>2. /\ st \in SnapshotStatus \ {"DRAFT"} /\ r.type \in Types
        /\ r.version \in 1 .. Len(snapshots[r.type])
        /\ r.period \in PeriodStatus /\ r.seen \in PeriodStatus
    BY <1>1, <2>1, Workflow DEF Request, VersionExists, Latest
  <2> HIDE DEF st
  <2>3. /\ \A ty \in Types : ty # r.type => snapshots'[ty] = snapshots[ty]
        /\ snapshots'[r.type] = [snapshots[r.type] EXCEPT ![r.version].status = st]
        /\ DOMAIN snapshots' = Types
    BY <2>1, <2>2 DEF Inv, TypeOK
  <2> HIDE DEF r
  <2>4. /\ snapshots'[r.type] \in Seq(Snapshot)
        /\ Len(snapshots'[r.type]) = Len(snapshots[r.type])
        /\ \A i \in 1 .. Len(snapshots[r.type]) : snapshots'[r.type][i] =
              IF i = r.version THEN [snapshots[r.type][r.version] EXCEPT !.status = st]
              ELSE snapshots[r.type][i]
    <3>1. snapshots[r.type] \in Seq(Snapshot)
      BY <1>2, <2>2
    <3> QED
      BY <2>2, <2>3, <3>1, SetStatus
  <2>5. TypeOK'
    <3>1. snapshots' \in [Types -> Seq(Snapshot)]
      BY <1>2, <2>1, <2>2, <2>3, <2>4 DEF Inv, TypeOK
    <3> QED
      BY <1>3, <2>1, <2>2, <3>1, IdleType DEF TypeOK, Inv, End
  <2>6. \E v \in 1 .. Len(snapshots'[r.type]) : snapshots'[r.type][v].status # "DRAFT"
    <3>1. snapshots[r.type][r.version] \in Snapshot
      BY <1>2, <2>2
    <3>2. snapshots'[r.type][r.version].status = st
      BY <2>2, <2>4, <3>1 DEF Snapshot
    <3> QED
      BY <2>2, <2>4, <3>2
  <2>7. Grows
    <3> SUFFICES ASSUME NEW ty \in Types
                 PROVE  Len(snapshots'[ty]) >= Len(snapshots[ty]) /\ (Submitted(ty) => Submitted(ty)')
      BY DEF Grows, Latest
    <3>1. CASE ty = r.type
      BY <1>2, <2>4, <2>6, <3>1 DEF Submitted, Latest
    <3>2. CASE ty # r.type
      BY <1>2, <2>3, <3>2 DEF Submitted, Latest
    <3> QED
      BY <3>1, <3>2
  <2>8. PeriodHasReview'
    <3>1. period' # "OPEN" => \E ty \in Types : Submitted(ty)'
      BY <2>2, <2>6 DEF Submitted, Latest
    <3>2. Tax = "GST" /\ period' = "FINALIZED" => \A ty \in Types : Submitted(ty)'
      <4> SUFFICES ASSUME Tax = "GST", period' = "FINALIZED", NEW ty \in Types, ty # r.type
                   PROVE  Submitted(ty)
        BY <2>6, <2>7 DEF Grows, Submitted, Latest
      <4>1. CASE r.period = r.seen
        BY <2>1, <4>1 DEF Inv, PeriodHasReview, Submitted
      <4>2. CASE r.period # r.seen
        BY <1>1, <2>1, <4>2 DEF SeenSubmitted
      <4> QED
        BY <4>1, <4>2
    <3> QED
      BY <3>1, <3>2 DEF PeriodHasReview, Submitted
  <2> QED
    BY <2>1, <2>5, <2>7, <2>8, CommitInv
<1> QED
  BY <1>4, <1>5, <1>6, <1>7, <1>8, <1>9 DEF ReviewStep

LEMMA NextInv == Inv /\ [Next]_vars => Inv'
<1> SUFFICES ASSUME Inv, [Next]_vars PROVE Inv'
  OBVIOUS
<1>1. ASSUME NEW w \in Workers, PostDocument(w) PROVE Inv'
  BY <1>1, SMTT(30) DEF PostDocument, Inv, TypeOK, PeriodHasReview, VersionExists, SeenSubmitted, Submitted, Latest
<1>2. CASE UNCHANGED vars
  BY <1>2, SMTT(30) DEF vars, Inv, TypeOK, PeriodHasReview, VersionExists, SeenSubmitted, Submitted, Latest
<1> QED
  BY <1>1, <1>2, GenerateInv, ReviewInv DEF Next

LEMMA AlwaysInv == Spec => []Inv
BY InitInv, NextInv, PTL DEF Spec

\* Every reachable state is well typed.
THEOREM TypeCorrect == Spec => []TypeOK
<1>1. Inv => TypeOK
  BY DEF Inv
<1> QED
  BY AlwaysInv, <1>1, PTL

\* However requests interleave, the status of a period has a submitted return behind
\* it, and that of a FINALIZED GST period one for each return.
THEOREM PeriodAlwaysHasReview == Spec => []PeriodHasReview
<1>1. Inv => PeriodHasReview
  BY DEF Inv
<1> QED
  BY AlwaysInv, <1>1, PTL

-----------------------------------------------------------------------------
(* What a step may do to the versions there are.                            *)

\* One return's versions, before and after: a review of version v, a new version, or
\* neither.
FrozenIn(s, t) ==
    \A v \in 1 .. Len(s) :
        /\ v <= Len(t)
        /\ t[v].from = s[v].from
        /\ t[v].to = s[v].to
        /\ t[v].status # "DRAFT" \/ s[v].status = "DRAFT"

LEMMA FrozenStep ==
    ASSUME Inv, Next
    PROVE  \A ty \in Types : FrozenIn(snapshots[ty], snapshots'[ty])
<1>1. \A ty \in Types : snapshots[ty] \in Seq(Snapshot) /\ Len(snapshots[ty]) \in Nat
  BY DEF Inv, TypeOK
<1>2. CASE UNCHANGED snapshots
  BY <1>1, <1>2 DEF FrozenIn
<1>3. ASSUME NEW w \in Workers, GenerateCommit(w), snapshots' # snapshots
      PROVE  \A ty \in Types : FrozenIn(snapshots[ty], snapshots'[ty])
  <2> DEFINE r == work[w]
  <2>1. r \in Request
    BY DEF Inv, TypeOK
  <2>2. snapshots' = [snapshots EXCEPT ![r.type] = Append(@, NewSnapshot(r))]
    BY <1>3 DEF GenerateCommit, Refuse, Rows
  <2>3. NewSnapshot(r) \in Snapshot
    BY <2>1 DEF NewSnapshot, Request, Snapshot, SnapshotStatus
  <2> HIDE DEF r
  <2> TAKE ty \in Types
  <2>4. snapshots'[ty] = IF ty = r.type THEN Append(snapshots[ty], NewSnapshot(r)) ELSE snapshots[ty]
    BY <2>2 DEF Inv, TypeOK
  <2>5. CASE ty = r.type
    <3>1. snapshots'[ty] = Append(snapshots[ty], NewSnapshot(r))
      BY <2>4, <2>5
    <3> QED
      BY <1>1, <2>3, <3>1, AddVersion DEF FrozenIn
  <2>6. CASE ty # r.type
    BY <1>1, <2>4, <2>6 DEF FrozenIn
  <2> QED
    BY <2>5, <2>6
<1>4. ASSUME NEW w \in Workers, ReviewCommit(w)
      PROVE  \A ty \in Types : FrozenIn(snapshots[ty], snapshots'[ty])
  <2> DEFINE r == work[w]
             st == To[r.action]
  <2>1. r \in Request /\ VersionExists(r) /\ r.pc = "commit"
    BY <1>4 DEF Inv, TypeOK, ReviewCommit
  <2>2. /\ st \in SnapshotStatus \ {"DRAFT"} /\ r.type \in Types
        /\ r.version \in 1 .. Len(snapshots[r.type])
    BY <2>1, Workflow DEF Request, VersionExists, Latest
  <2>3. snapshots' = [snapshots EXCEPT ![r.type][r.version].status = st]
    BY <1>4 DEF ReviewCommit
  <2> HIDE DEF r, st
  <2> TAKE ty \in Types
  <2>4. CASE ty = r.type
    <3>1. snapshots'[ty] = [snapshots[ty] EXCEPT ![r.version].status = st]
      BY <2>2, <2>3, <2>4 DEF Inv, TypeOK
    <3>2. /\ Len(snapshots'[ty]) = Len(snapshots[ty])
          /\ \A i \in 1 .. Len(snapshots[ty]) : snapshots'[ty][i] =
                IF i = r.version THEN [snapshots[ty][r.version] EXCEPT !.status = st]
                ELSE snapshots[ty][i]
      <4>1. snapshots[ty] \in Seq(Snapshot)
        BY <1>1
      <4> QED
        BY <2>2, <2>4, <3>1, <4>1, SetStatus
    <3>3. snapshots[ty][r.version] \in Snapshot
      BY <1>1, <2>2, <2>4
    <3>4. /\ [snapshots[ty][r.version] EXCEPT !.status = st].status = st
          /\ [snapshots[ty][r.version] EXCEPT !.status = st].from = snapshots[ty][r.version].from
          /\ [snapshots[ty][r.version] EXCEPT !.status = st].to = snapshots[ty][r.version].to
      BY <3>3 DEF Snapshot
    <3>5. ASSUME NEW v \in 1 .. Len(snapshots[ty])
          PROVE  /\ v <= Len(snapshots'[ty])
                 /\ snapshots'[ty][v].from = snapshots[ty][v].from
                 /\ snapshots'[ty][v].to = snapshots[ty][v].to
                 /\ snapshots'[ty][v].status # "DRAFT" \/ snapshots[ty][v].status = "DRAFT"
      <4>1. CASE v = r.version
        <5>1. snapshots'[ty][v] = [snapshots[ty][r.version] EXCEPT !.status = st]
          BY <3>2, <4>1
        <5>2. v <= Len(snapshots'[ty]) /\ st # "DRAFT"
          BY <1>1, <2>2, <3>2
        <5> QED
          BY <3>4, <4>1, <5>1, <5>2
      <4>2. CASE v # r.version
        BY <1>1, <3>2, <4>2
      <4> QED
        BY <4>1, <4>2
    <3> QED
      BY <3>5 DEF FrozenIn
  <2>5. CASE ty # r.type
    <3>1. snapshots'[ty] = snapshots[ty]
      BY <2>2, <2>3, <2>5 DEF Inv, TypeOK
    <3> QED
      BY <1>1, <3>1 DEF FrozenIn
  <2> QED
    BY <2>4, <2>5
<1> QED
  BY <1>2, <1>3, <1>4 DEF Next, PostDocument, GenerateStep, GenerateBegin, GenerateSummary,
     ReviewStep, ReviewLoad, ReviewFlush, ReviewPeriod, ReviewLatest, Rows

\* However requests interleave, a version that was generated stays what it was: it is
\* never replaced, its summary never changes, and it never becomes a draft again.
THEOREM SummariesStayFrozen == Spec => SummariesFrozen
<1> DEFINE Frozen == \A ty \in Types : \A v \in 1 .. Len(snapshots[ty]) :
          /\ v <= Len(snapshots'[ty])
          /\ snapshots'[ty][v].from = snapshots[ty][v].from
          /\ snapshots'[ty][v].to = snapshots[ty][v].to
          /\ snapshots'[ty][v].status # "DRAFT" \/ snapshots[ty][v].status = "DRAFT"
<1>1. Inv /\ [Next]_vars => [Frozen]_vars
  BY FrozenStep DEF FrozenIn
<1> QED
  BY <1>1, AlwaysInv, PTL DEF Spec, SummariesFrozen

-----------------------------------------------------------------------------
(* With requests one after the other the review refines StatusWorkflow.     *)

\* A step is taken by a worker of the crew and neither adds a worker to it nor
\* removes one.
LEMMA StepOn ==
    ASSUME TypeOK, NEW w \in Workers, PostDocument(w) \/ GenerateStep(w) \/ ReviewStep(w)
    PROVE  /\ work[w].pc # "off" /\ work'[w].pc # "off"
           /\ \A x \in Workers \ {w} : work'[x] = work[x]
<1>0. work \in [Workers -> Request] /\ work[w] \in Request /\ Idle.pc = "idle" /\ Idle \in Request
  BY IdleType DEF TypeOK, Idle
<1>1. ASSUME End(w), work[w].pc # "off"
      PROVE  /\ work[w].pc # "off" /\ work'[w].pc # "off"
             /\ \A x \in Workers \ {w} : work'[x] = work[x]
  BY <1>0, <1>1 DEF End
<1>2. CASE PostDocument(w)
  BY <1>2 DEF PostDocument
<1>3. CASE \E ty \in Types : GenerateBegin(w, ty)
  BY <1>0, <1>3 DEF GenerateBegin, Begin, Request
<1>4. CASE GenerateSummary(w)
  BY <1>0, <1>4 DEF GenerateSummary, Begin, Request
<1>5. CASE GenerateCommit(w)
  BY <1>1, <1>5 DEF GenerateCommit, Refuse
<1>6. CASE \E ty \in Types, a \in Actions : ReviewLoad(w, ty, a)
  <2>1. PICK ty \in Types, a \in Actions : ReviewLoad(w, ty, a)
    BY <1>6
  <2> DEFINE n == [Idle EXCEPT !.pc = "flush", !.type = ty, !.version = Latest(ty), !.action = a]
  <2>2. n.pc = "flush"
    BY <1>0 DEF Request
  <2>3. work[w].pc = "idle" /\ work' = [work EXCEPT ![w] = n]
    BY <2>1 DEF ReviewLoad, Begin
  <2> HIDE DEF n
  <2> QED
    BY <1>0, <2>2, <2>3
<1>7. CASE ReviewFlush(w)
  BY <1>0, <1>7 DEF ReviewFlush, Begin, Request
<1>8. CASE ReviewPeriod(w)
  <2> DEFINE to == To[work[w].action]
             p == IF Tax = "GST" THEN GstPeriod(period, to, FALSE) ELSE TdsPeriod(period, to)
             l == [work[w] EXCEPT !.pc = "latest", !.seen = period, !.todo = Types]
             n == [work[w] EXCEPT !.pc = "commit", !.seen = period, !.period = p]
  <2>1. /\ work[w].pc = "period"
        /\ work' = [work EXCEPT ![w] = l] \/ work' = [work EXCEPT ![w] = n]
    BY <1>8 DEF ReviewPeriod, Begin
  <2> HIDE DEF p
  <2>2. l.pc = "latest" /\ n.pc = "commit"
    BY <1>0 DEF Request
  <2> HIDE DEF l, n
  <2> QED
    BY <1>0, <2>1, <2>2
<1>9. CASE \E ty \in Types : ReviewLatest(w, ty)
  <2>1. PICK ty \in Types : ReviewLatest(w, ty)
    BY <1>9
  <2> DEFINE rest == work[w].todo \ {ty}
             all == work[w].all /\ LatestFinalized(work[w], ty)
             pc == IF rest = {} THEN "commit" ELSE "latest"
             p == IF rest = {} THEN GstPeriod(work[w].seen, "FINALIZED", all) ELSE work[w].period
             n == [work[w] EXCEPT !.todo = rest, !.all = all, !.pc = pc, !.period = p]
  <2>2. work[w].pc = "latest" /\ work' = [work EXCEPT ![w] = n]
    BY <2>1 DEF ReviewLatest, Begin
  <2> HIDE DEF rest, all, p
  <2>3. n.pc \in {"latest", "commit"}
    BY <1>0 DEF Request
  <2> HIDE DEF n, pc
  <2> QED
    BY <1>0, <2>2, <2>3
<1>10. CASE ReviewCommit(w)
  BY <1>1, <1>10 DEF ReviewCommit
<1> QED
  BY <1>2, <1>3, <1>4, <1>5, <1>6, <1>7, <1>8, <1>9, <1>10 DEF GenerateStep, ReviewStep

LEMMA SerialKept ==
    ASSUME TypeOK, [Next]_vars
    PROVE  Serial' <=> Serial
<1>1. CASE UNCHANGED vars
  BY <1>1 DEF vars, Serial
<1>2. CASE Next
  <2>1. \A x \in Workers : work'[x].pc # "off" <=> work[x].pc # "off"
    BY <1>2, StepOn DEF Next
  <2> QED
    BY <2>1 DEF Serial
<1> QED
  BY <1>1, <1>2

\* What a request loaded is still so.
SerialOK(r) ==
    /\ r.pc = "summary" => Latest(r.type) < Alone.versions
    /\ r.pc = "insert" => r.version = Latest(r.type) + 1 /\ r.version <= Alone.versions
    /\ r.pc \in {"flush", "period", "latest", "commit"} =>
          r.version = Latest(r.type) /\ snapshots[r.type][r.version].status = From[r.action]

SerialInv ==
    /\ Inv
    /\ \A ty \in Types : Latest(ty) <= Alone.versions
    /\ \A w \in Workers : SerialOK(work[w])

LEMMA SerialStep ==
    ASSUME SerialInv, Inv', UNCHANGED snapshots, NEW w \in Workers, NEW r,
           work' = [work EXCEPT ![w] = r], SerialOK(r)
    PROVE  SerialInv'
<1>1. \A x \in Workers : work'[x] = IF x = w THEN r ELSE work[x]
  BY DEF SerialInv, Inv, TypeOK
<1>2. \A x \in Workers : SerialOK(work'[x])
  BY <1>1 DEF SerialInv
<1>3. \A x \in Workers : SerialOK(work[x])'
  BY <1>2 DEF SerialOK, Latest
<1> QED
  BY <1>3 DEF SerialInv, Latest

LEMMA SerialCommit ==
    ASSUME Serial, SerialInv, Inv', NEW w \in Workers, work[w].pc # "off", End(w),
           \A ty \in Types : Len(snapshots'[ty]) <= Alone.versions
    PROVE  SerialInv'
<1>1. \A x \in Workers : work'[x] = Idle \/ work'[x].pc = "off"
  BY DEF Serial, End, SerialInv, Inv, TypeOK
<1>2. \A x \in Workers : work'[x].pc \in {"idle", "off"}
  <2>1. Idle.pc = "idle"
    BY DEF Idle
  <2> QED
    BY <1>1, <2>1
<1>3. \A x \in Workers : SerialOK(work[x])'
  BY <1>2 DEF SerialOK
<1> QED
  BY <1>3 DEF SerialInv, Latest

LEMMA SerialNext ==
    ASSUME Serial, SerialInv, [Next]_vars
    PROVE  SerialInv'
<1>1. Inv'
  BY NextInv DEF SerialInv
<1>2. CASE UNCHANGED vars
  BY <1>1, <1>2 DEF SerialInv, vars, SerialOK, Latest
<1> SUFFICES ASSUME NEW w \in Workers, PostDocument(w) \/ GenerateStep(w) \/ ReviewStep(w)
             PROVE  SerialInv'
  BY <1>2 DEF Next
<1> DEFINE r == work[w]
<1>3. r \in Request /\ SerialOK(r) /\ VersionExists(r) /\ work[w].pc # "off"
  BY StepOn DEF SerialInv, Inv, TypeOK
<1>4. \A ty \in Types : Latest(ty) \in Nat /\ Latest(ty) <= Alone.versions /\ snapshots[ty] \in Seq(Snapshot)
  BY DEF SerialInv, Inv, TypeOK, Latest
<1>5. CASE PostDocument(w)
  BY <1>1, <1>5 DEF SerialInv, PostDocument, SerialOK, Latest
<1>6. ASSUME NEW ty \in Types, GenerateBegin(w, ty) PROVE SerialInv'
  <2> DEFINE n == [Idle EXCEPT !.pc = "summary", !.type = ty, !.from = books]
  <2>1. work' = [work EXCEPT ![w] = n] /\ UNCHANGED snapshots /\ Latest(ty) < Alone.versions
    BY <1>6 DEF GenerateBegin, Begin, Rows, Bound
  <2>2. n.pc = "summary" /\ n.type = ty
    BY IdleType DEF Request
  <2> HIDE DEF n
  <2>3. SerialOK(n)
    BY <2>1, <2>2 DEF SerialOK
  <2> QED
    BY <1>1, <2>1, <2>3, SerialStep
<1>7. CASE GenerateSummary(w)
  <2> DEFINE v == Latest(r.type) + 1
             n == [r EXCEPT !.pc = "insert", !.to = books, !.version = v]
  <2>1. work' = [work EXCEPT ![w] = n] /\ UNCHANGED snapshots /\ r.pc = "summary"
    BY <1>7 DEF GenerateSummary, Begin, Rows
  <2>2. v <= Alone.versions
    BY <1>3, <1>4, <2>1, ReturnAssumption DEF SerialOK, Request
  <2>3. n.pc = "insert" /\ n.type = r.type /\ n.version = v
    BY <1>3 DEF Request
  <2> HIDE DEF n
  <2>4. SerialOK(n)
    BY <2>2, <2>3 DEF SerialOK
  <2> QED
    BY <1>1, <2>1, <2>4, SerialStep
<1>8. CASE GenerateCommit(w)
  <2>1. r.version = Latest(r.type) + 1 /\ r.version <= Alone.versions /\ r.type \in Types
    BY <1>3, <1>8 DEF GenerateCommit, SerialOK, Request
  <2>2. End(w) /\ snapshots' = [snapshots EXCEPT ![r.type] = Append(@, NewSnapshot(r))]
    BY <1>4, <1>8, <2>1 DEF GenerateCommit
  <2>3. NewSnapshot(r) \in Snapshot
    BY <1>3 DEF NewSnapshot, Request, Snapshot, SnapshotStatus
  <2> HIDE DEF r
  <2>4. ASSUME NEW ty \in Types PROVE Len(snapshots'[ty]) <= Alone.versions
    <3>1. CASE ty = r.type
      <4>1. snapshots'[ty] = Append(snapshots[ty], NewSnapshot(r))
        BY <2>1, <2>2, <3>1 DEF SerialInv, Inv, TypeOK
      <4>2. Len(snapshots'[ty]) = Len(snapshots[ty]) + 1
        BY <1>4, <2>3, <4>1, AddVersion
      <4> QED
        BY <2>1, <3>1, <4>2 DEF Latest
    <3>2. CASE ty # r.type
      <4>1. snapshots'[ty] = snapshots[ty]
        BY <2>2, <3>2 DEF SerialInv, Inv, TypeOK
      <4> QED
        BY <1>4, <4>1 DEF Latest
    <3> QED
      BY <3>1, <3>2
  <2> QED
    BY <1>1, <1>3, <2>2, <2>4, SerialCommit
<1>9. ASSUME NEW ty \in Types, NEW a \in Actions, ReviewLoad(w, ty, a) PROVE SerialInv'
  <2> DEFINE n == [Idle EXCEPT !.pc = "flush", !.type = ty, !.version = Latest(ty), !.action = a]
  <2>1. /\ work' = [work EXCEPT ![w] = n] /\ UNCHANGED snapshots
        /\ snapshots[ty][Latest(ty)].status = From[a]
    BY <1>9 DEF ReviewLoad, Begin, Rows
  <2>2. n.pc = "flush" /\ n.type = ty /\ n.version = Latest(ty) /\ n.action = a
    BY IdleType DEF Request
  <2> HIDE DEF n
  <2>3. SerialOK(n)
    BY <2>1, <2>2 DEF SerialOK
  <2> QED
    BY <1>1, <2>1, <2>3, SerialStep
<1>10. CASE ReviewFlush(w)
  <2> DEFINE n == [r EXCEPT !.pc = "period"]
  <2>1. work' = [work EXCEPT ![w] = n] /\ UNCHANGED snapshots /\ r.pc = "flush"
    BY <1>10 DEF ReviewFlush, Begin, Rows
  <2>2. n.pc = "period" /\ n.type = r.type /\ n.version = r.version /\ n.action = r.action
    BY <1>3 DEF Request
  <2> HIDE DEF n
  <2>3. SerialOK(n)
    BY <1>3, <2>1, <2>2 DEF SerialOK
  <2> QED
    BY <1>1, <2>1, <2>3, SerialStep
<1>11. CASE ReviewPeriod(w)
  <2> DEFINE l == [r EXCEPT !.pc = "latest", !.seen = period, !.todo = Types]
             to == To[r.action]
             n == [r EXCEPT !.pc = "commit", !.seen = period, !.period =
                      IF Tax = "GST" THEN GstPeriod(period, to, FALSE) ELSE TdsPeriod(period, to)]
  <2>1. /\ work' = [work EXCEPT ![w] = l] \/ work' = [work EXCEPT ![w] = n]
        /\ UNCHANGED snapshots /\ r.pc = "period"
    BY <1>11 DEF ReviewPeriod, Begin, Rows
  <2>2. /\ l.pc = "latest" /\ l.type = r.type /\ l.version = r.version /\ l.action = r.action
        /\ n.pc = "commit" /\ n.type = r.type /\ n.version = r.version /\ n.action = r.action
    BY <1>3 DEF Request
  <2> HIDE DEF n, l
  <2>3. SerialOK(n) /\ SerialOK(l)
    BY <1>3, <2>1, <2>2 DEF SerialOK
  <2> QED
    BY <1>1, <2>1, <2>3, SerialStep
<1>12. ASSUME NEW ty \in Types, ReviewLatest(w, ty) PROVE SerialInv'
  <2> DEFINE rest == r.todo \ {ty}
             all == r.all /\ LatestFinalized(r, ty)
             n == [r EXCEPT !.todo = rest, !.all = all, !.pc = IF rest = {} THEN "commit" ELSE "latest",
                     !.period = IF rest = {} THEN GstPeriod(r.seen, "FINALIZED", all) ELSE r.period]
  <2>1. work' = [work EXCEPT ![w] = n] /\ UNCHANGED snapshots /\ r.pc = "latest"
    BY <1>12 DEF ReviewLatest, Begin, Rows
  <2>2. /\ n.pc \in {"latest", "commit"} /\ n.type = r.type /\ n.version = r.version
        /\ n.action = r.action
    BY <1>3 DEF Request
  <2> HIDE DEF n
  <2>3. SerialOK(n)
    BY <1>3, <2>1, <2>2 DEF SerialOK
  <2> QED
    BY <1>1, <2>1, <2>3, SerialStep
<1>13. CASE ReviewCommit(w)
  <2> DEFINE st == To[r.action]
  <2>1. /\ snapshots' = [snapshots EXCEPT ![r.type][r.version].status = st]
        /\ End(w) /\ r.pc = "commit"
    BY <1>13 DEF ReviewCommit
  <2>2. st \in SnapshotStatus /\ r.type \in Types /\ r.version \in 1 .. Len(snapshots[r.type])
    BY <1>3, <2>1, Workflow DEF Request, VersionExists, Latest
  <2> HIDE DEF r, st
  <2>3. ASSUME NEW ty \in Types PROVE Len(snapshots'[ty]) <= Alone.versions
    <3>1. CASE ty = r.type
      <4>1. snapshots'[ty] = [snapshots[ty] EXCEPT ![r.version].status = st]
        BY <2>1, <2>2, <3>1 DEF SerialInv, Inv, TypeOK
      <4>2. snapshots[ty] \in Seq(Snapshot) /\ r.version \in 1 .. Len(snapshots[ty])
        BY <1>4, <2>2, <3>1
      <4>3. Len(snapshots'[ty]) = Len(snapshots[ty])
        BY <2>2, <4>1, <4>2, SetStatus
      <4> QED
        BY <1>4, <4>3 DEF Latest
    <3>2. CASE ty # r.type
      <4>1. snapshots'[ty] = snapshots[ty]
        BY <2>1, <2>2, <3>2 DEF SerialInv, Inv, TypeOK
      <4> QED
        BY <1>4, <4>1 DEF Latest
    <3> QED
      BY <3>1, <3>2
  <2> QED
    BY <1>1, <1>3, <2>1, <2>3, SerialCommit
<1> QED
  BY <1>5, <1>6, <1>7, <1>8, <1>9, <1>10, <1>11, <1>12, <1>13 DEF GenerateStep, ReviewStep

LEMMA SerialInit == Init => SerialInv
<1> SUFFICES ASSUME Init PROVE SerialInv
  OBVIOUS
<1>1. \A ty \in Types : Latest(ty) = 0
  BY DEF Init, Latest
<1>2. \A w \in Workers : work[w].pc \in {"idle", "off"}
  <2>1. Idle.pc = "idle" /\ Off.pc = "off"
    BY DEF Idle, Off
  <2> QED
    BY <2>1 DEF Init
<1> QED
  BY <1>1, <1>2, InitInv, ReturnAssumption DEF SerialInv, SerialOK

\* A version that is added was absent before.
LEMMA CreateStep ==
    ASSUME Serial, Serial', SerialInv, NEW w \in Workers, GenerateCommit(w)
    PROVE  Review!Next
<1> DEFINE r == work[w]
           n == r.version
<1>1. r \in Request /\ SerialOK(r) /\ r.pc = "insert"
  BY DEF SerialInv, Inv, TypeOK, GenerateCommit
<1>2. /\ n = Len(snapshots[r.type]) + 1 /\ n <= Alone.versions /\ r.type \in Types
      /\ snapshots[r.type] \in Seq(Snapshot)
  BY <1>1 DEF SerialOK, Request, Latest, SerialInv, Inv, TypeOK
<1>3. snapshots' = [snapshots EXCEPT ![r.type] = Append(@, NewSnapshot(r))]
  BY <1>2 DEF GenerateCommit, Latest
<1>4. NewSnapshot(r) \in Snapshot /\ NewSnapshot(r).status = "DRAFT"
  BY <1>1 DEF NewSnapshot, Request, Snapshot, SnapshotStatus
<1> HIDE DEF r, n
<1>5. <<r.type, n>> \in Versions
  BY <1>2, ReturnAssumption DEF Versions
<1>6. /\ snapshots'[r.type] = Append(snapshots[r.type], NewSnapshot(r))
      /\ \A ty \in Types : ty # r.type => snapshots'[ty] = snapshots[ty]
  BY <1>2, <1>3 DEF SerialInv, Inv, TypeOK
<1>7. /\ Len(snapshots'[r.type]) = n
      /\ snapshots'[r.type][n].status = "DRAFT"
      /\ \A v \in 1 .. Len(snapshots[r.type]) : snapshots'[r.type][v] = snapshots[r.type][v]
  BY <1>2, <1>4, <1>6, AddVersion
<1>8. VersionStatus[<<r.type, n>>] = "NONE"
  BY <1>2, <1>5 DEF VersionStatus, Latest
<1>9. VersionStatus'[<<r.type, n>>] = "DRAFT"
  BY <1>2, <1>5, <1>7 DEF VersionStatus, Latest
<1>10. ASSUME NEW i \in Versions, i # <<r.type, n>>
       PROVE  VersionStatus'[i] = VersionStatus[i]
  <2>1. PICK ty \in Types, v \in 1 .. Alone.versions : i = <<ty, v>>
    BY DEF Versions
  <2>2. CASE ty = r.type
    <3>1. v # n
      BY <1>10, <2>1, <2>2
    <3>2. v <= Len(snapshots'[ty]) <=> v <= Len(snapshots[ty])
      BY <1>2, <1>7, <2>2, <3>1
    <3>3. v <= Len(snapshots[ty]) => snapshots'[ty][v] = snapshots[ty][v]
      BY <1>2, <1>7, <2>2
    <3> QED
      BY <2>1, <3>2, <3>3 DEF VersionStatus, Latest
  <2>3. CASE ty # r.type
    BY <1>6, <2>1, <2>3 DEF VersionStatus, Latest
  <2> QED
    BY <2>2, <2>3
<1>11. VersionStatus' = [VersionStatus EXCEPT ![<<r.type, n>>] = "DRAFT"]
  <2>1. /\ VersionStatus = [i \in Versions |-> VersionStatus[i]]
        /\ VersionStatus' = [i \in Versions |-> VersionStatus'[i]]
    BY DEF VersionStatus
  <2> QED
    BY <1>5, <1>9, <1>10, <2>1
<1> QED
  BY <1>5, <1>8, <1>11 DEF Review!Next, Review!Create, Review!Absent

\* The status a review leaves is the one its version was in.
LEMMA MoveStep ==
    ASSUME Serial, Serial', SerialInv, NEW w \in Workers, ReviewCommit(w)
    PROVE  Review!Next
<1> DEFINE r == work[w]
           n == r.version
           st == To[r.action]
<1>1. r \in Request /\ SerialOK(r) /\ VersionExists(r) /\ r.pc = "commit"
  BY DEF SerialInv, Inv, TypeOK, ReviewCommit
<1>2. /\ n \in 1 .. Len(snapshots[r.type]) /\ n <= Alone.versions /\ r.type \in Types
      /\ snapshots[r.type] \in Seq(Snapshot) /\ st \in SnapshotStatus
  <2>1. r.type \in Types /\ r.action \in Actions
    BY <1>1 DEF Request
  <2>2. /\ snapshots[r.type] \in Seq(Snapshot) /\ Latest(r.type) <= Alone.versions
        /\ st \in SnapshotStatus
    BY <2>1, Workflow DEF SerialInv, Inv, TypeOK
  <2>3. n \in 1 .. Len(snapshots[r.type])
    BY <1>1 DEF VersionExists, Latest
  <2>4. n <= Alone.versions
    <3>1. n <= Latest(r.type) /\ Latest(r.type) \in Nat
      BY <2>2, <2>3 DEF Latest
    <3> QED
      BY <2>2, <2>3, <3>1, ReturnAssumption
  <2> QED
    BY <2>1, <2>2, <2>3, <2>4
<1>3. snapshots[r.type][n].status = From[r.action] /\ <<From[r.action], st>> \in ReviewEdges
  BY <1>1, Workflow DEF SerialOK, Request
<1>4. snapshots' = [snapshots EXCEPT ![r.type][n].status = st]
  BY DEF ReviewCommit
<1> HIDE DEF r, n, st
<1>5. <<r.type, n>> \in Versions
  BY <1>2, ReturnAssumption DEF Versions
<1>6. /\ snapshots'[r.type] = [snapshots[r.type] EXCEPT ![n].status = st]
      /\ \A ty \in Types : ty # r.type => snapshots'[ty] = snapshots[ty]
  BY <1>2, <1>4 DEF SerialInv, Inv, TypeOK
<1>7. /\ Len(snapshots'[r.type]) = Len(snapshots[r.type])
      /\ snapshots'[r.type][n] = [snapshots[r.type][n] EXCEPT !.status = st]
      /\ \A v \in 1 .. Len(snapshots[r.type]) : v # n => snapshots'[r.type][v] = snapshots[r.type][v]
  BY <1>2, <1>6, SetStatus
<1>8. snapshots'[r.type][n].status = st
  <2>1. snapshots[r.type][n] \in Snapshot
    BY <1>2
  <2> QED
    BY <1>7, <2>1 DEF Snapshot
<1>9. VersionStatus[<<r.type, n>>] = From[r.action] /\ VersionStatus'[<<r.type, n>>] = st
  <2>1. n <= Len(snapshots[r.type]) /\ n <= Len(snapshots'[r.type])
    BY <1>2, <1>7
  <2>2. VersionStatus[<<r.type, n>>] = snapshots[r.type][n].status
    BY <1>5, <2>1 DEF VersionStatus, Latest
  <2>3. VersionStatus'[<<r.type, n>>] = snapshots'[r.type][n].status
    BY <1>5, <2>1 DEF VersionStatus, Latest
  <2> QED
    BY <1>3, <1>8, <2>2, <2>3
<1>10. ASSUME NEW i \in Versions, i # <<r.type, n>>
       PROVE  VersionStatus'[i] = VersionStatus[i]
  <2>1. PICK ty \in Types, v \in 1 .. Alone.versions : i = <<ty, v>>
    BY DEF Versions
  <2>2. CASE ty = r.type
    <3>1. v # n
      BY <1>10, <2>1, <2>2
    <3>2. v <= Len(snapshots[ty]) => snapshots'[ty][v] = snapshots[ty][v]
      BY <1>2, <1>7, <2>2, <3>1
    <3> QED
      BY <1>7, <2>1, <2>2, <3>2 DEF VersionStatus, Latest
  <2>3. CASE ty # r.type
    BY <1>6, <2>1, <2>3 DEF VersionStatus, Latest
  <2> QED
    BY <2>2, <2>3
<1>11. VersionStatus' = [VersionStatus EXCEPT ![<<r.type, n>>] = st]
  <2>1. /\ VersionStatus = [i \in Versions |-> VersionStatus[i]]
        /\ VersionStatus' = [i \in Versions |-> VersionStatus'[i]]
    BY DEF VersionStatus
  <2> QED
    BY <1>5, <1>9, <1>10, <2>1
<1>12. Review!Move(<<r.type, n>>)
  <2> DEFINE e == <<From[r.action], st>>
  <2>1. e[1] = From[r.action] /\ e[2] = st
    OBVIOUS
  <2> QED
    BY <1>3, <1>9, <1>11, <2>1 DEF Review!Move
<1> QED
  BY <1>5, <1>12 DEF Review!Next

LEMMA ReviewStepRefines ==
    ASSUME Inv, Serial => SerialInv, [Next]_vars
    PROVE  [Review!Next]_VersionStatus
<1>0. Serial' <=> Serial
  BY SerialKept DEF Inv
<1>1. CASE ~Serial
  BY <1>0, <1>1 DEF VersionStatus
<1>2. CASE Serial
  <2>1. CASE UNCHANGED snapshots
    BY <1>0, <2>1 DEF VersionStatus, Latest
  <2>2. ASSUME NEW w \in Workers, GenerateCommit(w) PROVE Review!Next
    BY <1>0, <1>2, <2>2, CreateStep
  <2>3. ASSUME NEW w \in Workers, ReviewCommit(w) PROVE Review!Next
    BY <1>0, <1>2, <2>3, MoveStep
  <2> QED
    BY <2>1, <2>2, <2>3 DEF vars, Next, PostDocument, GenerateStep, GenerateBegin,
       GenerateSummary, ReviewStep, ReviewLoad, ReviewFlush, ReviewPeriod, ReviewLatest, Rows
<1> QED
  BY <1>1, <1>2

LEMMA ReviewInit == Init => Review!Init
<1> SUFFICES ASSUME Init PROVE VersionStatus = [i \in Versions |-> "NONE"]
  BY DEF Review!Init, Review!Absent
<1>1. ASSUME NEW i \in Versions PROVE ~(i[2] <= Latest(i[1]))
  <2>1. i[1] \in Types /\ i[2] \in 1 .. Alone.versions
    BY DEF Versions
  <2>2. Latest(i[1]) = 0
    BY <2>1 DEF Init, Latest
  <2> QED
    BY <2>1, <2>2
<1> QED
  BY <1>1 DEF VersionStatus

\* With requests one after the other every version goes through the documented review,
\* step by step: the detailed specification implements the abstract one.
THEOREM ReviewRefined == Spec => ImplementsReview
<1> DEFINE Both == Inv /\ (Serial => SerialInv)
<1>1. Init => Both
  BY InitInv, SerialInit
<1>2. Both /\ [Next]_vars => Both'
  <2> SUFFICES ASSUME Both, [Next]_vars PROVE Both'
    OBVIOUS
  <2>1. Inv'
    BY NextInv
  <2>2. Serial' => Serial
    BY SerialKept DEF Inv
  <2>3. Serial => SerialInv'
    BY SerialNext
  <2> QED
    BY <2>1, <2>2, <2>3
<1>3. Both /\ [Next]_vars => [Review!Next]_VersionStatus
  BY ReviewStepRefines
<1> HIDE DEF Both
<1> QED
  BY <1>1, <1>2, <1>3, ReviewInit, PTL DEF Spec, ImplementsReview, Review!Spec

LEMMA TerminalStep ==
    [Review!Next]_VersionStatus =>
       [\A i \in Versions : Review!Terminal(VersionStatus[i]) =>
           VersionStatus'[i] = VersionStatus[i]]_VersionStatus
<1> SUFFICES ASSUME NEW j \in Versions, Review!Create(j) \/ Review!Move(j),
                    NEW i \in Versions, Review!Terminal(VersionStatus[i])
             PROVE  VersionStatus'[i] = VersionStatus[i]
  BY DEF Review!Next
<1>1. VersionStatus[i] # "NONE" /\ \A e \in ReviewEdges : e[1] # VersionStatus[i]
  BY DEF Review!Terminal, Review!Absent
<1>2. \E s : VersionStatus' = [VersionStatus EXCEPT ![j] = s]
  BY DEF Review!Create, Review!Move
<1>3. i # j
  BY <1>1 DEF Review!Create, Review!Move, Review!Absent
<1>4. DOMAIN VersionStatus = Versions
  BY DEF VersionStatus
<1> QED
  BY <1>2, <1>3, <1>4

\* What the review is for, with requests one after the other: a version that is finalized,
\* or was sent back, stays so.  This is what the overlap of two requests breaks.
THEOREM FinalizedStays == Spec => Review!TerminalPermanent
BY ReviewRefined, TerminalStep, PTL DEF ImplementsReview, Review!Spec, Review!TerminalPermanent

-----------------------------------------------------------------------------
(* With requests one after the other, the versions that are reviewed and    *)
(* the status of the period.                                                *)

LatestReviewed ==
    Serial => \A ty \in Types : \A v \in 1 .. Len(snapshots[ty]) :
        snapshots'[ty][v] # snapshots[ty][v] => v = Len(snapshots'[ty])

\* How the versions of the returns change: not at all, by a new one, or in the status of one.
LEMMA VersionsChange ==
    ASSUME Inv, NEW w \in Workers, PostDocument(w) \/ GenerateStep(w) \/ ReviewStep(w)
    PROVE  \/ UNCHANGED snapshots
           \/ /\ GenerateCommit(w)
              /\ \A ty \in Types : \/ snapshots'[ty] = snapshots[ty]
                                   \/ snapshots'[ty] = Append(snapshots[ty], NewSnapshot(work[w]))
              /\ NewSnapshot(work[w]) \in Snapshot
           \/ ReviewCommit(w)
<1>1. work[w] \in Request /\ snapshots \in [Types -> Seq(Snapshot)]
  BY DEF Inv, TypeOK
<1>2. NewSnapshot(work[w]) \in Snapshot
  BY <1>1 DEF NewSnapshot, Request, Snapshot, SnapshotStatus
<1>3. CASE PostDocument(w)
  BY <1>3 DEF PostDocument
<1>4. CASE GenerateStep(w)
  <2>1. (\E ty \in Types : GenerateBegin(w, ty)) \/ GenerateSummary(w) => UNCHANGED snapshots
    BY DEF GenerateBegin, GenerateSummary, Rows
  <2>2. CASE GenerateCommit(w)
    <3>1. \/ UNCHANGED snapshots
          \/ snapshots' = [snapshots EXCEPT ![work[w].type] = Append(@, NewSnapshot(work[w]))]
      BY <2>2 DEF GenerateCommit, Refuse, Rows
    <3> QED
      BY <1>1, <1>2, <2>2, <3>1
  <2> QED
    BY <1>4, <2>1, <2>2 DEF GenerateStep
<1>5. CASE ReviewStep(w)
  <2>1. (\E ty \in Types, a \in Actions : ReviewLoad(w, ty, a)) => UNCHANGED snapshots
    BY DEF ReviewLoad, Rows
  <2>2. ReviewFlush(w) \/ ReviewPeriod(w) \/ (\E ty \in Types : ReviewLatest(w, ty))
           => UNCHANGED snapshots
    BY DEF ReviewFlush, ReviewPeriod, ReviewLatest, Rows
  <2> QED
    BY <1>5, <2>1, <2>2 DEF ReviewStep
<1> QED
  BY <1>3, <1>4, <1>5

\* What the commit of a review does, of a request that is alone.
LEMMA ReviewCommitted ==
    ASSUME SerialInv, NEW w \in Workers, ReviewCommit(w)
    PROVE  LET r == work[w]
               n == Latest(r.type) IN
           /\ r.type \in Types /\ r.action \in Actions
           /\ n \in Nat \ {0} /\ r.version = n
           /\ snapshots[r.type][n].status = From[r.action]
           /\ snapshots'[r.type][n].status = To[r.action]
           /\ \A ty \in Types : Latest(ty)' = Latest(ty)
           /\ \A ty \in Types : \A v \in 1 .. Latest(ty) :
                 ty # r.type \/ v # n => snapshots'[ty][v] = snapshots[ty][v]
<1> DEFINE r == work[w]
           n == Latest(r.type)
           st == To[r.action]
<1>1. r \in Request /\ snapshots \in [Types -> Seq(Snapshot)] /\ VersionExists(r) /\ SerialOK(r)
  BY DEF SerialInv, Inv, TypeOK
<1>2. r.pc = "commit" /\ snapshots' = [snapshots EXCEPT ![r.type][r.version].status = st]
  BY DEF ReviewCommit
<1>3. r.type \in Types /\ r.action \in Actions /\ st \in SnapshotStatus
  BY <1>1, Workflow DEF Request
<1>4. r.version = n /\ n \in 1 .. Len(snapshots[r.type]) /\ snapshots[r.type][n].status = From[r.action]
  BY <1>1, <1>2 DEF VersionExists, SerialOK, Latest
<1>5. snapshots[r.type] \in Seq(Snapshot) /\ snapshots[r.type][n] \in Snapshot
  BY <1>1, <1>3, <1>4
<1> HIDE DEF r, st, n
<1>6. snapshots'[r.type] = [snapshots[r.type] EXCEPT ![n].status = st]
  BY <1>1, <1>2, <1>3, <1>4
<1>7. /\ Len(snapshots'[r.type]) = Len(snapshots[r.type])
      /\ \A i \in 1 .. Len(snapshots[r.type]) :
            snapshots'[r.type][i] = IF i = n THEN [snapshots[r.type][n] EXCEPT !.status = st]
                                    ELSE snapshots[r.type][i]
  BY <1>3, <1>4, <1>5, <1>6, SetStatus
<1>8. snapshots'[r.type][n].status = st
  BY <1>4, <1>5, <1>7 DEF Snapshot
<1>9. \A ty \in Types : ty # r.type => snapshots'[ty] = snapshots[ty]
  BY <1>1, <1>2
<1>10. n \in Nat \ {0}
  BY <1>4, <1>5
<1>11. \A ty \in Types : Len(snapshots'[ty]) = Len(snapshots[ty])
  BY <1>7, <1>9
<1>12. ASSUME NEW ty \in Types, NEW v \in 1 .. Len(snapshots[ty]), ty # r.type \/ v # n
       PROVE  snapshots'[ty][v] = snapshots[ty][v]
  BY <1>7, <1>9, <1>12
<1> QED
  BY <1>3, <1>4, <1>8, <1>10, <1>11, <1>12 DEF Latest, r, n, st

\* Only the latest version of a return is ever reviewed, one request after the other.
THEOREM LatestAlwaysReviewed == Spec => OnlyLatestReviewed
<1>1. Init => Inv /\ (Serial => SerialInv)
  BY InitInv, SerialInit
<1>2. Inv /\ (Serial => SerialInv) /\ [Next]_vars => Inv' /\ (Serial' => SerialInv')
  BY NextInv, SerialKept, SerialNext DEF Inv
<1>3. Inv /\ (Serial => SerialInv) /\ [Next]_vars => [LatestReviewed]_vars
  <2> SUFFICES ASSUME Inv, Serial, SerialInv, Next,
                      NEW ty \in Types, NEW v \in 1 .. Len(snapshots[ty]),
                      snapshots'[ty][v] # snapshots[ty][v]
               PROVE  v = Len(snapshots'[ty])
    BY DEF LatestReviewed
  <2>1. PICK w \in Workers : PostDocument(w) \/ GenerateStep(w) \/ ReviewStep(w)
    BY DEF Next
  <2>2. snapshots[ty] \in Seq(Snapshot)
    BY DEF Inv, TypeOK
  <2>3. ASSUME NEW x \in Snapshot, snapshots'[ty] = Append(snapshots[ty], x) PROVE FALSE
    BY <2>2, <2>3
  <2>4. ReviewCommit(w)
    BY <2>1, <2>3, VersionsChange
  <2>5. ty = work[w].type /\ v = Latest(ty) /\ Latest(ty)' = Latest(ty)
    BY <2>4, ReviewCommitted DEF Latest
  <2> QED
    BY <2>5 DEF Latest
<1> QED
  BY <1>1, <1>2, <1>3, PTL DEF Spec, OnlyLatestReviewed, LatestReviewed

-----------------------------------------------------------------------------
Final(ty) == Latest(ty) > 0 /\ snapshots[ty][Latest(ty)].status = "FINALIZED"
Finalized == {ty \in Types : Final(ty)}
AllFinal(r, S) == S \subseteq Finalized \cup {r.type}

\* What a request will make of the period, as it was when the request read it.
OutcomeIn(r, done, now) ==
    IF Tax = "GST" THEN GstPeriod(now, To[r.action], Types \subseteq done \cup {r.type})
    ELSE TdsPeriod(now, To[r.action])
Outcome(r) == OutcomeIn(r, Finalized, period)

\* What a request knows of the returns in `done`, which are finalized, and the period `now`.
SeenIn(r, done, now) ==
    /\ r.pc \in {"flush", "period"} => r.all
    /\ r.pc = "latest" => /\ Tax = "GST" /\ r.action = "finalize" /\ r.seen = now
                          /\ r.all <=> Types \ r.todo \subseteq done \cup {r.type}
    /\ r.pc = "commit" => r.seen = now /\ r.period = OutcomeIn(r, done, now)
SeenOK(r) == SeenIn(r, Finalized, period)

PeriodOK ==
    /\ Tax = "GST" => PeriodFinalizedWithReturns
    /\ Tax = "TDS" => PeriodFollowsReview

SeenInv == PeriodOK /\ \A w \in Workers : SeenOK(work[w])

\* A request that reads what it needs knows it from then on, nothing else having moved.
LEMMA SeenStep ==
    ASSUME SerialInv, SeenInv, UNCHANGED <<snapshots, period>>, Serial, Serial',
           NEW w \in Workers, NEW n, work' = [work EXCEPT ![w] = n], SeenOK(n)
    PROVE  SeenInv'
<1>1. \A x \in Workers : work'[x] = IF x = w THEN n ELSE work[x]
  BY DEF SerialInv, Inv, TypeOK
<1>2. \A x \in Workers : SeenOK(work'[x])
  BY <1>1 DEF SeenInv
<1>3. Finalized' = Finalized /\ period' = period
  <2>1. \A ty \in Types : Final(ty)' <=> Final(ty)
    BY DEF Final, Latest
  <2> QED
    BY <2>1 DEF Finalized
<1>4. ASSUME NEW x \in Workers PROVE SeenOK(work[x])'
  BY <1>2, <1>3 DEF SeenOK
<1>5. PeriodOK'
  BY DEF SeenInv, PeriodOK, PeriodFinalizedWithReturns, PeriodFollowsReview, Latest
<1> QED
  BY <1>4, <1>5 DEF SeenInv

\* A request that ends knows nothing, and there is no other.
LEMMA SeenEnd ==
    ASSUME Serial, SerialInv, NEW w \in Workers, work[w].pc # "off", End(w), PeriodOK'
    PROVE  SeenInv'
<1>1. \A x \in Workers : work'[x] = Idle \/ work'[x].pc = "off"
  BY DEF Serial, End, SerialInv, Inv, TypeOK
<1>2. \A x \in Workers : work'[x].pc \in {"idle", "off"}
  <2>1. Idle.pc = "idle"
    BY DEF Idle
  <2> QED
    BY <1>1, <2>1
<1>3. \A x \in Workers : SeenOK(work[x])'
  BY <1>2 DEF SeenOK, SeenIn
<1> QED
  BY <1>3 DEF SeenInv

\* A new version is in DRAFT, and finalizes nothing.
LEMMA SeenGenerated ==
    ASSUME SerialInv, SeenInv, Serial, Serial', NEW w \in Workers, GenerateCommit(w)
    PROVE  PeriodOK'
<1> DEFINE r == work[w]
           x == NewSnapshot(r)
<1>1. r \in Request /\ snapshots \in [Types -> Seq(Snapshot)] /\ x.status = "DRAFT" /\ x \in Snapshot
  <2>1. r \in Request /\ snapshots \in [Types -> Seq(Snapshot)]
    BY DEF SerialInv, Inv, TypeOK
  <2> QED
    BY <2>1 DEF NewSnapshot, Request, Snapshot, SnapshotStatus
<1>2. \/ UNCHANGED snapshots
      \/ snapshots' = [snapshots EXCEPT ![r.type] = Append(@, x)]
  BY DEF GenerateCommit, Refuse, Rows
<1>3. period' = period /\ r.type \in Types
  BY <1>1 DEF GenerateCommit, Refuse, Rows, Request
<1> HIDE DEF x, r
<1>4. ASSUME NEW ty \in Types
      PROVE  /\ Latest(ty)' \in {Latest(ty), Latest(ty) + 1} /\ Latest(ty) \in Nat
             /\ Latest(ty)' = Latest(ty) + 1 => snapshots'[ty][Latest(ty)'].status = "DRAFT"
             /\ \A v \in 1 .. Latest(ty) : snapshots'[ty][v] = snapshots[ty][v]
  <2>1. snapshots[ty] \in Seq(Snapshot)
    BY <1>1
  <2>2. snapshots'[ty] = snapshots[ty] \/ snapshots'[ty] = Append(snapshots[ty], x)
    BY <1>1, <1>2
  <2> QED
    BY <1>1, <2>1, <2>2 DEF Latest
<1>5. \A ty \in Types : Final(ty)' => Final(ty)
  BY <1>4 DEF Final
<1>6. ASSUME NEW ty \in Types, NEW v \in 1 .. Latest(ty)
      PROVE  v \in 1 .. Latest(ty)' /\ snapshots'[ty][v] = snapshots[ty][v]
  BY <1>4
<1>7. CASE Tax = "GST"
  <2>1. PeriodFinalizedWithReturns
    BY <1>7 DEF SeenInv, PeriodOK
  <2>2. (\A ty \in Types : Final(ty)') => period' = "FINALIZED"
    BY <1>3, <1>5, <2>1 DEF PeriodFinalizedWithReturns, Final
  <2>3. ASSUME period' = "FINALIZED", NEW ty \in Types
        PROVE  \E v \in 1 .. Latest(ty)' : snapshots'[ty][v].status = "FINALIZED"
    BY <1>3, <1>6, <2>1, <2>3 DEF PeriodFinalizedWithReturns
  <2>4. PeriodFinalizedWithReturns'
    BY <2>2, <2>3 DEF PeriodFinalizedWithReturns, Final
  <2> QED
    BY <1>7, <2>4 DEF PeriodOK
<1>8. CASE Tax = "TDS"
  <2>1. PeriodFollowsReview
    BY <1>8 DEF SeenInv, PeriodOK
  <2>2. PeriodFollowsReview'
    BY <1>3, <1>6, <2>1 DEF PeriodFollowsReview
  <2> QED
    BY <1>8, <2>2 DEF PeriodOK
<1> QED
  BY <1>7, <1>8, ReturnAssumption DEF PeriodOK

\* A review leaves the period in step with the versions.
LEMMA SeenReviewed ==
    ASSUME SerialInv, SeenInv, Serial, Serial', NEW w \in Workers, ReviewCommit(w)
    PROVE  PeriodOK'
<1>0. PICK r, y, n : r = work[w] /\ y = r.type /\ n = Latest(y)
  OBVIOUS
<1>1. /\ y \in Types /\ r.action \in Actions
      /\ n \in Nat \ {0}
      /\ snapshots[y][n].status = From[r.action]
      /\ snapshots'[y][n].status = To[r.action]
      /\ \A ty \in Types : Latest(ty)' = Latest(ty)
      /\ \A ty \in Types : \A v \in 1 .. Latest(ty) :
            ty # y \/ v # n => snapshots'[ty][v] = snapshots[ty][v]
  BY <1>0, ReviewCommitted
<1>2. period' = Outcome(r)
  <2>1. SeenOK(r) /\ r.pc = "commit" /\ period' = IF r.period = r.seen THEN period ELSE r.period
    BY <1>0 DEF SeenInv, ReviewCommit
  <2> QED
    BY <2>1 DEF SeenOK, SeenIn, AllFinal, Outcome
<1>3. ASSUME NEW ty \in Types, ty # y PROVE Final(ty)' <=> Final(ty)
  <2>1. Latest(ty) \in Nat
    BY DEF SerialInv, Inv, TypeOK, Latest
  <2>2. Latest(ty) > 0 => snapshots'[ty][Latest(ty)] = snapshots[ty][Latest(ty)]
    BY <1>1, <1>3, <2>1
  <2> QED
    BY <1>1, <2>2 DEF Final
<1>5. n \in 1 .. n /\ n = Latest(y) /\ n = Latest(y)' /\ n > 0
  BY <1>0, <1>1
<1>4. Final(y)' <=> To[r.action] = "FINALIZED"
  BY <1>1, <1>5 DEF Final
<1>6. CASE Tax = "GST"
  <2>1. PeriodFinalizedWithReturns
    BY <1>6 DEF SeenInv, PeriodOK
  <2>2. ASSUME \A ty \in Types : Final(ty)' PROVE period' = "FINALIZED"
    <3>1. To[r.action] = "FINALIZED" /\ AllFinal(r, Types)
      BY <1>0, <1>1, <1>3, <1>4, <2>2 DEF AllFinal, Finalized
    <3> QED
      BY <1>2, <1>6, <3>1 DEF Outcome, OutcomeIn, AllFinal, GstPeriod
  <2>3. ASSUME period' = "FINALIZED", NEW ty \in Types
        PROVE  \E v \in 1 .. Latest(ty)' : snapshots'[ty][v].status = "FINALIZED"
    <3>1. CASE To[r.action] = "FINALIZED"
      <4>1. AllFinal(r, Types)
        BY <1>2, <1>6, <2>3, <3>1 DEF Outcome, OutcomeIn, AllFinal, GstPeriod
      <4>2. Final(ty)'
        BY <1>0, <1>3, <1>4, <3>1, <4>1 DEF AllFinal, Finalized
      <4>3. Latest(ty)' \in Nat
        BY <1>1 DEF SerialInv, Inv, TypeOK, Latest
      <4> QED
        BY <4>2, <4>3 DEF Final
    <3>2. CASE To[r.action] # "FINALIZED"
      <4>1. period = "FINALIZED"
        BY <1>2, <1>6, <2>3, <3>2 DEF Outcome, OutcomeIn, AllFinal, GstPeriod
      <4>2. PICK v \in 1 .. Latest(ty) : snapshots[ty][v].status = "FINALIZED"
        BY <2>1, <4>1 DEF PeriodFinalizedWithReturns
      <4>3. From[r.action] # "FINALIZED"
        BY <1>1 DEF From, Actions
      <4>4. snapshots'[ty][v] = snapshots[ty][v]
        BY <1>1, <1>5, <4>2, <4>3
      <4> QED
        BY <1>1, <4>2, <4>4
    <3> QED
      BY <3>1, <3>2
  <2>4. PeriodFinalizedWithReturns'
    BY <2>2, <2>3 DEF PeriodFinalizedWithReturns, Final
  <2> QED
    BY <1>6, <2>4 DEF PeriodOK
<1>7. CASE Tax = "TDS"
  <2>1. PeriodFollowsReview /\ period' = TdsPeriod(period, To[r.action])
    BY <1>2, <1>7 DEF SeenInv, PeriodOK, Outcome, OutcomeIn
  <2>2. CASE To[r.action] # "CHANGES_REQUESTED"
    <3>1. snapshots'[y][n].status = period'
      BY <1>1, <2>1, <2>2 DEF TdsPeriod
    <3> QED
      BY <1>1, <1>5, <1>7, <3>1 DEF PeriodOK, PeriodFollowsReview
  <2>3. CASE To[r.action] = "CHANGES_REQUESTED"
    <3>1. period' = period /\ From[r.action] = "UNDER_REVIEW"
      BY <1>1, <2>1, <2>3 DEF TdsPeriod, To, From, Actions
    <3>2. CASE period = "OPEN"
      BY <1>7, <3>1, <3>2 DEF PeriodOK, PeriodFollowsReview
    <3>3. CASE period # "OPEN"
      <4>1. PICK ty \in Types : \E v \in 1 .. Latest(ty) :
               \/ snapshots[ty][v].status = period
               \/ snapshots[ty][v].status = "CHANGES_REQUESTED" /\ period = "UNDER_REVIEW"
        BY <2>1, <3>3 DEF PeriodFollowsReview
      <4>2. PICK v \in 1 .. Latest(ty) :
               \/ snapshots[ty][v].status = period
               \/ snapshots[ty][v].status = "CHANGES_REQUESTED" /\ period = "UNDER_REVIEW"
        BY <4>1
      <4>3. CASE ty # y \/ v # n
        <5>1. snapshots'[ty][v] = snapshots[ty][v] /\ v \in 1 .. Latest(ty)'
          BY <1>1, <4>3
        <5> QED
          BY <1>7, <3>1, <4>2, <5>1 DEF PeriodOK, PeriodFollowsReview
      <4>4. CASE ty = y /\ v = n
        <5>1. period = "UNDER_REVIEW" /\ snapshots'[ty][v].status = "CHANGES_REQUESTED"
          BY <1>1, <2>3, <3>1, <4>2, <4>4
        <5> QED
          BY <1>1, <1>5, <1>7, <3>1, <4>4, <5>1 DEF PeriodOK, PeriodFollowsReview
      <4> QED
        BY <4>3, <4>4
    <3> QED
      BY <3>2, <3>3
  <2> QED
    BY <2>2, <2>3
<1> QED
  BY <1>6, <1>7, ReturnAssumption DEF PeriodOK

\* Each step of a lone request keeps the period, and what the request knows, right.
LEMMA SeenNext ==
    ASSUME Serial, SerialInv, SeenInv, [Next]_vars
    PROVE  SeenInv'
<1>0. Serial'
  BY SerialKept DEF SerialInv, Inv
<1>1. CASE UNCHANGED vars
  BY <1>0, <1>1 DEF vars, SeenInv, SeenOK, SeenIn, Finalized, Final, Latest, OutcomeIn, PeriodOK,
     PeriodFinalizedWithReturns, PeriodFollowsReview
<1> SUFFICES ASSUME NEW w \in Workers, PostDocument(w) \/ GenerateStep(w) \/ ReviewStep(w)
             PROVE  SeenInv'
  BY <1>1 DEF Next
<1> DEFINE r == work[w]
<1>2. r \in Request /\ SerialOK(r) /\ VersionExists(r) /\ SeenOK(r) /\ r.pc # "off"
      /\ Idle \in Request /\ Idle.all
  BY StepOn, IdleType DEF SerialInv, SeenInv, Inv, TypeOK, Idle
<1>3. CASE PostDocument(w)
  <2>1. UNCHANGED <<snapshots, period>> /\ work' = [work EXCEPT ![w] = r]
    BY <1>3 DEF PostDocument, SerialInv, Inv, TypeOK
  <2> QED
    BY <1>0, <1>2, <2>1, SeenStep
<1>4. ASSUME NEW ty \in Types, GenerateBegin(w, ty) PROVE SeenInv'
  <2> DEFINE n == [Idle EXCEPT !.pc = "summary", !.type = ty, !.from = books]
  <2>1. work' = [work EXCEPT ![w] = n] /\ UNCHANGED <<snapshots, period>>
    BY <1>4 DEF GenerateBegin, Begin, Rows
  <2>2. n.pc = "summary"
    BY <1>2 DEF Request
  <2> HIDE DEF n
  <2>3. SeenOK(n)
    BY <2>2 DEF SeenOK, SeenIn, AllFinal, Outcome
  <2> QED
    BY <1>0, <2>1, <2>3, SeenStep
<1>5. CASE GenerateSummary(w)
  <2> DEFINE v == Latest(r.type) + 1
             n == [r EXCEPT !.pc = "insert", !.to = books, !.version = v]
  <2>1. work' = [work EXCEPT ![w] = n] /\ UNCHANGED <<snapshots, period>>
    BY <1>5 DEF GenerateSummary, Begin, Rows
  <2> HIDE DEF v
  <2>2. n.pc = "insert"
    BY <1>2 DEF Request
  <2> HIDE DEF n
  <2>3. SeenOK(n)
    BY <2>2 DEF SeenOK, SeenIn, AllFinal, Outcome
  <2> QED
    BY <1>0, <2>1, <2>3, SeenStep
<1>6. CASE GenerateCommit(w)
  <2>1. End(w)
    BY <1>6 DEF GenerateCommit, Refuse
  <2> QED
    BY <1>0, <1>2, <1>6, <2>1, SeenGenerated, SeenEnd
<1>7. ASSUME NEW ty \in Types, NEW a \in Actions, ReviewLoad(w, ty, a) PROVE SeenInv'
  <2> DEFINE n == [Idle EXCEPT !.pc = "flush", !.type = ty, !.version = Latest(ty), !.action = a]
  <2>1. work' = [work EXCEPT ![w] = n] /\ UNCHANGED <<snapshots, period>>
    BY <1>7 DEF ReviewLoad, Begin, Rows
  <2>2. n.pc = "flush" /\ n.all
    BY <1>2 DEF Request
  <2> HIDE DEF n
  <2>3. SeenOK(n)
    BY <2>2 DEF SeenOK, SeenIn, AllFinal, Outcome
  <2> QED
    BY <1>0, <2>1, <2>3, SeenStep
<1>8. CASE ReviewFlush(w)
  <2> DEFINE n == [r EXCEPT !.pc = "period"]
  <2>1. work' = [work EXCEPT ![w] = n] /\ UNCHANGED <<snapshots, period>> /\ r.pc = "flush"
    BY <1>8 DEF ReviewFlush, Begin, Rows
  <2>2. n.pc = "period" /\ n.all = r.all
    BY <1>2 DEF Request
  <2> HIDE DEF n
  <2>3. SeenOK(n)
    BY <1>2, <2>1, <2>2 DEF SeenOK, SeenIn, AllFinal, Outcome
  <2> QED
    BY <1>0, <2>1, <2>3, SeenStep
<1>9. CASE ReviewPeriod(w)
  <2> DEFINE to == To[r.action]
             p == IF Tax = "GST" THEN GstPeriod(period, to, FALSE) ELSE TdsPeriod(period, to)
             l == [r EXCEPT !.pc = "latest", !.seen = period, !.todo = Types]
             n == [r EXCEPT !.pc = "commit", !.seen = period, !.period = p]
  <2>1. /\ work' = IF Tax = "GST" /\ to = "FINALIZED" THEN [work EXCEPT ![w] = l]
                   ELSE [work EXCEPT ![w] = n]
        /\ UNCHANGED <<snapshots, period>> /\ r.pc = "period" /\ r.all
    BY <1>2, <1>9 DEF ReviewPeriod, Begin, Rows, SeenOK, SeenIn
  <2>2. to = "FINALIZED" => r.action = "finalize"
    BY <1>2 DEF To, Actions, Request
  <2>3. ~(Tax = "GST" /\ to = "FINALIZED") => p = Outcome(r)
    BY DEF Outcome, OutcomeIn, AllFinal, GstPeriod
  <2> HIDE DEF p, to
  <2>4. /\ l.pc = "latest" /\ l.type = r.type /\ l.action = r.action /\ l.all = r.all
        /\ l.seen = period /\ l.todo = Types
        /\ n.pc = "commit" /\ n.type = r.type /\ n.action = r.action
        /\ n.seen = period /\ n.period = p
    BY <1>2, <2>1 DEF Request
  <2> HIDE DEF n, l
  <2>5. CASE Tax = "GST" /\ to = "FINALIZED"
    <3>1. SeenOK(l)
      BY <2>1, <2>2, <2>4, <2>5 DEF SeenOK, SeenIn, AllFinal, Outcome
    <3> QED
      BY <1>0, <2>1, <2>5, <3>1, SeenStep
  <2>6. CASE ~(Tax = "GST" /\ to = "FINALIZED")
    <3>1. Outcome(n) = Outcome(r)
      BY <2>4 DEF Outcome, OutcomeIn, AllFinal, Finalized
    <3>2. SeenOK(n)
      BY <2>3, <2>4, <2>6, <3>1 DEF SeenOK, SeenIn, AllFinal, Outcome
    <3> QED
      BY <1>0, <2>1, <2>6, <3>2, SeenStep
  <2> QED
    BY <2>5, <2>6
<1>10. ASSUME NEW ty \in Types, ReviewLatest(w, ty) PROVE SeenInv'
  <2> DEFINE rest == r.todo \ {ty}
             all == r.all /\ LatestFinalized(r, ty)
             pc == IF rest = {} THEN "commit" ELSE "latest"
             p == IF rest = {} THEN GstPeriod(r.seen, "FINALIZED", all) ELSE r.period
             n == [r EXCEPT !.todo = rest, !.all = all, !.pc = pc, !.period = p]
  <2>1. /\ work' = [work EXCEPT ![w] = n] /\ UNCHANGED <<snapshots, period>>
        /\ r.pc = "latest" /\ ty \in r.todo
    BY <1>10 DEF ReviewLatest, Begin, Rows
  <2>2. /\ r.version = Latest(r.type) /\ Latest(r.type) > 0 /\ Tax = "GST"
        /\ r.action = "finalize" /\ r.seen = period /\ (r.all <=> AllFinal(r, Types \ r.todo))
    <3>1. r.version \in 1 .. Latest(r.type) /\ r.version = Latest(r.type)
      BY <1>2, <2>1 DEF SerialOK, VersionExists
    <3>2. Latest(r.type) \in Nat
      BY <1>2 DEF SerialInv, Inv, TypeOK, Latest, Request
    <3> QED
      BY <1>2, <2>1, <3>1, <3>2 DEF SeenOK, SeenIn, AllFinal, Outcome
  <2>3. LatestFinalized(r, ty) <=> ty = r.type \/ Final(ty)
    BY <2>2 DEF LatestFinalized, Final
  <2>4. all <=> AllFinal(r, Types \ rest)
    <3>1. all <=> AllFinal(r, Types \ r.todo) /\ (ty = r.type \/ Final(ty))
      BY <2>2, <2>3
    <3>2. \A k : k \in Types \ rest <=> k \in Types \ r.todo \/ k = ty
      BY <2>1
    <3> HIDE DEF all, rest, r
    <3> QED
      BY <3>1, <3>2 DEF AllFinal, Finalized
  <2>5. To["finalize"] = "FINALIZED"
    BY DEF To, Actions
  <2>6. rest = {} => p = Outcome(r)
    <3> SUFFICES ASSUME rest = {} PROVE p = Outcome(r)
      OBVIOUS
    <3>1. all <=> AllFinal(r, Types)
      BY <2>4
    <3>2. p = GstPeriod(r.seen, "FINALIZED", all)
      OBVIOUS
    <3>3. Outcome(r) = GstPeriod(period, "FINALIZED", AllFinal(r, Types))
      BY <2>2, <2>5 DEF Outcome, OutcomeIn, AllFinal, GstPeriod
    <3>4. p = GstPeriod(period, "FINALIZED", all)
      BY <2>2, <3>2
    <3> HIDE DEF all, p, rest, r
    <3> QED
      BY <3>1, <3>3, <3>4 DEF GstPeriod
  <2>7. pc = IF rest = {} THEN "commit" ELSE "latest"
    OBVIOUS
  <2>8. all \in BOOLEAN
    OBVIOUS
  <2> HIDE DEF rest, all, p, pc
  <2>9. /\ n.pc = pc /\ n.type = r.type /\ n.action = r.action /\ n.all = all
        /\ n.seen = r.seen /\ n.todo = rest /\ n.period = p
    BY <1>2 DEF Request
  <2> HIDE DEF n
  <2>10. Outcome(n) = Outcome(r) /\ (AllFinal(n, Types \ rest) <=> AllFinal(r, Types \ rest))
    BY <2>9 DEF Outcome, OutcomeIn, AllFinal, Finalized
  <2>11. n.pc = "latest" => n.action = "finalize" /\ n.seen = period
                            /\ (n.all <=> AllFinal(n, Types \ n.todo))
    BY <2>2, <2>4, <2>9, <2>10
  <2>12. n.pc = "commit" => n.seen = period /\ n.period = Outcome(n)
    BY <2>2, <2>6, <2>7, <2>9, <2>10
  <2>13. n.pc \in {"latest", "commit"}
    BY <2>7, <2>9
  <2>14. SeenOK(n)
    BY <2>2, <2>11, <2>12, <2>13 DEF SeenOK, SeenIn, AllFinal, Outcome
  <2> QED
    BY <1>0, <2>1, <2>14, SeenStep
<1>11. CASE ReviewCommit(w)
  <2>1. End(w)
    BY <1>11 DEF ReviewCommit
  <2> QED
    BY <1>0, <1>2, <1>11, <2>1, SeenReviewed, SeenEnd
<1> QED
  BY <1>3, <1>4, <1>5, <1>6, <1>7, <1>8, <1>9, <1>10, <1>11 DEF GenerateStep, ReviewStep

LEMMA SeenInit == Init => SeenInv
<1> SUFFICES ASSUME Init PROVE SeenInv
  OBVIOUS
<1>1. \A w \in Workers : work[w].pc \in {"idle", "off"}
  <2>1. Idle.pc = "idle" /\ Off.pc = "off"
    BY DEF Idle, Off
  <2> QED
    BY <2>1 DEF Init
<1>2. \A w \in Workers : SeenOK(work[w])
  BY <1>1 DEF SeenOK, SeenIn, AllFinal, Outcome
<1>3. period = "OPEN" /\ \A ty \in Types : Latest(ty) = 0
  BY DEF Init, Latest
<1>4. PeriodOK
  BY <1>3, ReturnAssumption DEF PeriodOK, PeriodFinalizedWithReturns, PeriodFollowsReview
<1> QED
  BY <1>2, <1>4 DEF SeenInv

LEMMA SeenInvariant == Spec => [](Inv /\ (Serial => SerialInv /\ SeenInv))
<1>1. Init => Inv /\ (Serial => SerialInv /\ SeenInv)
  BY InitInv, SerialInit, SeenInit
<1>2. Inv /\ (Serial => SerialInv /\ SeenInv) /\ [Next]_vars
         => Inv' /\ (Serial' => SerialInv' /\ SeenInv')
  BY NextInv, SerialKept, SerialNext, SeenNext DEF Inv
<1> QED
  BY <1>1, <1>2, PTL DEF Spec

\* One request after the other, a GST period is FINALIZED once the latest version of every
\* return is, and only if every return has been finalized (_sync_period_status).
THEOREM GstPeriodFinalized == Spec => [](Tax = "GST" => PeriodFinalizedWithReturns)
<1>1. Inv /\ (Serial => SerialInv /\ SeenInv) => (Tax = "GST" => PeriodFinalizedWithReturns)
  BY DEF SeenInv, PeriodOK, PeriodFinalizedWithReturns
<1> QED
  BY <1>1, SeenInvariant, PTL

\* One request after the other, a TDS period is in the status of some version of its returns
\* (_PERIOD_STATUS_BY_SNAPSHOT_STATUS).
THEOREM TdsPeriodFollows == Spec => [](Tax = "TDS" => PeriodFollowsReview)
<1>1. Inv /\ (Serial => SerialInv /\ SeenInv) => (Tax = "TDS" => PeriodFollowsReview)
  BY DEF SeenInv, PeriodOK, PeriodFollowsReview
<1> QED
  BY <1>1, SeenInvariant, PTL

=============================================================================
