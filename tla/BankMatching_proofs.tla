------------------------ MODULE BankMatching_proofs ------------------------
(* Proofs about BankMatching, for every set of requests, transactions and   *)
(* records.                                                                 *)
EXTENDS BankMatching, Sums_proofs, TLAPS

LEMMA BoundType == Bound \in Bounds
BY BankAssumption DEF Bound

LEMMA IdleType == Idle \in Request
BY DEF Idle, Request, TxnStatus, SessionStatus, NoBook, Book

\* A function on an initial segment of the numbers is a sequence.
LEMMA SequenceOf ==
    ASSUME NEW S, NEW n \in Nat, NEW f \in [1 .. n -> S]
    PROVE  f \in Seq(S) /\ Len(f) = n /\ DOMAIN f = 1 .. n
OBVIOUS

\* Whatever the matches add up to, a transaction is given a status there is.
LEMMA StatusForType ==
    ASSUME NEW ms, NEW t
    PROVE  StatusFor(ms, t) \in TxnStatus
BY DEF StatusFor, TxnStatus

LEMMA SyncedType ==
    ASSUME NEW old \in [Txns -> TxnStatus], NEW ms, NEW T
    PROVE  Synced(old, ms, T) \in [Txns -> TxnStatus]
BY StatusForType DEF Synced

LEMMA BookType == TypeOK => BookNow \in Book
BY DEF TypeOK, BookNow, Book, Posted

-----------------------------------------------------------------------------
(* One match alone fits into both of its sides.                             *)

Fit(x) ==
    /\ x \in Match
    /\ x.source \in DOMAIN sources
    /\ x.amount <= Amount[x.txn]
    /\ sources[x.source].kind = "RECEIPT" => x.amount <= sources[x.source].amount
    /\ x.type = "AUTO" => /\ sources[x.source].kind = "RECEIPT"
                          /\ x.amount = Amount[x.txn]
                          /\ x.amount = sources[x.source].amount

\* A match a request is to insert fits already, or is of the journal entry to be inserted
\* with it.
Fitting(r) ==
    \A i \in DOMAIN r.made :
        \/ r.made[i].source # 0 /\ Fit(r.made[i])
        \/ /\ r.made[i].source = 0
           /\ r.made[i].amount <= Amount[r.made[i].txn]
           /\ r.made[i].type # "AUTO"
           /\ r.journal # 0

Inv ==
    /\ TypeOK
    /\ \A m \in DOMAIN matches : Fit(matches[m])
    /\ \A w \in Workers : Fitting(work[w])

\* Records are added and posted, and otherwise keep what they are.
SourcesKept ==
    \A s \in DOMAIN sources :
        /\ s \in DOMAIN sources'
        /\ sources'[s].kind = sources[s].kind
        /\ sources'[s].amount = sources[s].amount

LEMMA FitKept ==
    ASSUME SourcesKept, NEW x, Fit(x)
    PROVE  Fit(x)'
BY DEF SourcesKept, Fit

LEMMA FittingKept ==
    ASSUME SourcesKept, NEW r, Fitting(r)
    PROVE  Fitting(r)'
BY FitKept DEF Fitting

LEMMA FitIsMatchFits == Inv => MatchFits
BY DEF Inv, MatchFits, Fit

LEMMA InitInv == Init => Inv
<1> SUFFICES ASSUME Init PROVE Inv
  OBVIOUS
<1>1. Idle \in Request /\ Off \in Request /\ Idle.made = << >> /\ Off.made = << >>
  BY IdleType DEF Idle, Off, Request
<1>2. \A w \in Workers : work[w] \in {Idle, Off}
  BY DEF Init
<1>3. work \in [Workers -> Request]
  BY <1>1 DEF Init
<1>4. TypeOK
  BY <1>3, BankAssumption DEF Init, TypeOK, TxnStatus
<1>5. \A w \in Workers : Fitting(work[w])
  BY <1>1, <1>2 DEF Fitting
<1> QED
  BY <1>4, <1>5 DEF Init, Inv

\* A step that only moves one request on.
LEMMA StepInv ==
    ASSUME Inv, UNCHANGED Rows, NEW w \in Workers, NEW r \in Request,
           work' = [work EXCEPT ![w] = r], Fitting(r)
    PROVE  Inv'
<1>1. TypeOK'
  BY DEF Inv, TypeOK, Rows
<1>2. SourcesKept
  BY DEF SourcesKept, Rows
<1>3. \A m \in DOMAIN matches' : Fit(matches[m])'
  BY <1>2, FitKept, SMTT(30) DEF Inv, Rows
<1>4. ASSUME NEW x \in Workers PROVE Fitting(work[x])'
  <2>1. work'[x] = IF x = w THEN r ELSE work[x]
    BY DEF Inv, TypeOK
  <2>2. Fitting(work'[x])
    BY <2>1 DEF Inv
  <2> QED
    BY <1>2, <2>2, FittingKept DEF Fitting, Fit, Rows
<1> QED
  BY <1>1, <1>3, <1>4 DEF Inv

LEMMA MatchLoadInv ==
    ASSUME Inv, NEW w \in Workers, NEW t \in Txns, NEW s \in DOMAIN sources, NEW a \in Nat \ {0},
           MatchLoad(w, t, s, a)
    PROVE  Inv'
<1> DEFINE x == NewMatch(t, s, a, "MANUAL")
           made == <<x>>
           n == [Idle EXCEPT !.pc = "sync", !.todo = {t}, !.seen = status, !.new = status,
                             !.made = made]
<1>1. s \in Nat \ {0} /\ sources[s] \in Source /\ status \in [Txns -> TxnStatus]
  BY DEF Inv, TypeOK
<1>2. x \in Match /\ x.source = s /\ x.txn = t /\ x.amount = a /\ x.type = "MANUAL"
  BY <1>1 DEF NewMatch, Match
<1>3. a <= Amount[t] /\ (sources[s].kind = "RECEIPT" => a <= sources[s].amount)
  BY <1>1, BankAssumption DEF MatchLoad, Fits, Source
<1>4. Fit(x)
  BY <1>2, <1>3 DEF Fit
<1>5. work' = [work EXCEPT ![w] = n] /\ UNCHANGED Rows
  BY DEF MatchLoad, Begin
<1> HIDE DEF x
<1>6. made \in Seq(Match) /\ \A i \in DOMAIN made : made[i] = x
  BY <1>2
<1> HIDE DEF made
<1>7. n \in Request /\ n.made = made
  BY <1>1, <1>6, IdleType DEF Request
<1> HIDE DEF n
<1>8. Fitting(n)
  BY <1>1, <1>2, <1>4, <1>6, <1>7 DEF Fitting
<1> QED
  BY <1>5, <1>7, <1>8, StepInv

LEMMA AdjustLoadInv ==
    ASSUME Inv, NEW w \in Workers, NEW t \in Txns, AdjustLoad(w, t)
    PROVE  Inv'
<1> DEFINE left == Amount[t] - OnTxn(matches, t)
           x == NewMatch(t, 0, left, "ADJUSTMENT")
           made == <<x>>
           n == [Idle EXCEPT !.pc = "sync", !.todo = {t}, !.seen = status, !.new = status,
                             !.journal = left, !.made = made]
<1>1. left \in 1 .. Amount[t] /\ work' = [work EXCEPT ![w] = n] /\ UNCHANGED Rows
  BY DEF AdjustLoad, Begin
<1> HIDE DEF left
<1>2. Amount[t] \in Nat /\ status \in [Txns -> TxnStatus]
  BY BankAssumption DEF Inv, TypeOK
<1>3. x \in Match /\ x.source = 0 /\ x.txn = t /\ x.amount = left /\ x.type = "ADJUSTMENT"
  BY <1>1, <1>2 DEF NewMatch, Match
<1> HIDE DEF x
<1>4. made \in Seq(Match) /\ \A i \in DOMAIN made : made[i] = x
  BY <1>3
<1> HIDE DEF made
<1>5. n \in Request /\ n.made = made /\ n.journal = left
  <2>1. left \in Nat
    BY <1>1, <1>2
  <2> QED
    BY <1>2, <1>4, <2>1, IdleType DEF Request
<1> HIDE DEF n
<1>6. Fitting(n)
  BY <1>1, <1>2, <1>3, <1>4, <1>5 DEF Fitting
<1> QED
  BY <1>1, <1>5, <1>6, StepInv

\* The steps that leave the matches a request is to insert alone.
LEMMA SameMade ==
    ASSUME Inv, UNCHANGED Rows, NEW w \in Workers, NEW r \in Request,
           work' = [work EXCEPT ![w] = r],
           \/ r.made = work[w].made /\ r.journal = work[w].journal
           \/ r.made = << >>
    PROVE  Inv'
<1>1. Fitting(r)
  BY DEF Inv, Fitting
<1> QED
  BY <1>1, StepInv

LEMMA SyncInv ==
    ASSUME Inv, NEW w \in Workers, Sync(w)
    PROVE  Inv'
<1> DEFINE r == work[w]
           new == Synced(r.new, Visible(r), r.todo)
           n == [r EXCEPT !.pc = "commit", !.new = new]
<1>1. r \in Request
  BY DEF Inv, TypeOK
<1>2. new \in [Txns -> TxnStatus]
  BY <1>1, SyncedType DEF Request
<1>3. work' = [work EXCEPT ![w] = n] /\ UNCHANGED Rows
  BY DEF Sync, Begin
<1> HIDE DEF new
<1>4. n \in Request /\ n.made = r.made /\ n.journal = r.journal
  BY <1>1, <1>2 DEF Request
<1> QED
  BY <1>3, <1>4, SameMade

LEMMA ReverseInv ==
    ASSUME Inv, NEW w \in Workers,
           (\E m \in DOMAIN matches : ReverseLoad(w, m)) \/ ReverseSync(w)
    PROVE  Inv'
<1>1. ASSUME NEW m \in DOMAIN matches, ReverseLoad(w, m) PROVE Inv'
  <2> DEFINE n == [Idle EXCEPT !.pc = "undo", !.todo = {matches[m].txn}, !.undone = m]
  <2>1. m \in Nat /\ matches[m].txn \in Txns
    <3>1. m \in Nat /\ matches[m] \in Match
      BY DEF Inv, TypeOK
    <3> QED
      BY <3>1 DEF Match
  <2>2. n \in Request /\ n.made = << >>
    <3>1. Idle.made = << >>
      BY DEF Idle
    <3> QED
      BY <2>1, <3>1, IdleType DEF Request
  <2>3. work' = [work EXCEPT ![w] = n] /\ UNCHANGED Rows
    BY <1>1 DEF ReverseLoad, Begin
  <2> QED
    BY <2>2, <2>3, SameMade
<1>2. CASE ReverseSync(w)
  <2> DEFINE r == work[w]
             new == Synced(status, Visible(r), r.todo)
             n == [r EXCEPT !.pc = "commit", !.seen = status, !.new = new]
  <2>1. r \in Request /\ status \in [Txns -> TxnStatus]
    BY DEF Inv, TypeOK
  <2>2. new \in [Txns -> TxnStatus]
    BY <2>1, SyncedType
  <2>3. work' = [work EXCEPT ![w] = n] /\ UNCHANGED Rows
    BY <1>2 DEF ReverseSync, Begin
  <2> HIDE DEF new
  <2>4. n \in Request /\ n.made = r.made /\ n.journal = r.journal
    BY <2>1, <2>2 DEF Request
  <2> QED
    BY <2>3, <2>4, SameMade
<1> QED
  BY <1>1, <1>2

LEMMA SetAsideInv ==
    ASSUME Inv, NEW w \in Workers, NEW t \in Txns, NEW s \in {"EXCLUDED", "REVIEW_REQUIRED"},
           SetAside(w, t, s)
    PROVE  Inv'
<1> DEFINE new == [status EXCEPT ![t] = s]
           n == [Idle EXCEPT !.pc = "commit", !.seen = status, !.new = new]
<1>1. status \in [Txns -> TxnStatus] /\ new \in [Txns -> TxnStatus] /\ Idle.made = << >>
  BY DEF Inv, TypeOK, TxnStatus, Idle
<1>2. work' = [work EXCEPT ![w] = n] /\ UNCHANGED Rows
  BY DEF SetAside, Begin
<1> HIDE DEF new
<1>3. n \in Request /\ n.made = << >>
  BY <1>1, IdleType DEF Request
<1> QED
  BY <1>2, <1>3, SameMade

LEMMA SessionStepInv ==
    ASSUME Inv, NEW w \in Workers,
           \/ StartSession(w)
           \/ \E n \in DOMAIN sessions, e \in Transitions : Review(w, n, e) \/ RunLoad(w, n, e)
    PROVE  Inv'
<1>1. Idle.made = << >> /\ status \in [Txns -> TxnStatus]
  BY DEF Inv, TypeOK, Idle
<1>2. CASE StartSession(w)
  <2> DEFINE n == [Idle EXCEPT !.pc = "commit", !.opens = TRUE]
  <2>1. n \in Request /\ n.made = << >>
    BY <1>1, IdleType DEF Request
  <2>2. work' = [work EXCEPT ![w] = n] /\ UNCHANGED Rows
    BY <1>2 DEF StartSession, Begin
  <2> QED
    BY <2>1, <2>2, SameMade
<1>3. ASSUME NEW k \in DOMAIN sessions, NEW e \in Transitions PROVE
        /\ k \in Nat /\ sessions[k] \in Session
        /\ e[1] \in SessionStatus /\ e[3] \in SessionStatus
  BY DEF Inv, TypeOK, Transitions, SessionStatus
<1>4. ASSUME NEW k \in DOMAIN sessions, NEW e \in Transitions, Review(w, k, e) PROVE Inv'
  <2> DEFINE n == [Idle EXCEPT !.pc = "commit", !.session = k, !.from = e[1], !.to = e[3]]
  <2>1. n \in Request /\ n.made = << >>
    BY <1>1, <1>3, IdleType DEF Request
  <2>2. work' = [work EXCEPT ![w] = n] /\ UNCHANGED Rows
    BY <1>4 DEF Review, Begin
  <2> QED
    BY <2>1, <2>2, SameMade
<1>5. ASSUME NEW k \in DOMAIN sessions, NEW e \in Transitions, RunLoad(w, k, e) PROVE Inv'
  <2> DEFINE todo == {t \in Bound.txns : status[t] \in Listed}
             n == [Idle EXCEPT !.pc = "find", !.session = k, !.from = e[1], !.to = e[3],
                               !.was = sessions[k].book, !.seen = status, !.new = status,
                               !.todo = todo]
  <2>1. todo \in SUBSET Txns /\ sessions[k].book \in Book
    BY <1>3, BoundType DEF Bounds, Session
  <2>2. work' = [work EXCEPT ![w] = n] /\ UNCHANGED Rows
    BY <1>5 DEF RunLoad, Begin
  <2> HIDE DEF todo
  <2>3. n \in Request /\ n.made = << >>
    BY <1>1, <1>3, <2>1, IdleType DEF Request
  <2> QED
    BY <2>2, <2>3, SameMade
<1> QED
  BY <1>2, <1>4, <1>5

LEMMA FoundInv ==
    ASSUME Inv, NEW w \in Workers, NEW t \in Txns, NEW s \in TxnStatus, Found(w, t, s)
    PROVE  Inv'
<1> DEFINE r == work[w]
           new == [r.new EXCEPT ![t] = s]
           n == [r EXCEPT !.todo = @ \ {t}, !.new = new]
<1>1. r \in Request
  BY DEF Inv, TypeOK
<1>2. new \in [Txns -> TxnStatus]
  BY <1>1 DEF Request
<1>3. work' = [work EXCEPT ![w] = n] /\ UNCHANGED Rows
  BY <1>1 DEF Found, Begin, Request
<1> HIDE DEF new
<1>4. n \in Request /\ n.made = r.made /\ n.journal = r.journal
  BY <1>1, <1>2 DEF Request
<1> QED
  BY <1>3, <1>4, SameMade

LEMMA FoundStrongInv ==
    ASSUME Inv, NEW w \in Workers, NEW t \in Txns, FoundStrong(w, t)
    PROVE  Inv'
<1> DEFINE r == work[w]
           ms == Visible(r)
<1>1. r \in Request /\ Amount[t] \in Nat \ {0}
  BY BankAssumption DEF Inv, TypeOK
<1>2. PICK s \in Receipts(ms, t) :
         IF Fits(ms, t, s, Amount[t])
         THEN LET made == Append(r.made, NewMatch(t, s, Amount[t], "AUTO")) IN
              /\ Begin(w, [r EXCEPT !.todo = @ \ {t}, !.made = made,
                                    !.new[t] = StatusFor(Undone(r) \o made, t)])
              /\ UNCHANGED Rows
         ELSE Refuse(w)
  BY DEF FoundStrong
<1>3. s \in DOMAIN sources /\ sources[s].kind = "RECEIPT" /\ sources[s].amount = Amount[t]
  BY DEF Receipts, Candidates
<1>4. s \in Nat \ {0}
  BY <1>3 DEF Inv, TypeOK
<1>5. CASE ~Fits(ms, t, s, Amount[t])
  <2>1. work' = [work EXCEPT ![w] = Idle] /\ UNCHANGED Rows
    BY <1>2, <1>5 DEF Refuse, Begin
  <2>2. Idle.made = << >>
    BY DEF Idle
  <2> QED
    BY <2>1, <2>2, IdleType, SameMade
<1>6. CASE Fits(ms, t, s, Amount[t])
  <2> DEFINE x == NewMatch(t, s, Amount[t], "AUTO")
             made == Append(r.made, x)
             st == StatusFor(Undone(r) \o made, t)
             new == [r.new EXCEPT ![t] = st]
             n == [r EXCEPT !.todo = @ \ {t}, !.made = made, !.new = new]
  <2>1. work' = [work EXCEPT ![w] = n] /\ UNCHANGED Rows
    BY <1>1, <1>2, <1>6 DEF Begin, Request
  <2>2. x \in Match /\ x.source = s /\ x.txn = t /\ x.amount = Amount[t] /\ x.type = "AUTO"
    BY <1>1, <1>4 DEF NewMatch, Match
  <2>3. Fit(x)
    BY <1>1, <1>3, <2>2 DEF Fit
  <2>4. st \in TxnStatus
    BY StatusForType
  <2> HIDE DEF x, st
  <2>5. made \in Seq(Match) /\ new \in [Txns -> TxnStatus] /\ r.made \in Seq(Match)
    BY <1>1, <2>2, <2>4 DEF Request
  <2>6. \A i \in DOMAIN made : (i \in DOMAIN r.made /\ made[i] = r.made[i]) \/ made[i] = x
    BY <2>2, <2>5
  <2> HIDE DEF made, new
  <2>7. n \in Request /\ n.made = made /\ n.journal = r.journal
    BY <1>1, <2>5 DEF Request
  <2> HIDE DEF n
  <2>8. Fitting(n)
    BY <1>4, <2>2, <2>3, <2>6, <2>7 DEF Inv, Fitting
  <2> QED
    BY <2>1, <2>7, <2>8, StepInv
<1> QED
  BY <1>5, <1>6

LEMMA RunEndInv ==
    ASSUME Inv, NEW w \in Workers, RunEnd(w)
    PROVE  Inv'
<1> DEFINE r == work[w]
           n == [r EXCEPT !.pc = "commit", !.book = BookNow]
<1>1. r \in Request /\ BookNow \in Book
  BY BookType DEF Inv, TypeOK
<1>2. n \in Request /\ n.made = r.made /\ n.journal = r.journal
  BY <1>1 DEF Request
<1>3. work' = [work EXCEPT ![w] = n] /\ UNCHANGED Rows
  BY DEF RunEnd, Begin
<1> QED
  BY <1>2, <1>3, SameMade

-----------------------------------------------------------------------------
(* A commit.                                                                *)

LEMMA UndoneType ==
    ASSUME Inv, NEW r \in Request
    PROVE  /\ Undone(r) \in Seq(Match)
           /\ Len(Undone(r)) = Len(matches)
           /\ \A i \in DOMAIN matches : /\ \/ Undone(r)[i] = matches[i]
                                           \/ Undone(r)[i] = [matches[i] EXCEPT !.active = FALSE]
                                        /\ Fit(Undone(r)[i])
<1>1. matches \in Seq(Match) /\ \A i \in DOMAIN matches : Fit(matches[i]) /\ matches[i] \in Match
  BY DEF Inv, TypeOK
<1>2. ASSUME NEW x \in Match, Fit(x)
      PROVE  Fit([x EXCEPT !.active = FALSE]) /\ [x EXCEPT !.active = FALSE] \in Match
  <2> DEFINE y == [x EXCEPT !.active = FALSE]
  <2>1. y \in Match /\ y.source = x.source /\ y.amount = x.amount /\ y.txn = x.txn /\ y.type = x.type
    BY DEF Match
  <2> HIDE DEF y
  <2>2. Fit(y)
    BY <1>2, <2>1 DEF Fit
  <2> QED
    BY <2>1, <2>2 DEF y
<1>3. ASSUME NEW i \in DOMAIN matches
      PROVE  /\ \/ Undone(r)[i] = matches[i]
                \/ Undone(r)[i] = [matches[i] EXCEPT !.active = FALSE]
             /\ Fit(Undone(r)[i]) /\ Undone(r)[i] \in Match
  BY <1>1, <1>2 DEF Undone
<1>4. Undone(r) \in Seq(Match) /\ Len(Undone(r)) = Len(matches)
  <2>1. DOMAIN Undone(r) = 1 .. Len(matches) /\ Len(matches) \in Nat
    BY <1>1 DEF Undone
  <2>2. Undone(r) \in [1 .. Len(matches) -> Match]
    BY <1>1, <1>3, <2>1 DEF Undone
  <2> QED
    BY <2>1, <2>2, SequenceOf
<1> QED
  BY <1>3, <1>4

LEMMA PlacedType ==
    ASSUME Inv, NEW r \in Request, Fitting(r)
    PROVE  /\ Placed(r) \in Seq(Match)
           /\ \A i \in DOMAIN Placed(r) :
                 \/ Fit(Placed(r)[i])
                 \/ /\ r.journal # 0
                    /\ Placed(r)[i].source = Len(sources) + 1
                    /\ Placed(r)[i].amount <= Amount[Placed(r)[i].txn]
                    /\ Placed(r)[i].type # "AUTO"
<1>1. r.made \in Seq(Match) /\ Len(sources) \in Nat
  BY DEF Request, Inv, TypeOK
<1>2. ASSUME NEW x \in Match, NEW k \in Nat
      PROVE  LET y == [x EXCEPT !.source = k] IN
             /\ y \in Match /\ y.source = k
             /\ y.amount = x.amount /\ y.txn = x.txn /\ y.type = x.type
  BY DEF Match
<1>3. ASSUME NEW i \in DOMAIN r.made
      PROVE  /\ Placed(r)[i] \in Match
             /\ \/ Fit(Placed(r)[i])
                \/ /\ r.journal # 0
                   /\ Placed(r)[i].source = Len(sources) + 1
                   /\ Placed(r)[i].amount <= Amount[Placed(r)[i].txn]
                   /\ Placed(r)[i].type # "AUTO"
  <2>1. r.made[i] \in Match
    BY <1>1
  <2>2. CASE r.made[i].source # 0
    <3>1. Placed(r)[i] = r.made[i]
      BY <2>2 DEF Placed
    <3> QED
      BY <2>1, <2>2, <3>1 DEF Fitting
  <2>3. CASE r.made[i].source = 0
    <3> DEFINE y == [r.made[i] EXCEPT !.source = Len(sources) + 1]
    <3>1. Placed(r)[i] = y
      BY <2>3 DEF Placed
    <3>2. /\ y \in Match /\ y.source = Len(sources) + 1
          /\ y.amount = r.made[i].amount /\ y.txn = r.made[i].txn /\ y.type = r.made[i].type
      <4>1. Len(sources) + 1 \in Nat
        BY <1>1
      <4> QED
        BY <1>2, <2>1, <4>1
    <3> HIDE DEF y
    <3> QED
      BY <2>3, <3>1, <3>2 DEF Fitting
  <2> QED
    BY <2>2, <2>3
<1>4. Placed(r) \in Seq(Match)
  <2>1. DOMAIN Placed(r) = 1 .. Len(r.made) /\ Len(r.made) \in Nat
    BY <1>1 DEF Placed
  <2>2. Placed(r) \in [1 .. Len(r.made) -> Match]
    BY <1>1, <1>3, <2>1 DEF Placed
  <2> QED
    BY <2>1, <2>2, SequenceOf
<1>5. DOMAIN Placed(r) = DOMAIN r.made
  BY DEF Placed
<1> QED
  BY <1>3, <1>4, <1>5

\* What is there of a sequence after another is added to it.
LEMMA Joined ==
    ASSUME NEW S, NEW s \in Seq(S), NEW u \in Seq(S)
    PROVE  /\ s \o u \in Seq(S)
           /\ Len(s \o u) = Len(s) + Len(u)
           /\ \A i \in DOMAIN s : i \in DOMAIN (s \o u) /\ (s \o u)[i] = s[i]
           /\ \A i \in DOMAIN (s \o u) :
                 \/ i \in DOMAIN s
                 \/ \E j \in DOMAIN u : (s \o u)[i] = u[j]
<1>1. s \o u \in Seq(S) /\ Len(s \o u) = Len(s) + Len(u) /\ Len(s) \in Nat /\ Len(u) \in Nat
  OBVIOUS
<1>2. \A i \in DOMAIN s : i \in DOMAIN (s \o u) /\ (s \o u)[i] = s[i]
  BY <1>1
<1>3. ASSUME NEW i \in DOMAIN (s \o u), i \notin DOMAIN s
      PROVE  \E j \in DOMAIN u : (s \o u)[i] = u[j]
  <2>1. i - Len(s) \in DOMAIN u /\ (s \o u)[i] = u[i - Len(s)]
    BY <1>1, <1>3
  <2> QED
    BY <2>1
<1> QED
  BY <1>1, <1>2, <1>3

LEMMA CommitSources ==
    ASSUME Inv, NEW w \in Workers, Commit(w)
    PROVE  /\ sources' \in Seq(Source)
           /\ SourcesKept
           /\ work[w].journal # 0 => /\ Len(sources) + 1 \in DOMAIN sources'
                                     /\ sources'[Len(sources) + 1].kind = "JOURNAL_ENTRY"
<1> DEFINE r == work[w]
           x == [kind |-> "JOURNAL_ENTRY", amount |-> r.journal, posted |-> TRUE]
<1>1. r \in Request /\ sources \in Seq(Source)
  BY DEF Inv, TypeOK
<1>2. sources' = IF r.journal = 0 THEN sources ELSE Append(sources, x)
  BY DEF Commit
<1>3. r.journal # 0 => x \in Source /\ x.kind = "JOURNAL_ENTRY"
  BY <1>1 DEF Request, Source
<1> HIDE DEF r, x
<1>4. CASE r.journal = 0
  BY <1>1, <1>2, <1>4 DEF SourcesKept, r
<1>5. CASE r.journal # 0
  <2>1. sources' = Append(sources, x) /\ x \in Source
    BY <1>2, <1>3, <1>5
  <2>2. /\ sources' \in Seq(Source) /\ Len(sources) + 1 \in DOMAIN sources'
        /\ sources'[Len(sources) + 1] = x
        /\ \A s \in DOMAIN sources : s \in DOMAIN sources' /\ sources'[s] = sources[s]
    BY <1>1, <2>1
  <2> QED
    BY <1>3, <1>5, <2>2 DEF SourcesKept
<1> QED
  BY <1>4, <1>5

LEMMA CommitMatches ==
    ASSUME Inv, NEW w \in Workers, Commit(w)
    PROVE  /\ matches' \in Seq(Match)
           /\ Len(matches') >= Len(matches)
           /\ \A i \in DOMAIN matches : \/ matches'[i] = matches[i]
                                        \/ matches'[i] = [matches[i] EXCEPT !.active = FALSE]
           /\ \A i \in DOMAIN matches' : Fit(matches[i])'
<1> DEFINE r == work[w]
           u == Undone(r)
           p == Placed(r)
<1>1. r \in Request /\ Fitting(r) /\ matches \in Seq(Match)
  BY DEF Inv, TypeOK
<1>2. matches' = u \o p
  BY DEF Commit, Matches
<1>3. /\ u \in Seq(Match) /\ Len(u) = Len(matches)
      /\ \A i \in DOMAIN matches : /\ \/ u[i] = matches[i]
                                      \/ u[i] = [matches[i] EXCEPT !.active = FALSE]
                                   /\ Fit(u[i])
  BY <1>1, UndoneType
<1>4. /\ p \in Seq(Match)
      /\ \A i \in DOMAIN p :
            \/ Fit(p[i])
            \/ /\ r.journal # 0
               /\ p[i].source = Len(sources) + 1
               /\ p[i].amount <= Amount[p[i].txn]
               /\ p[i].type # "AUTO"
  BY <1>1, PlacedType
<1>5. SourcesKept /\ (r.journal # 0 => /\ Len(sources) + 1 \in DOMAIN sources'
                                       /\ sources'[Len(sources) + 1].kind = "JOURNAL_ENTRY")
  BY CommitSources
<1> HIDE DEF r, u, p
<1>6. /\ u \o p \in Seq(Match) /\ Len(u \o p) = Len(u) + Len(p)
      /\ \A i \in DOMAIN u : i \in DOMAIN (u \o p) /\ (u \o p)[i] = u[i]
      /\ \A i \in DOMAIN (u \o p) : i \in DOMAIN u \/ \E j \in DOMAIN p : (u \o p)[i] = p[j]
  <2>1. u \in Seq(Match) /\ p \in Seq(Match)
    BY <1>3, <1>4
  <2> QED
    BY <2>1, Joined
<1>7. DOMAIN u = DOMAIN matches /\ Len(matches) \in Nat /\ Len(p) \in Nat
  BY <1>1, <1>3, <1>4
<1>8. ASSUME NEW x \in Match,
             \/ Fit(x)
             \/ /\ r.journal # 0
                /\ x.source = Len(sources) + 1
                /\ x.amount <= Amount[x.txn]
                /\ x.type # "AUTO"
      PROVE  Fit(x)'
  <2>1. CASE Fit(x)
    BY <1>5, <2>1, FitKept
  <2>2. CASE ~Fit(x)
    BY <1>5, <1>8, <2>2 DEF Fit
  <2> QED
    BY <2>1, <2>2
<1>9. ASSUME NEW i \in DOMAIN matches' PROVE Fit(matches[i])'
  <2>1. PICK x : x = matches'[i]
    OBVIOUS
  <2>2. \/ x \in Match /\ Fit(x)
        \/ \E k \in DOMAIN p : x = p[k]
    <3>1. i \in DOMAIN u => x = u[i] /\ Fit(u[i])
      BY <1>2, <1>3, <1>6, <1>7, <2>1
    <3>2. i \notin DOMAIN u => \E k \in DOMAIN p : x = p[k]
      BY <1>2, <1>6, <2>1
    <3> QED
      BY <3>1, <3>2 DEF Fit
  <2>3. Fit(x)'
    <3>1. CASE x \in Match /\ Fit(x)
      BY <1>8, <3>1
    <3>2. ASSUME NEW k \in DOMAIN p, x = p[k] PROVE Fit(x)'
      <4>1. x \in Match
        BY <1>4, <3>2
      <4> QED
        BY <1>4, <1>8, <3>2, <4>1
    <3> QED
      BY <2>2, <3>1, <3>2
  <2> QED
    BY <2>1, <2>3 DEF Fit
<1> QED
  BY <1>2, <1>3, <1>6, <1>7, <1>9

LEMMA CommitSessions ==
    ASSUME Inv, NEW w \in Workers, Commit(w)
    PROVE  sessions' \in Seq(Session)
<1> DEFINE r == work[w]
           x == [status |-> "OPEN", book |-> NoBook]
           y == [status |-> Changed(r.from, r.to, sessions[r.session].status),
                 book |-> Changed(r.was, r.book, sessions[r.session].book)]
<1>1. r \in Request /\ sessions \in Seq(Session)
  BY DEF Inv, TypeOK
<1>2. x \in Session
  BY DEF Session, SessionStatus, Book, NoBook
<1>3. ASSUME r.session \in DOMAIN sessions PROVE y \in Session
  <2>1. sessions[r.session] \in Session
    BY <1>1, <1>3
  <2> QED
    BY <1>1, <2>1 DEF Request, Session, Changed
<1>4. sessions' = IF r.opens THEN Append(sessions, x)
                  ELSE IF r.session = 0 THEN sessions ELSE [sessions EXCEPT ![r.session] = y]
  BY DEF Commit
<1> HIDE DEF r, x, y
<1>5. Append(sessions, x) \in Seq(Session)
  BY <1>1, <1>2
<1>6. [sessions EXCEPT ![r.session] = y] \in Seq(Session)
  <2>1. CASE r.session \in DOMAIN sessions
    BY <1>1, <1>3, <2>1
  <2>2. CASE r.session \notin DOMAIN sessions
    <3>1. [sessions EXCEPT ![r.session] = y] = sessions
      BY <1>1, <2>2
    <3> QED
      BY <1>1, <3>1
  <2> QED
    BY <2>1, <2>2
<1> QED
  BY <1>1, <1>4, <1>5, <1>6

LEMMA CommitInv ==
    ASSUME Inv, NEW w \in Workers, Commit(w)
    PROVE  Inv'
<1>1. status' \in [Txns -> TxnStatus]
  <2>1. work[w] \in Request /\ status \in [Txns -> TxnStatus]
    BY DEF Inv, TypeOK
  <2> QED
    BY <2>1 DEF Commit, Changed, Request
<1>2. work' = [work EXCEPT ![w] = Idle] /\ work' \in [Workers -> Request]
  BY IdleType DEF Commit, Begin, Inv, TypeOK
<1>3. TypeOK'
  BY <1>1, <1>2, CommitSources, CommitMatches, CommitSessions DEF TypeOK, Fit
<1>4. ASSUME NEW x \in Workers PROVE Fitting(work[x])'
  <2>1. work'[x] = IF x = w THEN Idle ELSE work[x]
    BY <1>2 DEF Inv, TypeOK
  <2>2. Idle.made = << >>
    BY DEF Idle
  <2>3. PICK r : r = work'[x]
    OBVIOUS
  <2>4. Fitting(r)
    BY <2>1, <2>2, <2>3 DEF Inv, Fitting
  <2>5. Fitting(r)'
    BY <2>4, CommitSources, FittingKept
  <2> QED
    BY <2>3, <2>5 DEF Fitting, Fit
<1> QED
  BY <1>3, <1>4, CommitMatches DEF Inv

LEMMA PostJournalInv ==
    ASSUME Inv, NEW s \in DOMAIN sources, PostJournal(s)
    PROVE  Inv'
<1>1. sources \in Seq(Source) /\ sources[s] \in Source
  BY DEF Inv, TypeOK
<1> DEFINE x == [sources[s] EXCEPT !.posted = TRUE]
<1>2. x \in Source /\ x.kind = sources[s].kind /\ x.amount = sources[s].amount
  BY <1>1 DEF Source
<1>3. sources' = [sources EXCEPT ![s] = x] /\ UNCHANGED <<status, matches, sessions, work>>
  BY DEF PostJournal
<1> HIDE DEF x
<1>4. sources' \in Seq(Source) /\ SourcesKept
  BY <1>1, <1>2, <1>3 DEF SourcesKept
<1>5. \A m \in DOMAIN matches : Fit(matches[m])'
  BY <1>3, <1>4, FitKept DEF Inv
<1>6. TypeOK'
  BY <1>3, <1>4, <1>5 DEF Inv, TypeOK, Fit
<1>7. \A w \in Workers : Fitting(work[w])'
  BY <1>3, <1>4, FittingKept DEF Inv
<1> QED
  BY <1>3, <1>5, <1>6, <1>7 DEF Inv

LEMMA NextInv == Inv /\ [Next]_vars => Inv'
<1> SUFFICES ASSUME Inv, [Next]_vars PROVE Inv'
  OBVIOUS
<1>1. CASE UNCHANGED vars
  BY <1>1 DEF vars, Inv, TypeOK, Fitting, Fit
<1>2. ASSUME NEW w \in Workers, Handle(w) PROVE Inv'
  <2>1. Bound.txns \subseteq Txns /\ Bound.amounts \subseteq Nat \ {0}
    BY BoundType DEF Bounds
  <2>2. \A t \in Bound.txns :
           (FoundNone(w, t) \/ FoundWeak(w, t) \/ FoundLead(w, t) \/ FoundStrong(w, t)) => Inv'
    <3>1. {"UNMATCHED", "REVIEW_REQUIRED", "MATCH_SUGGESTED"} \subseteq TxnStatus
      BY DEF TxnStatus
    <3> QED
      BY <2>1, <3>1, FoundInv, FoundStrongInv DEF FoundNone, FoundWeak, FoundLead
  <2> QED
    BY <1>2, <2>1, <2>2, PostJournalInv, MatchLoadInv, AdjustLoadInv, SyncInv, ReverseInv,
       SetAsideInv, SessionStepInv, RunEndInv, CommitInv DEF Handle
<1> QED
  BY <1>1, <1>2 DEF Next

\* The rows are of their types in every reachable state.
THEOREM TypeCorrect == Spec => []TypeOK
<1>1. Inv => TypeOK
  BY DEF Inv
<1> QED
  BY <1>1, InitInv, NextInv, PTL DEF Spec

\* However requests overlap, one match alone fits into both of its sides, and the engine
\* matches equal amounts only.
THEOREM EveryMatchFits == Spec => []MatchFits
BY InitInv, NextInv, FitIsMatchFits, PTL DEF Spec

\* Only a commit writes matches or sessions.
LEMMA HandleOthers ==
    ASSUME NEW w \in Workers, Handle(w), ~Commit(w)
    PROVE  matches' = matches /\ sessions' = sessions
<1> DEFINE Same == matches' = matches /\ sessions' = sessions
<1>1. UNCHANGED Rows => Same
  BY DEF Rows
<1>2. (\E s \in DOMAIN sources : PostJournal(s)) => Same
  BY DEF PostJournal
<1>3. (\E t \in Bound.txns, s \in DOMAIN sources, a \in Bound.amounts : MatchLoad(w, t, s, a)) => Same
  BY <1>1 DEF MatchLoad
<1>4. (\E t \in Bound.txns : AdjustLoad(w, t)) => Same
  BY <1>1 DEF AdjustLoad
<1>5. Sync(w) \/ ReverseSync(w) \/ StartSession(w) \/ RunEnd(w) => Same
  BY <1>1 DEF Sync, ReverseSync, StartSession, RunEnd
<1>6. (\E m \in DOMAIN matches : ReverseLoad(w, m)) => Same
  BY <1>1 DEF ReverseLoad
<1>7. (\E t \in Bound.txns, s \in {"EXCLUDED", "REVIEW_REQUIRED"} : SetAside(w, t, s)) => Same
  BY <1>1 DEF SetAside
<1>8. (\E n \in DOMAIN sessions, e \in Transitions : Review(w, n, e)) => Same
  BY <1>1 DEF Review
<1>9. (\E n \in DOMAIN sessions, e \in Transitions : RunLoad(w, n, e)) => Same
  BY <1>1 DEF RunLoad
<1>10. ASSUME NEW t,
              FoundNone(w, t) \/ FoundWeak(w, t) \/ FoundLead(w, t) \/ FoundStrong(w, t)
       PROVE  Same
  <2>1. FoundNone(w, t) \/ FoundWeak(w, t) \/ FoundLead(w, t) => Same
    BY <1>1 DEF FoundNone, FoundWeak, FoundLead, Found
  <2>2. FoundStrong(w, t) => Same
    BY <1>1 DEF FoundStrong, Refuse
  <2> QED
    BY <1>10, <2>1, <2>2
<1> HIDE DEF Same
<1>11. Same
  BY <1>2, <1>3, <1>4, <1>5, <1>6, <1>7, <1>8, <1>9, <1>10 DEF Handle
<1> QED
  BY <1>11 DEF Same

LEMMA StepKeepsMatches ==
    ASSUME Inv, [Next]_vars
    PROVE  [/\ Len(matches') >= Len(matches)
            /\ \A m \in DOMAIN matches :
                  \/ matches'[m] = matches[m]
                  \/ matches'[m] = [matches[m] EXCEPT !.active = FALSE]]_vars
<1>1. CASE matches' = matches
  <2>1. Len(matches) \in Nat
    BY DEF Inv, TypeOK
  <2> QED
    BY <1>1, <2>1
<1>2. ASSUME NEW w \in Workers, Commit(w)
      PROVE  /\ Len(matches') >= Len(matches)
             /\ \A m \in DOMAIN matches :
                   \/ matches'[m] = matches[m]
                   \/ matches'[m] = [matches[m] EXCEPT !.active = FALSE]
  BY <1>2, CommitMatches
<1>3. matches' = matches \/ \E w \in Workers : Commit(w)
  <2>1. UNCHANGED vars => matches' = matches
    BY DEF vars
  <2>2. ASSUME NEW w \in Workers, Handle(w), ~Commit(w) PROVE matches' = matches
    BY <2>2, HandleOthers
  <2> QED
    BY <2>1, <2>2 DEF Next
<1> QED
  BY <1>1, <1>2, <1>3

\* However requests overlap, a match is at most reversed: the history of matches is permanent.
THEOREM MatchHistoryPermanent == Spec => MatchesPermanent
BY InitInv, NextInv, StepKeepsMatches, PTL DEF Spec, MatchesPermanent

-----------------------------------------------------------------------------
(* With requests one after the other a session's review refines             *)
(* StatusWorkflow.                                                          *)

Reviewed == {"PENDING_REVIEW", "RECONCILED", "LOCKED"}

LEMMA Workflow ==
    ASSUME NEW e \in Transitions
    PROVE  /\ e[1] = e[3] \/ <<e[1], e[3]>> \in ReviewEdges
           /\ e[2] = "run_matching" => e[1] \notin Reviewed
BY DEF Transitions, ReviewEdges, Reviewed

\* The session a request has loaded still has the status it had, or none is loaded; and if
\* it is under review the request has no figures for it.
SessionOK(r) ==
    /\ r.opens => Len(sessions) < Bound.sessions
    /\ ~r.opens /\ r.session # 0 =>
          /\ r.session \in DOMAIN sessions
          /\ sessions[r.session].status = r.from
          /\ r.from = r.to \/ <<r.from, r.to>> \in ReviewEdges
          /\ r.pc = "find" => r.from \notin Reviewed
          /\ r.from \in Reviewed => r.was = r.book

NoSession(r) == r.opens = FALSE /\ r.session = 0

SameSession(r, n) ==
    /\ n.opens = r.opens /\ n.session = r.session /\ n.from = r.from /\ n.to = r.to
    /\ n.pc \in {r.pc, "commit"} /\ n.was = r.was
    /\ n.book = r.book \/ r.pc = "find"

\* What a step of a request does to it, short of a commit.
Moves(w, n) ==
    /\ work' = [work EXCEPT ![w] = n]
    /\ work[w].pc # "off" /\ n.pc # "off"
    /\ NoSession(n) \/ SameSession(work[w], n) \/ SessionOK(n)

LEMMA MovesFromIdle ==
    ASSUME Inv, NEW w \in Workers,
           \/ \E t \in Bound.txns, s \in DOMAIN sources, a \in Bound.amounts : MatchLoad(w, t, s, a)
           \/ \E t \in Bound.txns : AdjustLoad(w, t)
           \/ \E m \in DOMAIN matches : ReverseLoad(w, m)
           \/ \E t \in Bound.txns, s \in {"EXCLUDED", "REVIEW_REQUIRED"} : SetAside(w, t, s),
           work[w].pc = "idle"
    PROVE  \E n : Moves(w, n)
<1>1. Idle \in Request /\ NoSession(Idle)
  BY IdleType DEF Idle, NoSession
<1>2. ASSUME NEW t, NEW s, NEW a, MatchLoad(w, t, s, a) PROVE \E n : Moves(w, n)
  <2> DEFINE made == <<NewMatch(t, s, a, "MANUAL")>>
             n == [Idle EXCEPT !.pc = "sync", !.todo = {t}, !.seen = status, !.new = status,
                               !.made = made]
  <2>1. work' = [work EXCEPT ![w] = n]
    BY <1>2 DEF MatchLoad, Begin
  <2> HIDE DEF made
  <2>2. n.pc = "sync" /\ NoSession(n)
    BY <1>1 DEF Request, NoSession
  <2> HIDE DEF n
  <2> QED
    BY <2>1, <2>2 DEF Moves
<1>3. ASSUME NEW t, AdjustLoad(w, t) PROVE \E n : Moves(w, n)
  <2> DEFINE left == Amount[t] - OnTxn(matches, t)
             made == <<NewMatch(t, 0, left, "ADJUSTMENT")>>
             n == [Idle EXCEPT !.pc = "sync", !.todo = {t}, !.seen = status, !.new = status,
                               !.journal = left, !.made = made]
  <2>1. work' = [work EXCEPT ![w] = n]
    BY <1>3 DEF AdjustLoad, Begin
  <2> HIDE DEF made, left
  <2>2. n.pc = "sync" /\ NoSession(n)
    BY <1>1 DEF Request, NoSession
  <2> HIDE DEF n
  <2> QED
    BY <2>1, <2>2 DEF Moves
<1>4. ASSUME NEW m, ReverseLoad(w, m) PROVE \E n : Moves(w, n)
  <2> DEFINE n == [Idle EXCEPT !.pc = "undo", !.todo = {matches[m].txn}, !.undone = m]
  <2>1. work' = [work EXCEPT ![w] = n]
    BY <1>4 DEF ReverseLoad, Begin
  <2>2. n.pc = "undo" /\ NoSession(n)
    BY <1>1 DEF Request, NoSession
  <2> HIDE DEF n
  <2> QED
    BY <2>1, <2>2 DEF Moves
<1>5. ASSUME NEW t, NEW s, SetAside(w, t, s) PROVE \E n : Moves(w, n)
  <2> DEFINE new == [status EXCEPT ![t] = s]
             n == [Idle EXCEPT !.pc = "commit", !.seen = status, !.new = new]
  <2>1. work' = [work EXCEPT ![w] = n]
    BY <1>5 DEF SetAside, Begin
  <2> HIDE DEF new
  <2>2. n.pc = "commit" /\ NoSession(n)
    BY <1>1 DEF Request, NoSession
  <2> HIDE DEF n
  <2> QED
    BY <2>1, <2>2 DEF Moves
<1> QED
  BY <1>2, <1>3, <1>4, <1>5

LEMMA MovesOnSession ==
    ASSUME Inv, NEW w \in Workers, work[w].pc = "idle",
           \/ StartSession(w)
           \/ \E k \in DOMAIN sessions, e \in Transitions : Review(w, k, e) \/ RunLoad(w, k, e)
    PROVE  \E n : Moves(w, n)
<1>1. Idle \in Request /\ NoSession(Idle)
  BY IdleType DEF Idle, NoSession
<1>2. CASE StartSession(w)
  <2> DEFINE n == [Idle EXCEPT !.pc = "commit", !.opens = TRUE]
  <2>1. work' = [work EXCEPT ![w] = n] /\ Len(sessions) < Bound.sessions
    BY <1>2 DEF StartSession, Begin
  <2>2. n.pc = "commit" /\ n.opens
    BY <1>1 DEF Request
  <2> HIDE DEF n
  <2> QED
    BY <2>1, <2>2 DEF Moves, SessionOK
<1>3. ASSUME NEW k \in DOMAIN sessions, NEW e \in Transitions, Review(w, k, e)
      PROVE  \E n : Moves(w, n)
  <2> DEFINE n == [Idle EXCEPT !.pc = "commit", !.session = k, !.from = e[1], !.to = e[3]]
  <2>1. work' = [work EXCEPT ![w] = n] /\ sessions[k].status = e[1]
    BY <1>3 DEF Review, Begin
  <2>2. /\ n.pc = "commit" /\ n.session = k /\ n.from = e[1] /\ n.to = e[3] /\ n.opens = FALSE
        /\ n.was = n.book
    <3>1. Idle.was = Idle.book
      BY DEF Idle
    <3> QED
      BY <1>1, <3>1 DEF Request, NoSession
  <2> HIDE DEF n
  <2>3. SessionOK(n)
    BY <2>1, <2>2, Workflow DEF SessionOK
  <2> QED
    BY <2>1, <2>2, <2>3 DEF Moves
<1>4. ASSUME NEW k \in DOMAIN sessions, NEW e \in Transitions, RunLoad(w, k, e)
      PROVE  \E n : Moves(w, n)
  <2> DEFINE todo == {t \in Bound.txns : status[t] \in Listed}
             n == [Idle EXCEPT !.pc = "find", !.session = k, !.from = e[1], !.to = e[3],
                               !.was = sessions[k].book, !.seen = status, !.new = status,
                               !.todo = todo]
  <2>1. work' = [work EXCEPT ![w] = n] /\ sessions[k].status = e[1] /\ e[2] = "run_matching"
    BY <1>4 DEF RunLoad, Begin
  <2> HIDE DEF todo
  <2>2. n.pc = "find" /\ n.session = k /\ n.from = e[1] /\ n.to = e[3] /\ n.opens = FALSE
    BY <1>1 DEF Request, NoSession
  <2> HIDE DEF n
  <2>3. SessionOK(n)
    BY <2>1, <2>2, Workflow DEF SessionOK
  <2> QED
    BY <2>1, <2>2, <2>3 DEF Moves
<1> QED
  BY <1>2, <1>3, <1>4

LEMMA MovesInFlight ==
    ASSUME Inv, NEW w \in Workers,
           \/ Sync(w) \/ ReverseSync(w) \/ RunEnd(w)
           \/ \E t \in Bound.txns :
                 FoundNone(w, t) \/ FoundWeak(w, t) \/ FoundLead(w, t) \/ FoundStrong(w, t)
    PROVE  \E n : Moves(w, n)
<1> DEFINE r == work[w]
<1>1. r \in Request /\ Idle.pc = "idle" /\ NoSession(Idle)
  BY DEF Inv, TypeOK, Idle, NoSession
<1>2. CASE Sync(w)
  <2> DEFINE new == Synced(r.new, Visible(r), r.todo)
             n == [r EXCEPT !.pc = "commit", !.new = new]
  <2>1. work' = [work EXCEPT ![w] = n] /\ r.pc = "sync"
    BY <1>2 DEF Sync, Begin
  <2> HIDE DEF new
  <2>2. n.pc = "commit" /\ SameSession(r, n)
    BY <1>1 DEF Request, SameSession
  <2> HIDE DEF n
  <2> QED
    BY <2>1, <2>2 DEF Moves
<1>3. CASE ReverseSync(w)
  <2> DEFINE new == Synced(status, Visible(r), r.todo)
             n == [r EXCEPT !.pc = "commit", !.seen = status, !.new = new]
  <2>1. work' = [work EXCEPT ![w] = n] /\ r.pc = "undo"
    BY <1>3 DEF ReverseSync, Begin
  <2> HIDE DEF new
  <2>2. n.pc = "commit" /\ SameSession(r, n)
    BY <1>1 DEF Request, SameSession
  <2> HIDE DEF n
  <2> QED
    BY <2>1, <2>2 DEF Moves
<1>4. CASE RunEnd(w)
  <2> DEFINE n == [r EXCEPT !.pc = "commit", !.book = BookNow]
  <2>1. work' = [work EXCEPT ![w] = n] /\ r.pc = "find"
    BY <1>4 DEF RunEnd, Begin
  <2>2. n.pc = "commit" /\ SameSession(r, n)
    BY <1>1, <2>1 DEF Request, SameSession
  <2> HIDE DEF n
  <2> QED
    BY <2>1, <2>2 DEF Moves
<1>5. ASSUME NEW t, NEW s, Found(w, t, s) PROVE \E n : Moves(w, n)
  <2> DEFINE new == [r.new EXCEPT ![t] = s]
             n == [r EXCEPT !.todo = @ \ {t}, !.new = new]
  <2>1. work' = [work EXCEPT ![w] = n] /\ r.pc = "find"
    BY <1>1, <1>5 DEF Found, Begin, Request
  <2> HIDE DEF new
  <2>2. n.pc = r.pc /\ SameSession(r, n)
    BY <1>1 DEF Request, SameSession
  <2> HIDE DEF n
  <2> QED
    BY <2>1, <2>2 DEF Moves
<1>6. ASSUME NEW t, FoundStrong(w, t) PROVE \E n : Moves(w, n)
  <2>1. PICK s \in Receipts(Visible(r), t) :
           IF Fits(Visible(r), t, s, Amount[t])
           THEN LET made == Append(r.made, NewMatch(t, s, Amount[t], "AUTO")) IN
                /\ Begin(w, [r EXCEPT !.todo = @ \ {t}, !.made = made,
                                      !.new[t] = StatusFor(Undone(r) \o made, t)])
                /\ UNCHANGED Rows
           ELSE Refuse(w)
    BY <1>6 DEF FoundStrong
  <2>2. r.pc = "find"
    BY <1>6 DEF FoundStrong
  <2> DEFINE made == Append(r.made, NewMatch(t, s, Amount[t], "AUTO"))
             st == StatusFor(Undone(r) \o made, t)
             new == [r.new EXCEPT ![t] = st]
             n == [r EXCEPT !.todo = @ \ {t}, !.made = made, !.new = new]
  <2>3. work' = [work EXCEPT ![w] = n] \/ work' = [work EXCEPT ![w] = Idle]
    BY <1>1, <2>1 DEF Begin, Refuse, Request
  <2> HIDE DEF made, st, new
  <2>4. n.pc = r.pc /\ SameSession(r, n)
    BY <1>1 DEF Request, SameSession
  <2> HIDE DEF n
  <2> QED
    BY <1>1, <2>2, <2>3, <2>4 DEF Moves
<1> QED
  BY <1>2, <1>3, <1>4, <1>5, <1>6 DEF FoundNone, FoundWeak, FoundLead

\* A step is taken by a worker of the crew.
LEMMA StepShape ==
    ASSUME Inv, NEW w \in Workers, Handle(w)
    PROVE  \/ UNCHANGED <<work, sessions>>
           \/ UNCHANGED sessions /\ \E n : Moves(w, n)
           \/ Commit(w)
<1>1. CASE Commit(w)
  BY <1>1
<1>2. CASE ~Commit(w)
  <2>1. UNCHANGED sessions
    BY <1>2, HandleOthers
  <2>2. (\E s \in DOMAIN sources : PostJournal(s)) => UNCHANGED work
    BY DEF PostJournal
  <2> QED
    BY <1>2, <2>1, <2>2, MovesFromIdle, MovesOnSession, MovesInFlight DEF Handle, Try
<1> QED
  BY <1>1, <1>2

LEMMA CommitWork ==
    ASSUME Inv, NEW w \in Workers, Commit(w)
    PROVE  /\ work[w].pc # "off" /\ work'[w] = Idle
           /\ \A x \in Workers \ {w} : work'[x] = work[x]
BY DEF Commit, Begin, Inv, TypeOK

LEMMA SerialKept ==
    ASSUME Inv, [Next]_vars
    PROVE  /\ Serial' <=> Serial
           /\ Bound' = Bound
<1>1. \A x \in Workers : work'[x].pc # "off" <=> work[x].pc # "off"
  <2>1. CASE UNCHANGED work
    BY <2>1
  <2>2. ASSUME NEW w \in Workers, NEW n, Moves(w, n)
        PROVE  \A x \in Workers : work'[x].pc # "off" <=> work[x].pc # "off"
    <3>1. \A x \in Workers : work'[x] = IF x = w THEN n ELSE work[x]
      BY <2>2 DEF Moves, Inv, TypeOK
    <3> QED
      BY <2>2, <3>1 DEF Moves
  <2>3. ASSUME NEW w \in Workers, Commit(w)
        PROVE  \A x \in Workers : work'[x].pc # "off" <=> work[x].pc # "off"
    <3>1. Idle.pc = "idle"
      BY DEF Idle
    <3> QED
      BY <2>3, <3>1, CommitWork
  <2> QED
    BY <2>1, <2>2, <2>3, StepShape DEF Next, vars
<1>2. Serial' <=> Serial
  BY <1>1 DEF Serial
<1> QED
  BY <1>2 DEF Bound

SerialInv == \A w \in Workers : work[w].pc # "off" => SessionOK(work[w])

LEMMA SerialInit == Init => SerialInv
<1>1. NoSession(Idle) /\ Off.pc = "off"
  BY DEF Idle, Off, NoSession
<1>2. Init => \A w \in Workers : work[w] \in {Idle, Off}
  BY DEF Init
<1> QED
  BY <1>1, <1>2 DEF SerialInv, SessionOK, NoSession

LEMMA SerialNext ==
    ASSUME Inv, Serial, SerialInv, [Next]_vars
    PROVE  SerialInv'
<1>1. Bound' = Bound
  BY SerialKept
<1>2. CASE UNCHANGED <<work, sessions>>
  BY <1>1, <1>2 DEF SerialInv, SessionOK
<1>3. ASSUME NEW w \in Workers, NEW n, Moves(w, n), UNCHANGED sessions PROVE SerialInv'
  <2>1. \A x \in Workers : work'[x] = IF x = w THEN n ELSE work[x]
    BY <1>3 DEF Moves, Inv, TypeOK
  <2>2. SessionOK(n)
    BY <1>3 DEF Moves, SerialInv, SessionOK, NoSession, SameSession
  <2>3. ASSUME NEW x \in Workers, work'[x].pc # "off" PROVE SessionOK(work[x])'
    <3>1. PICK r : r = work'[x]
      OBVIOUS
    <3>2. SessionOK(r)
      BY <2>1, <2>2, <2>3, <3>1 DEF SerialInv
    <3> QED
      BY <1>1, <1>3, <3>1, <3>2 DEF SessionOK
  <2> QED
    BY <2>3 DEF SerialInv
<1>4. ASSUME NEW w \in Workers, Commit(w) PROVE SerialInv'
  <2>1. \A x \in Workers : work'[x].pc # "off" => work'[x] = Idle
    BY <1>4, CommitWork DEF Serial
  <2>2. Idle.opens = FALSE /\ Idle.session = 0
    BY DEF Idle
  <2> QED
    BY <2>1, <2>2 DEF SerialInv, SessionOK
<1> QED
  BY <1>2, <1>3, <1>4, StepShape DEF Next, vars

\* A session that is started was absent before.
LEMMA CreateStep ==
    ASSUME Inv, Serial, Serial', SerialInv, NEW w \in Workers, Commit(w), work[w].opens
    PROVE  SessionReview!Next
<1> DEFINE n == Len(sessions) + 1
           x == [status |-> "OPEN", book |-> NoBook]
<1>1. sessions \in Seq(Session) /\ Alone.sessions \in Nat
  BY BankAssumption DEF Inv, TypeOK, Bounds
<1>2. n \in 1 .. Alone.sessions
  <2>1. SessionOK(work[w]) /\ Bound = Alone
    BY CommitWork DEF SerialInv, Bound
  <2>2. Len(sessions) < Alone.sessions
    BY <2>1 DEF SessionOK
  <2> QED
    BY <1>1, <2>2
<1>3. sessions' = Append(sessions, x) /\ x.status = "OPEN"
  BY DEF Commit
<1> HIDE DEF x
<1>4. /\ DOMAIN sessions' = 1 .. n /\ DOMAIN sessions = 1 .. (n - 1) /\ sessions'[n] = x
      /\ \A k \in DOMAIN sessions : sessions'[k] = sessions[k]
  BY <1>1, <1>3
<1>5. SessionShown[n] = "NONE" /\ SessionShown'[n] = "OPEN"
  BY <1>1, <1>2, <1>3, <1>4 DEF SessionShown
<1>6. \A k \in 1 .. Alone.sessions : k # n => SessionShown'[k] = SessionShown[k]
  BY <1>1, <1>2, <1>4 DEF SessionShown
<1> HIDE DEF n
<1>7. SessionShown' = [SessionShown EXCEPT ![n] = "OPEN"]
  <2>1. /\ SessionShown = [k \in 1 .. Alone.sessions |-> SessionShown[k]]
        /\ SessionShown' = [k \in 1 .. Alone.sessions |-> SessionShown'[k]]
    BY DEF SessionShown
  <2> QED
    BY <1>2, <1>5, <1>6, <2>1
<1> QED
  BY <1>2, <1>5, <1>7 DEF SessionReview!Next, SessionReview!Create, SessionReview!Absent

\* A session that a request writes still has the status the request moves it from.
LEMMA MoveStep ==
    ASSUME Inv, Serial, Serial', SerialInv, NEW w \in Workers, Commit(w), ~work[w].opens,
           work[w].session # 0
    PROVE  [SessionReview!Next]_SessionShown
<1> DEFINE r == work[w]
           k == r.session
           y == [status |-> Changed(r.from, r.to, sessions[k].status),
                 book |-> Changed(r.was, r.book, sessions[k].book)]
<1>1. sessions \in Seq(Session) /\ SessionOK(r)
  BY CommitWork DEF Inv, TypeOK, SerialInv
<1>2. /\ k \in DOMAIN sessions /\ sessions[k].status = r.from
      /\ r.from = r.to \/ <<r.from, r.to>> \in ReviewEdges
  BY <1>1 DEF SessionOK
<1>3. sessions' = [sessions EXCEPT ![k] = y]
  BY DEF Commit
<1>4. y.status = r.to
  BY <1>2 DEF Changed
<1> HIDE DEF y, r, k
<1>5. /\ DOMAIN sessions' = DOMAIN sessions /\ sessions'[k] = y
      /\ \A i \in DOMAIN sessions : i # k => sessions'[i] = sessions[i]
  BY <1>1, <1>2, <1>3
<1>6. \A i \in 1 .. Alone.sessions : i # k => SessionShown'[i] = SessionShown[i]
  BY <1>5 DEF SessionShown
<1>7. /\ SessionShown = [i \in 1 .. Alone.sessions |-> SessionShown[i]]
      /\ SessionShown' = [i \in 1 .. Alone.sessions |-> SessionShown'[i]]
  BY DEF SessionShown
<1>8. CASE k \notin 1 .. Alone.sessions
  BY <1>6, <1>7, <1>8
<1>9. CASE k \in 1 .. Alone.sessions
  <2>1. SessionShown[k] = r.from /\ SessionShown'[k] = r.to
    BY <1>2, <1>4, <1>5, <1>9 DEF SessionShown
  <2>2. SessionShown' = [SessionShown EXCEPT ![k] = r.to]
    BY <1>6, <1>7, <1>9, <2>1
  <2>3. CASE r.from = r.to
    BY <1>6, <1>7, <2>1, <2>3
  <2>4. CASE <<r.from, r.to>> \in ReviewEdges
    <3> DEFINE e == <<r.from, r.to>>
    <3>1. e \in ReviewEdges /\ e[1] = r.from /\ e[2] = r.to
      BY <2>4
    <3> HIDE DEF e
    <3>2. SessionReview!Move(k)
      BY <2>1, <2>2, <3>1 DEF SessionReview!Move
    <3> QED
      BY <1>9, <3>2 DEF SessionReview!Next
  <2> QED
    BY <1>2, <2>3, <2>4
<1> QED
  BY <1>8, <1>9

LEMMA ReviewStep ==
    ASSUME Inv, Serial => SerialInv, [Next]_vars
    PROVE  [SessionReview!Next]_SessionShown
<1>0. Serial' <=> Serial
  BY SerialKept
<1>1. CASE ~Serial
  BY <1>0, <1>1 DEF SessionShown
<1>2. CASE UNCHANGED sessions
  BY <1>0, <1>2 DEF SessionShown
<1>3. ASSUME NEW w \in Workers, Commit(w), Serial PROVE [SessionReview!Next]_SessionShown
  <2>1. CASE work[w].opens
    BY <1>0, <1>3, <2>1, CreateStep
  <2>2. CASE ~work[w].opens /\ work[w].session # 0
    BY <1>0, <1>3, <2>2, MoveStep
  <2>3. CASE ~work[w].opens /\ work[w].session = 0
    <3>1. sessions' = sessions
      BY <1>3, <2>3 DEF Commit
    <3> QED
      BY <1>0, <3>1 DEF SessionShown
  <2> QED
    BY <2>1, <2>2, <2>3
<1> QED
  BY <1>1, <1>2, <1>3, StepShape DEF Next, vars

LEMMA ReviewInit == Init => SessionReview!Init
BY DEF Init, SessionShown, SessionReview!Init, SessionReview!Absent

LEMMA BothNext ==
    Inv /\ (Serial => SerialInv) /\ [Next]_vars => Inv' /\ (Serial' => SerialInv')
BY NextInv, SerialKept, SerialNext

LEMMA FiguresStep ==
    ASSUME Inv, Serial => SerialInv, [Next]_vars
    PROVE  [Serial => \A n \in DOMAIN sessions :
               sessions[n].status \in Reviewed => sessions'[n].book = sessions[n].book]_vars
<1>1. ASSUME UNCHANGED sessions, NEW n PROVE sessions'[n].book = sessions[n].book
  BY <1>1
<1>2. ASSUME Serial, NEW w \in Workers, Commit(w), NEW n \in DOMAIN sessions,
             sessions[n].status \in Reviewed
      PROVE  sessions'[n].book = sessions[n].book
  <2> DEFINE r == work[w]
             k == r.session
             x == [status |-> "OPEN", book |-> NoBook]
             y == [status |-> Changed(r.from, r.to, sessions[k].status),
                   book |-> Changed(r.was, r.book, sessions[k].book)]
  <2>1. sessions \in Seq(Session) /\ SessionOK(r)
    BY <1>2, CommitWork DEF Inv, TypeOK, SerialInv
  <2>2. sessions' = IF r.opens THEN Append(sessions, x)
                    ELSE IF k = 0 THEN sessions ELSE [sessions EXCEPT ![k] = y]
    BY <1>2 DEF Commit
  <2>3. ~r.opens /\ k # 0 /\ k = n => y.book = sessions[n].book
    BY <1>2, <2>1 DEF SessionOK, Changed
  <2> HIDE DEF r, k, x, y
  <2>4. CASE r.opens
    BY <1>2, <2>1, <2>2, <2>4
  <2>5. CASE ~r.opens /\ k = 0
    BY <2>2, <2>5
  <2>6. CASE ~r.opens /\ k # 0
    <3>1. sessions' = [sessions EXCEPT ![k] = y]
      BY <2>2, <2>6
    <3>2. sessions'[n] = IF n = k THEN y ELSE sessions[n]
      BY <1>2, <2>1, <3>1
    <3> QED
      BY <2>3, <2>6, <3>2
  <2> QED
    BY <2>4, <2>5, <2>6
<1> QED
  BY <1>1, <1>2, StepShape DEF Next, vars

\* With requests one after the other, the figures a session is reviewed with stay what they
\* were when it was submitted.
THEOREM FiguresStayFrozen == Spec => FiguresFrozen
<1> DEFINE Both == Inv /\ (Serial => SerialInv)
           Frozen == Serial => \A n \in DOMAIN sessions :
               sessions[n].status \in {"PENDING_REVIEW", "RECONCILED", "LOCKED"} =>
                  sessions'[n].book = sessions[n].book
<1>1. Init => Both
  BY InitInv, SerialInit
<1>2. Both /\ [Next]_vars => Both'
  BY BothNext
<1>3. Both /\ [Next]_vars => [Frozen]_vars
  BY FiguresStep DEF Reviewed
<1> HIDE DEF Both
<1> QED
  BY <1>1, <1>2, <1>3, PTL DEF Spec, FiguresFrozen

\* With requests one after the other a reconciliation session goes through the documented
\* review, step by step: the detailed specification implements the abstract one.
THEOREM ReviewRefined == Spec => ImplementsReview
<1> DEFINE Both == Inv /\ (Serial => SerialInv)
<1>1. Init => Both
  BY InitInv, SerialInit
<1>2. Both /\ [Next]_vars => Both'
  BY BothNext
<1>3. Both /\ [Next]_vars => [SessionReview!Next]_SessionShown
  BY ReviewStep
<1> HIDE DEF Both
<1> QED
  BY <1>1, <1>2, <1>3, ReviewInit, PTL DEF Spec, ImplementsReview, SessionReview!Spec

-----------------------------------------------------------------------------
(* With requests one after the other no side is matched beyond its amount,  *)
(* and a transaction's status is what its matches add up to.                *)

AllAuto(ms, t) == \A i \in DOMAIN ms : ms[i].active /\ ms[i].txn = t => ms[i].type = "AUTO"

Column(ms) == [i \in DOMAIN ms |-> ms[i].amount]
OfTxn(ms, t) == {i \in DOMAIN ms : ms[i].active /\ ms[i].txn = t}
OfSource(ms, s) == {i \in DOMAIN ms : ms[i].active /\ ms[i].source = s}

LEMMA AsColumns ==
    ASSUME NEW ms
    PROVE  /\ \A t : OnTxn(ms, t) = SumOver(Column(ms), OfTxn(ms, t))
           /\ \A s : OnSource(ms, s) = SumOver(Column(ms), OfSource(ms, s))
BY DEF OnTxn, OnSource, Column, OfTxn, OfSource

LEMMA ColumnType ==
    ASSUME NEW ms \in Seq(Match), NEW S \in SUBSET DOMAIN ms
    PROVE  IsFiniteSet(S) /\ \A i \in S : Column(ms)[i] \in Nat \ {0}
<1>1. DOMAIN ms = 1 .. Len(ms) /\ Len(ms) \in Nat /\ \A i \in S : ms[i] \in Match
  OBVIOUS
<1>2. IsFiniteSet(1 .. Len(ms))
  BY <1>1, FS_Interval
<1> QED
  BY <1>1, <1>2, FS_Subset DEF Column, Match

LEMMA SumsType ==
    ASSUME NEW ms \in Seq(Match)
    PROVE  (\A t : OnTxn(ms, t) \in Nat) /\ \A s : OnSource(ms, s) \in Nat
<1>1. ASSUME NEW S \in SUBSET DOMAIN ms PROVE SumOver(Column(ms), S) \in Nat
  BY ColumnType, SumNat
<1>2. \A t : OfTxn(ms, t) \in SUBSET DOMAIN ms
  BY DEF OfTxn
<1>3. \A s : OfSource(ms, s) \in SUBSET DOMAIN ms
  BY DEF OfSource
<1> QED
  BY <1>1, <1>2, <1>3, AsColumns

\* One match more.
LEMMA Appended ==
    ASSUME NEW ms \in Seq(Match), NEW x \in Match, x.active
    PROVE  LET us == Append(ms, x) IN
           /\ us \in Seq(Match)
           /\ \A t : OnTxn(us, t) = IF x.txn = t THEN OnTxn(ms, t) + x.amount ELSE OnTxn(ms, t)
           /\ \A s : OnSource(us, s) = IF x.source = s THEN OnSource(ms, s) + x.amount
                                       ELSE OnSource(ms, s)
           /\ \A t : AllAuto(us, t) <=> AllAuto(ms, t) /\ (x.txn = t => x.type = "AUTO")
<1> DEFINE us == Append(ms, x)
           n == Len(ms) + 1
<1>1. /\ us \in Seq(Match) /\ n \in Nat /\ DOMAIN us = DOMAIN ms \cup {n} /\ n \notin DOMAIN ms
      /\ us[n] = x /\ \A i \in DOMAIN ms : us[i] = ms[i]
  OBVIOUS
<1>2. x.amount \in Nat
  BY DEF Match
<1> HIDE DEF us, n
<1>3. ASSUME NEW S \in SUBSET DOMAIN ms
      PROVE  /\ SumOver(Column(us), S) = SumOver(Column(ms), S)
             /\ SumOver(Column(us), S \cup {n}) = SumOver(Column(ms), S) + x.amount
  <2>1. /\ IsFiniteSet(S) /\ n \notin S /\ Column(us)[n] = x.amount /\ Column(us)[n] \in Int
        /\ \A i \in S : Column(ms)[i] \in Int /\ Column(us)[i] = Column(ms)[i]
    <3>1. IsFiniteSet(S) /\ \A i \in S : Column(ms)[i] \in Int
      BY ColumnType
    <3>2. Column(us)[n] = x.amount /\ n \notin S
      BY <1>1 DEF Column
    <3>3. \A i \in S : Column(us)[i] = Column(ms)[i]
      BY <1>1 DEF Column
    <3> QED
      BY <1>2, <3>1, <3>2, <3>3
  <2>2. SumOver(Column(us), S) = SumOver(Column(ms), S)
    BY <2>1, SumSame
  <2>3. SumOver(Column(us), S \cup {n}) = SumOver(Column(ms), S) + Column(us)[n]
    BY <2>1, SumOneMore
  <2> QED
    BY <2>1, <2>2, <2>3
<1>4. ASSUME NEW t
      PROVE  OnTxn(us, t) = IF x.txn = t THEN OnTxn(ms, t) + x.amount ELSE OnTxn(ms, t)
  <2>1. OfTxn(us, t) = IF x.txn = t THEN OfTxn(ms, t) \cup {n} ELSE OfTxn(ms, t)
    BY <1>1 DEF OfTxn
  <2>2. OfTxn(ms, t) \in SUBSET DOMAIN ms
    BY DEF OfTxn
  <2>3. /\ SumOver(Column(us), OfTxn(ms, t)) = SumOver(Column(ms), OfTxn(ms, t))
        /\ SumOver(Column(us), OfTxn(ms, t) \cup {n}) = SumOver(Column(ms), OfTxn(ms, t)) + x.amount
    BY <1>3, <2>2
  <2> QED
    BY <2>1, <2>3, AsColumns
<1>5. ASSUME NEW s
      PROVE  OnSource(us, s) = IF x.source = s THEN OnSource(ms, s) + x.amount
                               ELSE OnSource(ms, s)
  <2>1. OfSource(us, s) = IF x.source = s THEN OfSource(ms, s) \cup {n} ELSE OfSource(ms, s)
    BY <1>1 DEF OfSource
  <2>2. OfSource(ms, s) \in SUBSET DOMAIN ms
    BY DEF OfSource
  <2>3. /\ SumOver(Column(us), OfSource(ms, s)) = SumOver(Column(ms), OfSource(ms, s))
        /\ SumOver(Column(us), OfSource(ms, s) \cup {n}) = SumOver(Column(ms), OfSource(ms, s)) + x.amount
    BY <1>3, <2>2
  <2> QED
    BY <2>1, <2>3, AsColumns
<1>6. \A t : AllAuto(us, t) <=> AllAuto(ms, t) /\ (x.txn = t => x.type = "AUTO")
  BY <1>1 DEF AllAuto
<1> QED
  BY <1>1, <1>4, <1>5, <1>6 DEF us

\* One match reversed.
LEMMA Reversed ==
    ASSUME NEW ms \in Seq(Match), NEW us \in Seq(Match), NEW m \in DOMAIN ms,
           DOMAIN us = DOMAIN ms, us[m] = [ms[m] EXCEPT !.active = FALSE],
           \A i \in DOMAIN ms : i # m => us[i] = ms[i]
    PROVE  /\ \A t : OnTxn(us, t) <= OnTxn(ms, t)
           /\ \A s : OnSource(us, s) <= OnSource(ms, s)
           /\ \A t : t # ms[m].txn => /\ OnTxn(us, t) = OnTxn(ms, t)
                                      /\ AllAuto(us, t) <=> AllAuto(ms, t)
<1>1. ms[m] \in Match /\ ms[m].amount \in Nat
  <2>1. ms[m] \in Match
    OBVIOUS
  <2> QED
    BY <2>1 DEF Match
<1>2. us[m].active = FALSE /\ us[m].amount = ms[m].amount
  BY <1>1 DEF Match
<1>3. ASSUME NEW S \in SUBSET DOMAIN ms
      PROVE  /\ SumOver(Column(us), S) = SumOver(Column(ms), S)
             /\ SumOver(Column(us), S \ {m}) <= SumOver(Column(ms), S)
  <2>1. /\ IsFiniteSet(S) /\ IsFiniteSet(S \ {m})
        /\ \A i \in S : Column(ms)[i] \in Int /\ Column(us)[i] = Column(ms)[i]
    <3>1. IsFiniteSet(S) /\ \A i \in S : Column(ms)[i] \in Nat \ {0}
      BY <1>3, ColumnType, Zenon
    <3>2. IsFiniteSet(S \ {m})
      BY <3>1, FS_RemoveElement
    <3>3. \A i \in S : Column(us)[i] = Column(ms)[i]
      BY <1>2 DEF Column
    <3> QED
      BY <3>1, <3>2, <3>3
  <2>2. SumOver(Column(us), S) = SumOver(Column(ms), S) /\ SumOver(Column(ms), S) \in Int
    BY <2>1, SumSame, SumType
  <2>3. CASE m \in S
    <3>1. SumOver(Column(us), S \ {m}) = SumOver(Column(ms), S) - Column(ms)[m]
      <4>1. \A i \in S \ {m} : Column(us)[i] = Column(ms)[i]
        BY <2>1
      <4>2. \A i \in S : Column(ms)[i] \in Int
        BY <2>1
      <4> QED
        BY <2>1, <2>3, <4>1, <4>2, SumOneLess
    <3>2. Column(ms)[m] = ms[m].amount
      BY DEF Column
    <3> QED
      BY <1>1, <2>2, <3>1, <3>2
  <2>4. CASE m \notin S
    <3>1. SumOver(Column(us), S \ {m}) = SumOver(Column(ms), S)
      <4>1. S \ {m} = S
        BY <2>4
      <4> QED
        BY <2>2, <4>1
    <3>2. \A k \in Int : k <= k
      OBVIOUS
    <3> QED
      BY <2>2, <3>1, <3>2
  <2> QED
    BY <2>2, <2>3, <2>4
<1>4. ASSUME NEW t PROVE OnTxn(us, t) <= OnTxn(ms, t)
  <2>1. OfTxn(us, t) = OfTxn(ms, t) \ {m} /\ OfTxn(ms, t) \in SUBSET DOMAIN ms
    BY <1>2 DEF OfTxn
  <2> QED
    BY <1>3, <2>1, AsColumns
<1>5. ASSUME NEW s PROVE OnSource(us, s) <= OnSource(ms, s)
  <2>1. OfSource(us, s) = OfSource(ms, s) \ {m} /\ OfSource(ms, s) \in SUBSET DOMAIN ms
    BY <1>2 DEF OfSource
  <2> QED
    BY <1>3, <2>1, AsColumns
<1>6. ASSUME NEW t, t # ms[m].txn PROVE OnTxn(us, t) = OnTxn(ms, t)
  <2>1. OfTxn(us, t) = OfTxn(ms, t) /\ OfTxn(ms, t) \in SUBSET DOMAIN ms
    BY <1>2, <1>6 DEF OfTxn
  <2> QED
    BY <1>3, <2>1, AsColumns
<1>7. ASSUME NEW t, t # ms[m].txn PROVE AllAuto(us, t) <=> AllAuto(ms, t)
  BY <1>2, <1>7 DEF AllAuto
<1> QED
  BY <1>4, <1>5, <1>6, <1>7

\* A match's record is not looked at by the sums of the transactions.
LEMMA SameClaims ==
    ASSUME NEW ms \in Seq(Match), NEW us \in Seq(Match), DOMAIN us = DOMAIN ms,
           \A i \in DOMAIN ms : /\ us[i].txn = ms[i].txn /\ us[i].amount = ms[i].amount
                                /\ us[i].active = ms[i].active /\ us[i].type = ms[i].type
    PROVE  /\ \A t : OnTxn(us, t) = OnTxn(ms, t) /\ (AllAuto(us, t) <=> AllAuto(ms, t))
           /\ \A s : (\A i \in DOMAIN ms : us[i].source = s <=> ms[i].source = s)
                        => OnSource(us, s) = OnSource(ms, s)
<1>1. Column(us) = Column(ms)
  BY DEF Column
<1>2. \A t : OfTxn(us, t) = OfTxn(ms, t)
  BY DEF OfTxn
<1>3. \A s : (\A i \in DOMAIN ms : us[i].source = s <=> ms[i].source = s)
                => OfSource(us, s) = OfSource(ms, s)
  BY DEF OfSource
<1>4. \A t : AllAuto(us, t) <=> AllAuto(ms, t)
  BY DEF AllAuto
<1> QED
  BY <1>1, <1>2, <1>3, <1>4, AsColumns

-----------------------------------------------------------------------------
ShownAt(x, ms, t) ==
    /\ x \in Fully <=> OnTxn(ms, t) = Amount[t]
    /\ x \in Fully => (x = "MATCHED" <=> AllAuto(ms, t))
    /\ x = "PARTIALLY_MATCHED" => OnTxn(ms, t) \in 1 .. (Amount[t] - 1)

Within(ms) ==
    /\ \A t \in Txns : OnTxn(ms, t) <= Amount[t]
    /\ \A s \in DOMAIN sources :
          sources[s].kind = "RECEIPT" => OnSource(ms, s) <= sources[s].amount

Counted == Within(matches) /\ \A t \in Txns : ShownAt(status[t], matches, t)

\* What a request that is alone knows: the rows it loaded have not changed since, and with
\* the matches it will commit the sums are within bounds and the statuses it will commit,
\* where it has computed them, are what the sums say.
Fresh(r) ==
    /\ r.pc \in {"sync", "undo", "find", "commit"} => Within(Visible(r))
    /\ r.pc = "sync" => /\ r.seen = status /\ r.new = status
                        /\ \A t \in Txns \ r.todo : ShownAt(status[t], Visible(r), t)
    /\ r.pc = "undo" => \A t \in Txns \ r.todo : ShownAt(status[t], Visible(r), t)
    /\ r.pc = "find" => /\ r.seen = status
                        /\ \A t \in Txns : ShownAt(r.new[t], Visible(r), t)
                        /\ \A t \in r.todo : r.new[t] \in Listed
    /\ r.pc = "commit" =>
          \A t \in Txns : ShownAt(Changed(r.seen[t], r.new[t], status[t]), Visible(r), t)

CountInv == Serial => Counted /\ \A w \in Workers : work[w].pc # "off" => Fresh(work[w])

LEMMA FreshIdle == Fresh(Idle)
BY DEF Fresh, Idle

LEMMA VisibleType ==
    ASSUME Inv, NEW r \in Request
    PROVE  Undone(r) \in Seq(Match) /\ r.made \in Seq(Match) /\ Visible(r) \in Seq(Match)
<1>1. Undone(r) \in Seq(Match) /\ r.made \in Seq(Match)
  BY UndoneType DEF Request
<1> QED
  BY <1>1 DEF Visible

LEMMA NothingUndone ==
    ASSUME Inv, NEW r, r.undone = 0
    PROVE  Undone(r) = matches
<1>1. matches \in Seq(Match) /\ 0 \notin DOMAIN matches
  BY DEF Inv, TypeOK
<1> QED
  BY <1>1 DEF Undone

LEMMA VisibleAsIs ==
    ASSUME Inv, NEW r, r.undone = 0, r.made = << >>
    PROVE  Visible(r) = matches
<1>1. matches \in Seq(Match)
  BY DEF Inv, TypeOK
<1> QED
  BY <1>1, NothingUndone DEF Visible

LEMMA VisibleOneMore ==
    ASSUME Inv, NEW r, NEW x \in Match, r.undone = 0, r.made = <<x>>
    PROVE  Visible(r) = Append(matches, x)
<1>1. matches \in Seq(Match)
  BY DEF Inv, TypeOK
<1> QED
  BY <1>1, NothingUndone DEF Visible

LEMMA StatusForShown ==
    ASSUME NEW ms \in Seq(Match), NEW t \in Txns, OnTxn(ms, t) <= Amount[t]
    PROVE  ShownAt(StatusFor(ms, t), ms, t)
<1>1. OnTxn(ms, t) \in Nat /\ Amount[t] \in Nat \ {0}
  BY SumsType, BankAssumption
<1>2. StatusFor(ms, t) = IF OnTxn(ms, t) >= Amount[t]
                         THEN IF AllAuto(ms, t) THEN "MATCHED" ELSE "MANUALLY_MATCHED"
                         ELSE IF OnTxn(ms, t) > 0 THEN "PARTIALLY_MATCHED" ELSE "UNMATCHED"
  BY DEF StatusFor, AllAuto
<1>3. CASE OnTxn(ms, t) >= Amount[t]
  <2>1. OnTxn(ms, t) = Amount[t]
    BY <1>1, <1>3
  <2> QED
    BY <1>2, <1>3, <2>1 DEF ShownAt, Fully
<1>4. CASE ~(OnTxn(ms, t) >= Amount[t])
  <2>1. OnTxn(ms, t) # Amount[t]
    BY <1>1, <1>4
  <2>2. OnTxn(ms, t) > 0 => OnTxn(ms, t) \in 1 .. (Amount[t] - 1)
    BY <1>1, <1>4
  <2>3. StatusFor(ms, t) = IF OnTxn(ms, t) > 0 THEN "PARTIALLY_MATCHED" ELSE "UNMATCHED"
    BY <1>2, <1>4
  <2> QED
    BY <2>1, <2>2, <2>3 DEF ShownAt, Fully
<1> QED
  BY <1>3, <1>4

\* A match that fits keeps the sums within bounds, and changes no other transaction's.
LEMMA OneMore ==
    ASSUME NEW ms \in Seq(Match), NEW x \in Match, x.active, Within(ms),
           OnTxn(ms, x.txn) + x.amount <= Amount[x.txn],
           \A s \in DOMAIN sources :
              s = x.source /\ sources[s].kind = "RECEIPT"
                 => OnSource(ms, s) + x.amount <= sources[s].amount
    PROVE  /\ Within(Append(ms, x))
           /\ \A t \in Txns : t # x.txn =>
                 \A st : ShownAt(st, ms, t) => ShownAt(st, Append(ms, x), t)
<1> DEFINE us == Append(ms, x)
<1>1. /\ \A t : OnTxn(us, t) = IF x.txn = t THEN OnTxn(ms, t) + x.amount ELSE OnTxn(ms, t)
      /\ \A s : OnSource(us, s) = IF x.source = s THEN OnSource(ms, s) + x.amount
                                  ELSE OnSource(ms, s)
      /\ \A t : AllAuto(us, t) <=> AllAuto(ms, t) /\ (x.txn = t => x.type = "AUTO")
  BY Appended
<1> HIDE DEF us
<1>2. Within(us)
  <2>1. \A t \in Txns : OnTxn(us, t) <= Amount[t]
    BY <1>1 DEF Within
  <2>2. ASSUME NEW s \in DOMAIN sources, sources[s].kind = "RECEIPT"
        PROVE  OnSource(us, s) <= sources[s].amount
    BY <1>1, <2>2 DEF Within
  <2> QED
    BY <2>1, <2>2 DEF Within
<1>3. ASSUME NEW t \in Txns, t # x.txn, NEW st, ShownAt(st, ms, t) PROVE ShownAt(st, us, t)
  BY <1>1, <1>3 DEF ShownAt
<1> QED
  BY <1>2, <1>3 DEF us

-----------------------------------------------------------------------------
\* A step that writes no row.
LEMMA ReadStep ==
    ASSUME Inv, Counted, NEW w \in Workers, NEW n, Fresh(n),
           work' = [work EXCEPT ![w] = n], UNCHANGED Rows
    PROVE  Counted' /\ Fresh(work[w])'
<1>1. work'[w] = n
  BY DEF Inv, TypeOK
<1>2. status' = status /\ sources' = sources /\ matches' = matches
  BY DEF Rows
<1>3. Counted'
  BY <1>2 DEF Counted, Within, ShownAt
<1>4. PICK k : k = work'[w]
  OBVIOUS
<1>5. Fresh(k)'
  <2>1. Visible(k)' = Visible(k)
    BY <1>2 DEF Visible, Undone
  <2>2. Within(Visible(k))' <=> Within(Visible(k))
    BY <1>2, <2>1 DEF Within
  <2>3. ASSUME NEW st, NEW t PROVE ShownAt(st, Visible(k), t)' <=> ShownAt(st, Visible(k), t)
    BY <2>1 DEF ShownAt
  <2>4. Fresh(k)
    BY <1>1, <1>4
  <2> QED
    BY <1>2, <2>2, <2>3, <2>4 DEF Fresh
<1> QED
  BY <1>3, <1>4, <1>5 DEF Fresh, Visible, Undone

LEMMA RefuseStep ==
    ASSUME Inv, Counted, NEW w \in Workers, Refuse(w)
    PROVE  Counted' /\ Fresh(work[w])'
BY FreshIdle, ReadStep DEF Refuse, Begin

LEMMA MatchStep ==
    ASSUME Inv, Counted, NEW w \in Workers, NEW t \in Txns, NEW s \in DOMAIN sources,
           NEW a \in Nat \ {0}, MatchLoad(w, t, s, a)
    PROVE  Counted' /\ Fresh(work[w])'
<1> DEFINE x == NewMatch(t, s, a, "MANUAL")
           made == <<x>>
           n == [Idle EXCEPT !.pc = "sync", !.todo = {t}, !.seen = status, !.new = status,
                             !.made = made]
<1>1. matches \in Seq(Match) /\ s \in Nat /\ sources[s] \in Source
  BY DEF Inv, TypeOK
<1>2. x \in Match /\ x.source = s /\ x.txn = t /\ x.amount = a /\ x.active
  BY <1>1 DEF NewMatch, Match
<1>3. work' = [work EXCEPT ![w] = n] /\ UNCHANGED Rows
  BY DEF MatchLoad, Begin
<1>4. /\ OnTxn(matches, t) \in 0 .. (Amount[t] - a)
      /\ sources[s].kind = "RECEIPT" => OnSource(matches, s) \in 0 .. (sources[s].amount - a)
  BY DEF MatchLoad, Fits
<1>5. OnTxn(matches, t) + a <= Amount[t]
  <2>1. OnTxn(matches, t) \in Nat /\ Amount[t] \in Nat
    BY <1>1, SumsType, BankAssumption
  <2> QED
    BY <1>4, <2>1
<1>6. sources[s].kind = "RECEIPT" => OnSource(matches, s) + a <= sources[s].amount
  <2>1. OnSource(matches, s) \in Nat /\ sources[s].amount \in Nat
    BY <1>1, SumsType DEF Source
  <2> QED
    BY <1>4, <2>1
<1> HIDE DEF x
<1>7. /\ n.pc = "sync" /\ n.todo = {t} /\ n.seen = status /\ n.new = status /\ n.made = <<x>>
      /\ n.undone = 0
  <2>1. Idle \in Request /\ Idle.undone = 0
    BY IdleType DEF Idle
  <2> HIDE DEF made
  <2>2. /\ n.pc = "sync" /\ n.todo = {t} /\ n.seen = status /\ n.new = status /\ n.made = made
        /\ n.undone = 0
    BY <2>1 DEF Request
  <2> QED
    BY <2>2 DEF made
<1> HIDE DEF n
<1>8. Visible(n) = Append(matches, x)
  BY <1>2, <1>7, VisibleOneMore
<1>9. /\ Within(Append(matches, x))
      /\ \A u \in Txns : u # t => \A st : ShownAt(st, matches, u) => ShownAt(st, Append(matches, x), u)
  BY <1>1, <1>2, <1>5, <1>6, OneMore DEF Counted
<1>10. Fresh(n)
  BY <1>7, <1>8, <1>9 DEF Fresh, Counted
<1> QED
  BY <1>3, <1>10, ReadStep

LEMMA AdjustStep ==
    ASSUME Inv, Counted, NEW w \in Workers, NEW t \in Txns, AdjustLoad(w, t)
    PROVE  Counted' /\ Fresh(work[w])'
<1> DEFINE left == Amount[t] - OnTxn(matches, t)
           x == NewMatch(t, 0, left, "ADJUSTMENT")
           made == <<x>>
           n == [Idle EXCEPT !.pc = "sync", !.todo = {t}, !.seen = status, !.new = status,
                             !.journal = left, !.made = made]
<1>1. matches \in Seq(Match) /\ OnTxn(matches, t) \in Nat /\ Amount[t] \in Nat
      /\ 0 \notin DOMAIN sources
  <2>1. matches \in Seq(Match) /\ sources \in Seq(Source)
    BY DEF Inv, TypeOK
  <2> QED
    BY <2>1, SumsType, BankAssumption
<1>2. left \in 1 .. Amount[t] /\ work' = [work EXCEPT ![w] = n] /\ UNCHANGED Rows
  BY DEF AdjustLoad, Begin
<1>3. OnTxn(matches, t) + left <= Amount[t]
  BY <1>1
<1>4. left \in Nat \ {0}
  BY <1>1, <1>2
<1> HIDE DEF left
<1>5. x \in Match /\ x.source = 0 /\ x.txn = t /\ x.amount = left /\ x.active
  BY <1>4 DEF NewMatch, Match
<1> HIDE DEF x
<1>6. /\ n.pc = "sync" /\ n.todo = {t} /\ n.seen = status /\ n.new = status /\ n.made = <<x>>
      /\ n.undone = 0
  <2>1. Idle \in Request /\ Idle.undone = 0
    BY IdleType DEF Idle
  <2> HIDE DEF made
  <2>2. /\ n.pc = "sync" /\ n.todo = {t} /\ n.seen = status /\ n.new = status /\ n.made = made
        /\ n.undone = 0
    BY <2>1 DEF Request
  <2> QED
    BY <2>2 DEF made
<1> HIDE DEF n
<1>7. Visible(n) = Append(matches, x)
  BY <1>5, <1>6, VisibleOneMore
<1>8. /\ Within(Append(matches, x))
      /\ \A u \in Txns : u # t => \A st : ShownAt(st, matches, u) => ShownAt(st, Append(matches, x), u)
  BY <1>1, <1>3, <1>5, OneMore DEF Counted
<1>9. Fresh(n)
  BY <1>6, <1>7, <1>8 DEF Fresh, Counted
<1> QED
  BY <1>2, <1>9, ReadStep

LEMMA SyncStep ==
    ASSUME Inv, Counted, NEW w \in Workers, Fresh(work[w]), Sync(w) \/ ReverseSync(w)
    PROVE  Counted' /\ Fresh(work[w])'
<1> DEFINE r == work[w]
           new == Synced(status, Visible(r), r.todo)
           n == [r EXCEPT !.pc = "commit", !.seen = status, !.new = new]
<1>1. r \in Request /\ status \in [Txns -> TxnStatus]
  BY DEF Inv, TypeOK
<1>2. r.pc \in {"sync", "undo"} /\ UNCHANGED Rows
  BY DEF Sync, ReverseSync
<1>3. work' = [work EXCEPT ![w] = n]
  <2>1. CASE ReverseSync(w)
    BY <2>1 DEF ReverseSync, Begin
  <2>2. CASE Sync(w)
    <3>1. r.seen = status /\ r.new = status
      BY <2>2 DEF Sync, Fresh
    <3>2. n = [r EXCEPT !.pc = "commit", !.new = new]
      BY <1>1, <3>1 DEF Request
    <3> QED
      BY <2>2, <3>1, <3>2 DEF Sync, Begin
  <2> QED
    BY <2>1, <2>2
<1>4. \A t \in Txns : new[t] = IF t \in r.todo THEN StatusFor(Visible(r), t) ELSE status[t]
  BY DEF Synced
<1> HIDE DEF new
<1>5. n.pc = "commit" /\ n.seen = status /\ n.new = new /\ n.made = r.made /\ n.undone = r.undone
  BY <1>1 DEF Request
<1> HIDE DEF n
<1>6. Visible(n) = Visible(r)
  BY <1>5 DEF Visible, Undone
<1>7. Within(Visible(r)) /\ \A t \in Txns \ r.todo : ShownAt(status[t], Visible(r), t)
  BY <1>2 DEF Fresh
<1>8. ASSUME NEW t \in Txns PROVE ShownAt(new[t], Visible(r), t)
  <2>1. Visible(r) \in Seq(Match)
    BY <1>1, VisibleType
  <2>2. ShownAt(StatusFor(Visible(r), t), Visible(r), t)
    BY <1>7, <2>1, StatusForShown DEF Within
  <2> QED
    BY <1>4, <1>7, <2>2
<1>9. Fresh(n)
  BY <1>5, <1>6, <1>7, <1>8 DEF Fresh, Changed
<1> QED
  BY <1>2, <1>3, <1>9, ReadStep

LEMMA ReverseStep ==
    ASSUME Inv, Counted, NEW w \in Workers, NEW m \in DOMAIN matches, ReverseLoad(w, m)
    PROVE  Counted' /\ Fresh(work[w])'
<1> DEFINE n == [Idle EXCEPT !.pc = "undo", !.todo = {matches[m].txn}, !.undone = m]
<1>1. /\ matches \in Seq(Match) /\ \A t : OnTxn(matches, t) \in Nat
      /\ \A s : OnSource(matches, s) \in Nat
  <2>1. matches \in Seq(Match)
    BY DEF Inv, TypeOK
  <2> QED
    BY <2>1, SumsType
<1>2. work' = [work EXCEPT ![w] = n] /\ UNCHANGED Rows
  BY DEF ReverseLoad, Begin
<1>3. n.pc = "undo" /\ n.todo = {matches[m].txn} /\ n.undone = m /\ n.made = << >> /\ n \in Request
  <2>1. Idle \in Request /\ Idle.made = << >>
    BY IdleType DEF Idle
  <2>2. matches[m] \in Match /\ m \in Nat
    BY <1>1
  <2>3. matches[m].txn \in Txns
    BY <2>2 DEF Match
  <2> QED
    BY <2>1, <2>2, <2>3 DEF Request
<1> HIDE DEF n
<1> DEFINE us == Undone(n)
<1>4. us \in Seq(Match) /\ Visible(n) = us
  <2>1. us \in Seq(Match) /\ Visible(n) = us \o << >>
    BY <1>3, VisibleType DEF Visible
  <2> QED
    BY <2>1
<1>5. /\ DOMAIN us = DOMAIN matches /\ us[m] = [matches[m] EXCEPT !.active = FALSE]
      /\ \A i \in DOMAIN matches : i # m => us[i] = matches[i]
  BY <1>3 DEF Undone
<1> HIDE DEF us
<1>6. /\ \A t : OnTxn(us, t) <= OnTxn(matches, t)
      /\ \A s : OnSource(us, s) <= OnSource(matches, s)
      /\ \A t : t # matches[m].txn => /\ OnTxn(us, t) = OnTxn(matches, t)
                                      /\ AllAuto(us, t) <=> AllAuto(matches, t)
  BY <1>1, <1>4, <1>5, Reversed
<1>7. Within(us)
  <2>1. (\A t : OnTxn(us, t) \in Nat) /\ \A s : OnSource(us, s) \in Nat
    BY <1>4, SumsType
  <2>2. \A t \in Txns : Amount[t] \in Nat
    BY BankAssumption
  <2>3. \A s \in DOMAIN sources : sources[s].amount \in Nat
    <3>1. \A s \in DOMAIN sources : sources[s] \in Source
      BY DEF Inv, TypeOK
    <3> QED
      BY <3>1 DEF Source
  <2>4. \A t \in Txns : OnTxn(us, t) <= Amount[t]
    BY <1>1, <1>6, <2>1, <2>2 DEF Counted, Within
  <2>5. \A s \in DOMAIN sources : sources[s].kind = "RECEIPT" => OnSource(us, s) <= sources[s].amount
    BY <1>1, <1>6, <2>1, <2>3 DEF Counted, Within
  <2> QED
    BY <2>4, <2>5 DEF Within
<1>8. \A t \in Txns : t # matches[m].txn => ShownAt(status[t], us, t)
  BY <1>6 DEF Counted, ShownAt
<1>9. Fresh(n)
  BY <1>3, <1>4, <1>7, <1>8 DEF Fresh
<1> QED
  BY <1>2, <1>9, ReadStep

LEMMA AsideStep ==
    ASSUME Inv, Counted, NEW w \in Workers, NEW t \in Txns,
           NEW s \in {"EXCLUDED", "REVIEW_REQUIRED"}, SetAside(w, t, s)
    PROVE  Counted' /\ Fresh(work[w])'
<1> DEFINE new == [status EXCEPT ![t] = s]
           n == [Idle EXCEPT !.pc = "commit", !.seen = status, !.new = new]
<1>1. status \in [Txns -> TxnStatus]
  BY DEF Inv, TypeOK
<1>2. status[t] \in ExcludableFrom /\ work' = [work EXCEPT ![w] = n] /\ UNCHANGED Rows
  BY DEF SetAside, Begin
<1>3. \A u \in Txns : new[u] = IF u = t THEN s ELSE status[u]
  BY <1>1
<1> HIDE DEF new
<1>4. n.pc = "commit" /\ n.seen = status /\ n.new = new /\ n.made = << >> /\ n.undone = 0
  <2>1. Idle \in Request /\ Idle.made = << >> /\ Idle.undone = 0
    BY IdleType DEF Idle
  <2> QED
    BY <2>1 DEF Request
<1> HIDE DEF n
<1>5. Visible(n) = matches
  BY <1>4, VisibleAsIs
<1>6. ASSUME NEW u \in Txns PROVE ShownAt(new[u], matches, u)
  <2>1. ShownAt(status[u], matches, u)
    BY DEF Counted
  <2>2. CASE u = t
    <3>1. OnTxn(matches, t) # Amount[t]
      BY <1>2, <2>1, <2>2 DEF ShownAt, ExcludableFrom, Fully
    <3> QED
      BY <1>3, <2>2, <3>1 DEF ShownAt, Fully
  <2> QED
    BY <1>3, <2>1, <2>2
<1>7. Fresh(n)
  BY <1>4, <1>5, <1>6 DEF Fresh, Changed, Counted
<1> QED
  BY <1>2, <1>7, ReadStep

\* The requests about sessions that leave the transactions as they are.
LEMMA ReviewOnlyStep ==
    ASSUME Inv, Counted, NEW w \in Workers,
           \/ StartSession(w)
           \/ \E k \in DOMAIN sessions, e \in Transitions : Review(w, k, e)
    PROVE  Counted' /\ Fresh(work[w])'
<1>0. Idle \in Request /\ Idle.made = << >> /\ Idle.undone = 0 /\ Idle.seen = Idle.new
  BY IdleType DEF Idle
<1>1. ASSUME NEW n, n.pc = "commit", n.seen = Idle.seen, n.new = Idle.new, n.made = << >>,
             n.undone = 0
      PROVE  Fresh(n)
  <2>1. Visible(n) = matches
    BY <1>1, VisibleAsIs
  <2>2. n.seen = n.new
    BY <1>0, <1>1
  <2>3. \A t \in Txns : Changed(n.seen[t], n.new[t], status[t]) = status[t]
    BY <2>2 DEF Changed
  <2> QED
    BY <1>1, <2>1, <2>3 DEF Fresh, Counted
<1>2. CASE StartSession(w)
  <2> DEFINE n == [Idle EXCEPT !.pc = "commit", !.opens = TRUE]
  <2>1. work' = [work EXCEPT ![w] = n] /\ UNCHANGED Rows
    BY <1>2 DEF StartSession, Begin
  <2>2. /\ n.pc = "commit" /\ n.seen = Idle.seen /\ n.new = Idle.new /\ n.made = << >>
        /\ n.undone = 0
    BY <1>0 DEF Request
  <2> HIDE DEF n
  <2> QED
    BY <1>1, <2>1, <2>2, ReadStep
<1>3. ASSUME NEW k \in DOMAIN sessions, NEW e \in Transitions, Review(w, k, e)
      PROVE  Counted' /\ Fresh(work[w])'
  <2> DEFINE n == [Idle EXCEPT !.pc = "commit", !.session = k, !.from = e[1], !.to = e[3]]
  <2>1. work' = [work EXCEPT ![w] = n] /\ UNCHANGED Rows
    BY <1>3 DEF Review, Begin
  <2>2. /\ n.pc = "commit" /\ n.seen = Idle.seen /\ n.new = Idle.new /\ n.made = << >>
        /\ n.undone = 0
    BY <1>0 DEF Request
  <2> HIDE DEF n
  <2> QED
    BY <1>1, <2>1, <2>2, ReadStep
<1> QED
  BY <1>2, <1>3

LEMMA RunStep ==
    ASSUME Inv, Counted, NEW w \in Workers, NEW k \in DOMAIN sessions, NEW e \in Transitions,
           RunLoad(w, k, e)
    PROVE  Counted' /\ Fresh(work[w])'
<1> DEFINE todo == {t \in Bound.txns : status[t] \in Listed}
           n == [Idle EXCEPT !.pc = "find", !.session = k, !.from = e[1], !.to = e[3],
                             !.was = sessions[k].book, !.seen = status, !.new = status,
                             !.todo = todo]
<1>1. work' = [work EXCEPT ![w] = n] /\ UNCHANGED Rows
  BY DEF RunLoad, Begin
<1>2. \A t \in todo : status[t] \in Listed
  OBVIOUS
<1> HIDE DEF todo
<1>3. /\ n.pc = "find" /\ n.seen = status /\ n.new = status /\ n.todo = todo /\ n.made = << >>
      /\ n.undone = 0
  <2>1. Idle \in Request /\ Idle.made = << >> /\ Idle.undone = 0
    BY IdleType DEF Idle
  <2> QED
    BY <2>1 DEF Request
<1> HIDE DEF n
<1>4. Visible(n) = matches
  BY <1>3, VisibleAsIs
<1>5. Fresh(n)
  BY <1>2, <1>3, <1>4 DEF Fresh, Counted
<1> QED
  BY <1>1, <1>5, ReadStep

LEMMA FoundStep ==
    ASSUME Inv, Counted, NEW w \in Workers, Fresh(work[w]), NEW t \in Txns,
           NEW s \in {"UNMATCHED", "REVIEW_REQUIRED", "MATCH_SUGGESTED"}, Found(w, t, s)
    PROVE  Counted' /\ Fresh(work[w])'
<1> DEFINE r == work[w]
           new == [r.new EXCEPT ![t] = s]
           todo == r.todo \ {t}
           n == [r EXCEPT !.todo = todo, !.new = new]
<1>1. r \in Request
  BY DEF Inv, TypeOK
<1>2. r.pc = "find" /\ t \in r.todo /\ work' = [work EXCEPT ![w] = n] /\ UNCHANGED Rows
  BY <1>1 DEF Found, Begin, Request
<1>3. \A u \in Txns : new[u] = IF u = t THEN s ELSE r.new[u]
  BY <1>1 DEF Request
<1>4. \A u \in todo : u \in r.todo /\ u \in Txns /\ u # t
  BY <1>1 DEF Request
<1> HIDE DEF new, todo
<1>5. /\ n.pc = "find" /\ n.seen = r.seen /\ n.new = new /\ n.todo = todo /\ n.made = r.made
      /\ n.undone = r.undone
  BY <1>1, <1>2 DEF Request
<1> HIDE DEF n
<1>6. Visible(n) = Visible(r)
  BY <1>5 DEF Visible, Undone
<1>7. /\ Within(Visible(r)) /\ r.seen = status
      /\ \A u \in Txns : ShownAt(r.new[u], Visible(r), u)
      /\ \A u \in r.todo : r.new[u] \in Listed
  BY <1>2 DEF Fresh
<1>8. ASSUME NEW u \in Txns PROVE ShownAt(new[u], Visible(r), u)
  <2>1. CASE u = t
    <3>1. OnTxn(Visible(r), t) # Amount[t]
      BY <1>2, <1>7 DEF ShownAt, Listed, ExcludableFrom, Fully
    <3> QED
      BY <1>3, <2>1, <3>1 DEF ShownAt, Fully
  <2> QED
    BY <1>3, <1>7, <2>1
<1>9. Fresh(n)
  BY <1>3, <1>4, <1>5, <1>6, <1>7, <1>8 DEF Fresh
<1> QED
  BY <1>2, <1>9, ReadStep

LEMMA AppendLast ==
    ASSUME NEW S, NEW s \in Seq(S), NEW u \in Seq(S), NEW x \in S
    PROVE  s \o Append(u, x) = Append(s \o u, x)
<1> DEFINE a == s \o Append(u, x)
           b == Append(s \o u, x)
<1>1. Append(u, x) \in Seq(S) /\ Len(Append(u, x)) = Len(u) + 1 /\ s \o u \in Seq(S)
      /\ Len(s \o u) = Len(s) + Len(u) /\ Len(s) \in Nat /\ Len(u) \in Nat
  OBVIOUS
<1>2. a \in Seq(S) /\ b \in Seq(S) /\ Len(a) = Len(s) + Len(u) + 1 /\ Len(b) = Len(s) + Len(u) + 1
  BY <1>1
<1>3. ASSUME NEW i \in 1 .. (Len(s) + Len(u) + 1) PROVE a[i] = b[i]
  <2>1. CASE i <= Len(s)
    BY <1>1, <2>1
  <2>2. CASE i > Len(s) /\ i <= Len(s) + Len(u)
    <3>1. i - Len(s) \in 1 .. Len(u) /\ a[i] = Append(u, x)[i - Len(s)] /\ b[i] = (s \o u)[i]
      BY <1>1, <2>2
    <3> QED
      BY <1>1, <2>2, <3>1
  <2>3. CASE i = Len(s) + Len(u) + 1
    BY <1>1, <2>3
  <2> QED
    BY <1>1, <2>1, <2>2, <2>3
<1> HIDE DEF a, b
<1>4. a = b
  BY <1>1, <1>2, <1>3
<1> QED
  BY <1>4 DEF a, b

LEMMA StrongStep ==
    ASSUME Inv, Counted, NEW w \in Workers, Fresh(work[w]), NEW t \in Txns, FoundStrong(w, t)
    PROVE  Counted' /\ Fresh(work[w])'
<1> DEFINE r == work[w]
           ms == Visible(r)
<1>1. r \in Request /\ Amount[t] \in Nat \ {0}
  BY BankAssumption DEF Inv, TypeOK
<1>2. PICK s \in Receipts(ms, t) :
         IF Fits(ms, t, s, Amount[t])
         THEN LET made == Append(r.made, NewMatch(t, s, Amount[t], "AUTO")) IN
              /\ Begin(w, [r EXCEPT !.todo = @ \ {t}, !.made = made,
                                    !.new[t] = StatusFor(Undone(r) \o made, t)])
              /\ UNCHANGED Rows
         ELSE Refuse(w)
  BY DEF FoundStrong
<1>3. s \in DOMAIN sources /\ sources[s].kind = "RECEIPT" /\ r.pc = "find" /\ t \in r.todo
  BY DEF FoundStrong, Receipts, Candidates
<1>4. s \in Nat /\ sources[s] \in Source
  BY <1>3 DEF Inv, TypeOK
<1>5. CASE ~Fits(ms, t, s, Amount[t])
  BY <1>2, <1>5, RefuseStep
<1>6. CASE Fits(ms, t, s, Amount[t])
  <2> DEFINE x == NewMatch(t, s, Amount[t], "AUTO")
             made == Append(r.made, x)
             st == StatusFor(Undone(r) \o made, t)
             new == [r.new EXCEPT ![t] = st]
             todo == r.todo \ {t}
             n == [r EXCEPT !.todo = todo, !.made = made, !.new = new]
  <2>1. work' = [work EXCEPT ![w] = n] /\ UNCHANGED Rows
    BY <1>1, <1>2, <1>6 DEF Begin, Request
  <2>2. x \in Match /\ x.source = s /\ x.txn = t /\ x.amount = Amount[t] /\ x.active
    BY <1>1, <1>4 DEF NewMatch, Match
  <2>3. OnTxn(ms, t) \in 0 .. (Amount[t] - Amount[t])
        /\ OnSource(ms, s) \in 0 .. (sources[s].amount - Amount[t])
    BY <1>3, <1>6 DEF Fits
  <2> HIDE DEF x
  <2>4. Undone(r) \in Seq(Match) /\ r.made \in Seq(Match) /\ ms \in Seq(Match)
    BY <1>1, VisibleType
  <2>5. Undone(r) \o made = Append(ms, x)
    <3>1. \A a, b \in Seq(Match) : \A y \in Match : a \o Append(b, y) = Append(a \o b, y)
      BY AppendLast
    <3> QED
      BY <2>2, <2>4, <3>1 DEF Visible
  <2>6. OnTxn(ms, t) + Amount[t] <= Amount[t] /\ OnSource(ms, s) + Amount[t] <= sources[s].amount
    <3>1. OnTxn(ms, t) \in Nat /\ OnSource(ms, s) \in Nat /\ sources[s].amount \in Nat
      BY <1>4, <2>4, SumsType DEF Source
    <3> QED
      BY <1>1, <2>3, <3>1
  <2>7. /\ Within(ms) /\ r.seen = status
        /\ \A u \in Txns : ShownAt(r.new[u], ms, u)
        /\ \A u \in r.todo : r.new[u] \in Listed
    BY <1>3 DEF Fresh
  <2>8. \A u \in Txns : new[u] = IF u = t THEN st ELSE r.new[u]
    BY <1>1 DEF Request
  <2>9. \A u \in todo : u \in r.todo /\ u \in Txns /\ u # t
    BY <1>1 DEF Request
  <2>10. st = StatusFor(Append(ms, x), t)
    BY <2>5
  <2>11. Undone(r) \o made = Append(ms, x)
    BY <2>5
  <2> HIDE DEF ms, st, new, todo, made
  <2>12. /\ n.pc = "find" /\ n.seen = r.seen /\ n.new = new /\ n.todo = todo /\ n.made = made
         /\ n.undone = r.undone
    BY <1>1, <1>3 DEF Request
  <2> HIDE DEF n
  <2>13. Visible(n) = Append(ms, x)
    BY <2>11, <2>12 DEF Visible, Undone
  <2>14. /\ Within(Append(ms, x))
         /\ \A u \in Txns : u # t => \A k : ShownAt(k, ms, u) => ShownAt(k, Append(ms, x), u)
    BY <2>2, <2>4, <2>6, <2>7, OneMore
  <2>15. ShownAt(st, Append(ms, x), t)
    <3>1. Append(ms, x) \in Seq(Match)
      BY <2>2, <2>4
    <3> QED
      BY <2>10, <2>14, <3>1, StatusForShown DEF Within
  <2>16. \A u \in Txns : ShownAt(new[u], Append(ms, x), u)
    BY <2>7, <2>8, <2>14, <2>15
  <2>17. Fresh(n)
    BY <2>7, <2>8, <2>9, <2>12, <2>13, <2>14, <2>16 DEF Fresh
  <2> QED
    BY <2>1, <2>17, ReadStep
<1> QED
  BY <1>5, <1>6

LEMMA EndStep ==
    ASSUME Inv, Counted, NEW w \in Workers, Fresh(work[w]), RunEnd(w)
    PROVE  Counted' /\ Fresh(work[w])'
<1> DEFINE r == work[w]
           n == [r EXCEPT !.pc = "commit", !.book = BookNow]
<1>1. r \in Request
  BY DEF Inv, TypeOK
<1>2. r.pc = "find" /\ work' = [work EXCEPT ![w] = n] /\ UNCHANGED Rows
  BY DEF RunEnd, Begin
<1>3. n.pc = "commit" /\ n.seen = r.seen /\ n.new = r.new /\ n.made = r.made /\ n.undone = r.undone
  BY <1>1 DEF Request
<1> HIDE DEF n
<1>4. Visible(n) = Visible(r)
  BY <1>3 DEF Visible, Undone
<1>5. \A t \in Txns : Changed(n.seen[t], n.new[t], status[t]) = r.new[t]
  BY <1>2, <1>3 DEF Fresh, Changed
<1>6. Fresh(n)
  BY <1>2, <1>3, <1>4, <1>5 DEF Fresh
<1> QED
  BY <1>2, <1>6, ReadStep

\* The claims committed are those the request saw, an adjustment's on a journal entry that
\* was not there before.
LEMMA CommittedClaims ==
    ASSUME Inv, NEW w \in Workers, Commit(w)
    PROVE  /\ \A t : /\ OnTxn(matches', t) = OnTxn(Visible(work[w]), t)
                     /\ AllAuto(matches', t) <=> AllAuto(Visible(work[w]), t)
           /\ \A s \in DOMAIN sources : OnSource(matches', s) = OnSource(Visible(work[w]), s)
<1> DEFINE r == work[w]
           u == Undone(r)
           p == Placed(r)
           ms == u \o r.made
           us == u \o p
<1>1. r \in Request /\ Fitting(r) /\ sources \in Seq(Source)
  BY DEF Inv, TypeOK
<1>2. u \in Seq(Match) /\ r.made \in Seq(Match) /\ ms \in Seq(Match) /\ ms = Visible(r)
  BY <1>1, VisibleType DEF Visible
<1>3. p \in Seq(Match)
  BY <1>1, PlacedType
<1>4. us = matches' /\ us \in Seq(Match)
  BY <1>2, <1>3 DEF Commit, Matches
<1>5. /\ DOMAIN p = DOMAIN r.made
      /\ \A i \in DOMAIN r.made :
            p[i] = IF r.made[i].source = 0 THEN [r.made[i] EXCEPT !.source = Len(sources) + 1]
                   ELSE r.made[i]
  BY DEF Placed
<1>6. \A s \in DOMAIN sources : s # 0 /\ s # Len(sources) + 1
  BY <1>1
<1>7. ASSUME NEW i \in DOMAIN r.made
      PROVE  /\ p[i].txn = r.made[i].txn /\ p[i].amount = r.made[i].amount
             /\ p[i].active = r.made[i].active /\ p[i].type = r.made[i].type
             /\ \A s \in DOMAIN sources : p[i].source = s <=> r.made[i].source = s
  <2>1. r.made[i] \in Match
    BY <1>2
  <2> QED
    BY <1>5, <1>6, <2>1 DEF Match
<1>8. Len(p) = Len(r.made)
  BY <1>2, <1>3, <1>5
<1> HIDE DEF u, p, r
<1>9. DOMAIN us = DOMAIN ms
  <2>1. Len(us) = Len(u) + Len(p) /\ Len(ms) = Len(u) + Len(r.made)
    BY <1>2, <1>3
  <2>2. DOMAIN us = 1 .. Len(us) /\ DOMAIN ms = 1 .. Len(ms)
    BY <1>2, <1>4
  <2> QED
    BY <1>8, <2>1, <2>2
<1>10. ASSUME NEW i \in DOMAIN ms
       PROVE  /\ us[i].txn = ms[i].txn /\ us[i].amount = ms[i].amount
              /\ us[i].active = ms[i].active /\ us[i].type = ms[i].type
              /\ \A s \in DOMAIN sources : us[i].source = s <=> ms[i].source = s
  <2>1. CASE i \in DOMAIN u
    <3>1. us[i] = u[i] /\ ms[i] = u[i]
      BY <1>2, <1>3, <2>1
    <3> QED
      BY <3>1
  <2>2. CASE i \notin DOMAIN u
    <3>1. /\ i - Len(u) \in DOMAIN r.made /\ us[i] = p[i - Len(u)]
          /\ ms[i] = r.made[i - Len(u)]
      BY <1>2, <1>3, <1>8, <1>9, <2>2
    <3> QED
      BY <1>7, <3>1
  <2> QED
    BY <2>1, <2>2
<1> HIDE DEF us, ms
<1>11. \A t : OnTxn(us, t) = OnTxn(ms, t) /\ (AllAuto(us, t) <=> AllAuto(ms, t))
  BY <1>2, <1>4, <1>9, <1>10, SameClaims, SMTT(30)
<1>12. ASSUME NEW s \in DOMAIN sources PROVE OnSource(us, s) = OnSource(ms, s)
  <2>1. \A i \in DOMAIN ms : us[i].source = s <=> ms[i].source = s
    BY <1>10
  <2>2. \A k : (\A i \in DOMAIN ms : us[i].source = k <=> ms[i].source = k)
                  => OnSource(us, k) = OnSource(ms, k)
    BY <1>2, <1>4, <1>9, <1>10, SameClaims
  <2> QED
    BY <2>1, <2>2
<1> QED
  BY <1>2, <1>4, <1>11, <1>12 DEF r

LEMMA CommitStep ==
    ASSUME Inv, Counted, NEW w \in Workers, Fresh(work[w]), Commit(w)
    PROVE  Counted' /\ Fresh(work[w])'
<1> DEFINE r == work[w]
           ms == Visible(r)
<1>1. r \in Request /\ status \in [Txns -> TxnStatus] /\ sources \in Seq(Source)
  BY DEF Inv, TypeOK
<1>2. /\ r.pc = "commit"
      /\ status' = [t \in Txns |-> Changed(r.seen[t], r.new[t], status[t])]
  BY DEF Commit
<1>3. Within(ms) /\ \A t \in Txns : ShownAt(status'[t], ms, t)
  BY <1>2 DEF Fresh
<1>4. /\ \A t : /\ OnTxn(matches', t) = OnTxn(ms, t)
                /\ AllAuto(matches', t) <=> AllAuto(ms, t)
      /\ \A s \in DOMAIN sources : OnSource(matches', s) = OnSource(ms, s)
  BY CommittedClaims
<1>5. \A s \in DOMAIN sources' :
         \/ s \in DOMAIN sources /\ sources'[s] = sources[s]
         \/ sources'[s].kind = "JOURNAL_ENTRY"
  <2> DEFINE x == [kind |-> "JOURNAL_ENTRY", amount |-> r.journal, posted |-> TRUE]
  <2>1. sources' = sources \/ sources' = Append(sources, x)
    BY DEF Commit
  <2>2. x.kind = "JOURNAL_ENTRY"
    OBVIOUS
  <2> HIDE DEF x
  <2> QED
    BY <1>1, <2>1, <2>2
<1> HIDE DEF ms
<1>6. Within(matches)'
  <2>1. \A t \in Txns : OnTxn(matches', t) <= Amount[t]
    BY <1>3, <1>4 DEF Within
  <2>2. ASSUME NEW s \in DOMAIN sources', sources'[s].kind = "RECEIPT"
        PROVE  OnSource(matches', s) <= sources'[s].amount
    <3>1. s \in DOMAIN sources /\ sources'[s] = sources[s]
      BY <1>5, <2>2
    <3>2. OnSource(ms, s) <= sources[s].amount
      BY <1>3, <2>2, <3>1 DEF Within
    <3> QED
      BY <1>4, <3>1, <3>2
  <2> QED
    BY <2>1, <2>2 DEF Within
<1>7. ASSUME NEW t \in Txns PROVE ShownAt(status[t], matches, t)'
  BY <1>3, <1>4 DEF ShownAt
<1>8. work'[w] = Idle
  BY CommitWork
<1>9. Fresh(work[w])'
  BY <1>8 DEF Fresh, Idle
<1> QED
  BY <1>6, <1>7, <1>9 DEF Counted

LEMMA PostStep ==
    ASSUME Inv, Counted, NEW w \in Workers, work[w].pc = "idle",
           NEW s \in DOMAIN sources, PostJournal(s)
    PROVE  Counted' /\ Fresh(work[w])'
<1>1. sources \in Seq(Source) /\ sources[s] \in Source
  BY DEF Inv, TypeOK
<1> DEFINE x == [sources[s] EXCEPT !.posted = TRUE]
<1>2. x.kind = sources[s].kind /\ x.amount = sources[s].amount
  BY <1>1 DEF Source
<1>3. sources' = [sources EXCEPT ![s] = x] /\ UNCHANGED <<status, matches, sessions, work>>
  BY DEF PostJournal
<1> HIDE DEF x
<1>4. /\ DOMAIN sources' = DOMAIN sources
      /\ \A k \in DOMAIN sources : /\ sources'[k].kind = sources[k].kind
                                   /\ sources'[k].amount = sources[k].amount
  BY <1>1, <1>2, <1>3
<1>5. Counted'
  BY <1>3, <1>4 DEF Counted, Within, ShownAt
<1>6. Fresh(work[w])'
  BY <1>3 DEF Fresh
<1> QED
  BY <1>5, <1>6

LEMMA HandleCounts ==
    ASSUME Inv, Counted, NEW w \in Workers, Fresh(work[w]), Handle(w)
    PROVE  Counted' /\ Fresh(work[w])'
<1>1. Bound.txns \subseteq Txns /\ Bound.amounts \subseteq Nat \ {0}
  BY BoundType DEF Bounds
<1>2. ASSUME NEW t \in Bound.txns,
             FoundNone(w, t) \/ FoundWeak(w, t) \/ FoundLead(w, t) \/ FoundStrong(w, t)
      PROVE  Counted' /\ Fresh(work[w])'
  BY <1>1, <1>2, FoundStep, StrongStep DEF FoundNone, FoundWeak, FoundLead
<1>3. ASSUME work[w].pc = "idle", NEW s \in DOMAIN sources, PostJournal(s)
      PROVE  Counted' /\ Fresh(work[w])'
  BY <1>3, PostStep
<1>4. ASSUME NEW t \in Bound.txns, NEW s \in DOMAIN sources, NEW a \in Bound.amounts,
             MatchLoad(w, t, s, a)
      PROVE  Counted' /\ Fresh(work[w])'
  BY <1>1, <1>4, MatchStep
<1>5. ASSUME NEW t \in Bound.txns, AdjustLoad(w, t) PROVE Counted' /\ Fresh(work[w])'
  BY <1>1, <1>5, AdjustStep
<1>6. ASSUME NEW t \in Bound.txns, NEW s \in {"EXCLUDED", "REVIEW_REQUIRED"}, SetAside(w, t, s)
      PROVE  Counted' /\ Fresh(work[w])'
  BY <1>1, <1>6, AsideStep
<1> QED
  BY <1>2, <1>3, <1>4, <1>5, <1>6, SyncStep, ReverseStep, ReviewOnlyStep, RunStep, EndStep,
     CommitStep DEF Handle, Try

LEMMA HandleOn == ASSUME NEW w \in Workers, Handle(w) PROVE work[w].pc # "off"
<1>1. Sync(w) \/ ReverseSync(w) \/ RunEnd(w) \/ Commit(w) => work[w].pc # "off"
  BY DEF Sync, ReverseSync, RunEnd, Commit
<1>2. ASSUME NEW t, FoundNone(w, t) \/ FoundWeak(w, t) \/ FoundLead(w, t) \/ FoundStrong(w, t)
      PROVE  work[w].pc # "off"
  <2>1. (\E s : Found(w, t, s)) \/ FoundStrong(w, t)
    BY <1>2 DEF FoundNone, FoundWeak, FoundLead
  <2>2. (\E s : Found(w, t, s)) => work[w].pc = "find"
    BY DEF Found
  <2>3. FoundStrong(w, t) => work[w].pc = "find"
    BY DEF FoundStrong
  <2> QED
    BY <2>1, <2>2, <2>3
<1>3. work[w].pc = "idle" => work[w].pc # "off"
  OBVIOUS
<1> QED
  BY <1>1, <1>2, <1>3 DEF Handle, Try

LEMMA CountInit == Init => CountInv
<1> SUFFICES ASSUME Init PROVE Counted /\ \A w \in Workers : work[w].pc # "off" => Fresh(work[w])
  BY DEF CountInv
<1>1. matches = << >> /\ status = [t \in Txns |-> "UNMATCHED"] /\ sources = Opening
  BY DEF Init
<1>2. (\A t : OnTxn(matches, t) = 0) /\ \A s : OnSource(matches, s) = 0
  <2>1. (\A t : OfTxn(matches, t) = {}) /\ \A s : OfSource(matches, s) = {}
    BY <1>1 DEF OfTxn, OfSource
  <2> QED
    BY <2>1, AsColumns, SumEmpty
<1>3. \A t \in Txns : Amount[t] \in Nat \ {0}
  BY BankAssumption
<1>4. \A s \in DOMAIN sources : sources[s].amount \in Nat
  <2>1. \A s \in DOMAIN sources : sources[s] \in Source
    BY <1>1, BankAssumption
  <2> QED
    BY <2>1 DEF Source
<1>5. Within(matches)
  BY <1>2, <1>3, <1>4 DEF Within
<1>6. \A t \in Txns : ShownAt(status[t], matches, t)
  BY <1>1, <1>2, <1>3 DEF ShownAt, Fully
<1>7. \A w \in Workers : work[w] \in {Idle, Off}
  BY DEF Init
<1>8. Off.pc = "off"
  BY DEF Off, Idle
<1> QED
  BY <1>5, <1>6, <1>7, <1>8, FreshIdle DEF Counted

LEMMA CountNext == Inv /\ CountInv /\ [Next]_vars => CountInv'
<1> SUFFICES ASSUME Inv, CountInv, [Next]_vars, Serial'
             PROVE  Counted' /\ \A x \in Workers : work'[x].pc # "off" => Fresh(work[x])'
  BY DEF CountInv
<1>1. Serial /\ Counted /\ \A x \in Workers : work[x].pc # "off" => Fresh(work[x])
  BY SerialKept DEF CountInv
<1>2. CASE UNCHANGED vars
  <2>1. Counted'
    BY <1>1, <1>2 DEF vars, Counted, Within, ShownAt
  <2>2. ASSUME NEW x \in Workers, work'[x].pc # "off" PROVE Fresh(work[x])'
    <3>1. work' = [work EXCEPT ![x] = work[x]] /\ UNCHANGED Rows /\ Fresh(work[x])
      BY <1>1, <1>2, <2>2 DEF vars, Rows, Inv, TypeOK
    <3> QED
      BY <1>1, <3>1, ReadStep
  <2> QED
    BY <2>1, <2>2
<1>3. ASSUME NEW w \in Workers, Handle(w)
      PROVE  Counted' /\ \A x \in Workers : work'[x].pc # "off" => Fresh(work[x])'
  <2>1. /\ work[w].pc # "off"
        /\ \A x \in Workers \ {w} : work'[x] = work[x]
    <3>1. CASE Commit(w)
      BY <3>1, CommitWork
    <3>2. ASSUME NEW n, Moves(w, n)
          PROVE  work[w].pc # "off" /\ \A x \in Workers \ {w} : work'[x] = work[x]
      BY <3>2 DEF Moves, Inv, TypeOK
    <3>3. CASE UNCHANGED <<work, sessions>>
      <4>1. work[w].pc # "off"
        BY <1>3, <3>3, HandleOn
      <4> QED
        BY <3>3, <4>1
    <3> QED
      BY <1>3, <3>1, <3>2, <3>3, StepShape
  <2>2. \A x \in Workers \ {w} : work'[x].pc = "off"
    BY <1>1, <2>1 DEF Serial
  <2>3. Counted' /\ Fresh(work[w])'
    BY <1>1, <1>3, <2>1, HandleCounts
  <2> QED
    BY <2>2, <2>3
<1> QED
  BY <1>2, <1>3 DEF Next

LEMMA CountInvariant == Spec => [](Inv /\ CountInv)
<1>1. Init => Inv /\ CountInv
  BY InitInv, CountInit
<1>2. Inv /\ CountInv /\ [Next]_vars => Inv' /\ CountInv'
  BY NextInv, CountNext
<1> QED
  BY <1>1, <1>2, PTL DEF Spec

\* With requests one after the other, the active matches never exceed a transaction or a
\* receipt, for any number of matches (BankMatchService.create_manual_match).
THEOREM NothingOverMatched == Spec => []NeverOverMatched
<1>1. CountInv => NeverOverMatched
  BY DEF CountInv, Counted, Within, NeverOverMatched
<1> QED
  BY <1>1, CountInvariant, PTL

\* And the status of a transaction is what its active matches say
\* (sync_bank_transaction_status).
THEOREM StatusAlwaysExplained == Spec => []StatusExplained
<1>1. CountInv => StatusExplained
  BY DEF CountInv, Counted, ShownAt, AllAuto, StatusExplained
<1> QED
  BY <1>1, CountInvariant, PTL

=============================================================================
