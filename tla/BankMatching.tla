----------------------------- MODULE BankMatching -----------------------------
(***************************************************************************)
(* One bank account: the transactions of its statements, the receipts and  *)
(* journal entries they are matched with, and the reconciliation sessions  *)
(* of one period.  A match claims part of a transaction for part of an     *)
(* accounting record; it is made by hand, by a run of the matching engine  *)
(* or by an adjustment, and is never deleted.                              *)
(*                                                                         *)
(* The transactions are money in; payments mirror receipts.  Workers are   *)
(* requests and Init chooses the crew of them that is on, as in            *)
(* LedgerPosting.  A request reads, keeps what it will write, and writes   *)
(* at its commit only the columns it changed from the value it had loaded. *)
(***************************************************************************)
EXTENDS Integers, Sequences, Sums

CONSTANTS
    Workers,        \* requests in flight at one time
    Txns,           \* the bank transactions of the period
    Amount,         \* what each of them moved
    Opening,        \* the accounting records there are when the period's statement comes in
    Alone,          \* bound: the operations, transactions and amounts of a match tried,
                    \* and the numbers of records, matches and sessions
    Contended       \* bound: the same with several workers

\* A receipt is posted when it is recorded, with a journal entry of its own; a journal entry
\* of other origin may be in draft.
Source == [kind : {"RECEIPT", "JOURNAL_ENTRY"}, amount : Nat \ {0}, posted : BOOLEAN]
Operations == {"post_journal", "match", "adjust", "reverse", "set_aside", "start",
               "run_matching", "review"}
Bounds == [operations : [Workers -> SUBSET Operations], txns : SUBSET Txns, amounts : SUBSET (Nat \ {0}),
           sources : Nat, matches : Nat, sessions : Nat]

ASSUME BankAssumption ==
    /\ Amount \in [Txns -> Nat \ {0}]
    /\ Opening \in Seq(Source)
    /\ Alone \in Bounds
    /\ Contended \in Bounds

VARIABLES
    status,     \* reconciliation_status of each transaction
    sources,    \* the accounting records: receipts, and journal entries that are not theirs
    matches,    \* the claims, in the order they were made
    sessions,   \* the reconciliation sessions of the period
    work        \* the requests in flight

vars == <<status, sources, matches, sessions, work>>
Rows == <<status, sources, matches, sessions>>

-----------------------------------------------------------------------------
TxnStatus == {"UNMATCHED", "MATCH_SUGGESTED", "PARTIALLY_MATCHED", "MATCHED",
              "MANUALLY_MATCHED", "EXCLUDED", "REVIEW_REQUIRED"}
Fully == {"MATCHED", "MANUALLY_MATCHED"}
Unclaimable == Fully \cup {"EXCLUDED"}      \* _UNCLAIMABLE_BANK_STATUSES
ExcludableFrom == {"UNMATCHED", "MATCH_SUGGESTED", "REVIEW_REQUIRED"}
Listed == ExcludableFrom \cup {"PARTIALLY_MATCHED"}    \* list_unmatched_for_account

\* source is 0 while the adjustment's journal entry has no row yet.
Match == [txn : Txns, source : Nat, amount : Nat \ {0},
          type : {"AUTO", "MANUAL", "ADJUSTMENT"}, active : BOOLEAN]

SessionStatus == {"OPEN", "IN_PROGRESS", "PENDING_REVIEW", "RECONCILED", "LOCKED", "CANCELLED"}

\* A book balance is kept as what it adds up: the records whose journal lines on the bank's
\* ledger it counts, and the receipts it counts.
Book == [lines : SUBSET Nat, receipts : SUBSET Nat]
NoBook == [lines |-> {}, receipts |-> {}]
Session == [status : SessionStatus, book : Book]

\* Mutant of Transitions: a reconciled session can be matched again.
TransitionsRerun ==
    {<<"OPEN", "run_matching", "IN_PROGRESS">>, <<"IN_PROGRESS", "run_matching", "IN_PROGRESS">>,
     <<"RECONCILED", "run_matching", "IN_PROGRESS">>,
     <<"IN_PROGRESS", "submit", "PENDING_REVIEW">>, <<"PENDING_REVIEW", "approve", "RECONCILED">>,
     <<"PENDING_REVIEW", "reject", "IN_PROGRESS">>, <<"RECONCILED", "lock", "LOCKED">>,
     <<"OPEN", "cancel", "CANCELLED">>, <<"IN_PROGRESS", "cancel", "CANCELLED">>}

\* _TRANSITIONS
Transitions ==
    {<<"OPEN", "run_matching", "IN_PROGRESS">>, <<"IN_PROGRESS", "run_matching", "IN_PROGRESS">>,
     <<"IN_PROGRESS", "submit", "PENDING_REVIEW">>, <<"PENDING_REVIEW", "approve", "RECONCILED">>,
     <<"PENDING_REVIEW", "reject", "IN_PROGRESS">>, <<"RECONCILED", "lock", "LOCKED">>,
     <<"OPEN", "cancel", "CANCELLED">>, <<"IN_PROGRESS", "cancel", "CANCELLED">>}

\* What a request holds: the rows it will insert, and each column it loaded with the
\* value it will write there.
Request ==
    [pc : {"off", "idle", "sync", "undo", "find", "commit"},
     todo : SUBSET Txns, seen : [Txns -> TxnStatus], new : [Txns -> TxnStatus],
     made : Seq(Match), undone : Nat, journal : Nat,
     opens : BOOLEAN, session : Nat, from : SessionStatus, to : SessionStatus,
     was : Book, book : Book]

Idle == LET none == [t \in Txns |-> "UNMATCHED"] IN
    [pc |-> "idle", todo |-> {}, seen |-> none, new |-> none,
     made |-> << >>, undone |-> 0, journal |-> 0,
     opens |-> FALSE, session |-> 0, from |-> "OPEN", to |-> "OPEN",
     was |-> NoBook, book |-> NoBook]
Off == [Idle EXCEPT !.pc = "off"]

Serial == \A v, w \in Workers : work[v].pc # "off" /\ work[w].pc # "off" => v = w
Bound == IF Serial THEN Alone ELSE Contended

Begin(w, r) == work' = [work EXCEPT ![w] = r]
Refuse(w) == Begin(w, Idle) /\ UNCHANGED Rows

Init ==
    /\ status = [t \in Txns |-> "UNMATCHED"]
    /\ sources = Opening
    /\ matches = << >>
    /\ sessions = << >>
    /\ \E crew \in (SUBSET Workers) \ {{}} :
          work = [w \in Workers |-> IF w \in crew THEN Idle ELSE Off]

-----------------------------------------------------------------------------
\* The sums of the active matches ms of a transaction, and of a record.
OnTxn(ms, t) ==
    SumOver([i \in DOMAIN ms |-> ms[i].amount], {i \in DOMAIN ms : ms[i].active /\ ms[i].txn = t})
OnSource(ms, s) ==
    SumOver([i \in DOMAIN ms |-> ms[i].amount], {i \in DOMAIN ms : ms[i].active /\ ms[i].source = s})

NewMatch(t, s, a, type) ==
    [txn |-> t, source |-> s, amount |-> a, type |-> type, active |-> TRUE]

\* The matches with those a request reversed, and with those it made.
Undone(r) == [i \in DOMAIN matches |->
                 IF i = r.undone THEN [matches[i] EXCEPT !.active = FALSE] ELSE matches[i]]
Visible(r) == Undone(r) \o r.made

\* Mutant of Fits: the balance of the record is not checked.
FitsTxn(ms, t, s, a) ==
    /\ OnTxn(ms, t) \in 0 .. (Amount[t] - a)
    /\ sources[s].posted

\* create_manual_match: a match fits into what is left of both sides.  A journal entry has
\* no amount of its own to exceed.
Fits(ms, t, s, a) ==
    /\ OnTxn(ms, t) \in 0 .. (Amount[t] - a)
    /\ sources[s].posted
    /\ sources[s].kind = "RECEIPT" => OnSource(ms, s) \in 0 .. (sources[s].amount - a)

\* Mutant of StatusFor: a transaction is full only when its matches exceed it.
StatusForExceeded(ms, t) ==
    LET total == OnTxn(ms, t)
        auto == \A i \in DOMAIN ms : ms[i].active /\ ms[i].txn = t => ms[i].type = "AUTO"
    IN  IF total > Amount[t] THEN IF auto THEN "MATCHED" ELSE "MANUALLY_MATCHED"
        ELSE IF total > 0 THEN "PARTIALLY_MATCHED" ELSE "UNMATCHED"

\* sync_bank_transaction_status
StatusFor(ms, t) ==
    LET total == OnTxn(ms, t)
        auto == \A i \in DOMAIN ms : ms[i].active /\ ms[i].txn = t => ms[i].type = "AUTO"
    IN  IF total >= Amount[t] THEN IF auto THEN "MATCHED" ELSE "MANUALLY_MATCHED"
        ELSE IF total > 0 THEN "PARTIALLY_MATCHED" ELSE "UNMATCHED"

-----------------------------------------------------------------------------
\* JournalEntryService.post: a journal entry in draft comes to count.
PostJournal(s) ==
    /\ ~sources[s].posted
    /\ sources' = [sources EXCEPT ![s].posted = TRUE]
    /\ UNCHANGED <<status, matches, sessions, work>>

\* create_manual_match: the checks, then the insert and the transaction's new status.
MatchLoad(w, t, s, a) ==
    /\ Len(matches) < Bound.matches
    /\ status[t] \notin Unclaimable
    /\ Fits(matches, t, s, a)
    /\ Begin(w, [Idle EXCEPT !.pc = "sync", !.todo = {t}, !.seen = status, !.new = status,
                             !.made = <<NewMatch(t, s, a, "MANUAL")>>])
    /\ UNCHANGED Rows

Synced(old, ms, T) == [t \in Txns |-> IF t \in T THEN StatusFor(ms, t) ELSE old[t]]

Sync(w) ==
    /\ work[w].pc = "sync"
    /\ LET r == work[w] IN
       Begin(w, [r EXCEPT !.pc = "commit", !.new = Synced(r.new, Visible(r), r.todo)])
    /\ UNCHANGED Rows

\* create_adjustment: a journal entry of what is left of the transaction, whatever its
\* status, posted and matched with it.
AdjustLoad(w, t) ==
    /\ Len(matches) < Bound.matches
    /\ Len(sources) < Bound.sources
    /\ LET remaining == Amount[t] - OnTxn(matches, t) IN
       /\ remaining \in 1 .. Amount[t]
       /\ Begin(w, [Idle EXCEPT !.pc = "sync", !.todo = {t}, !.seen = status, !.new = status,
                                !.journal = remaining,
                                !.made = <<NewMatch(t, 0, remaining, "ADJUSTMENT")>>])
    /\ UNCHANGED Rows

\* reverse: the match is reversed before its transaction is loaded.
ReverseLoad(w, m) ==
    /\ matches[m].active
    /\ Begin(w, [Idle EXCEPT !.pc = "undo", !.todo = {matches[m].txn}, !.undone = m])
    /\ UNCHANGED Rows

ReverseSync(w) ==
    /\ work[w].pc = "undo"
    /\ LET r == work[w] IN
       Begin(w, [r EXCEPT !.pc = "commit", !.seen = status,
                          !.new = Synced(status, Visible(r), r.todo)])
    /\ UNCHANGED Rows

\* exclude and mark_review_required
SetAside(w, t, s) ==
    /\ status[t] \in ExcludableFrom
    /\ Begin(w, [Idle EXCEPT !.pc = "commit", !.seen = status, !.new = [status EXCEPT ![t] = s]])
    /\ UNCHANGED Rows

-----------------------------------------------------------------------------
\* start: every session of the period there is was cancelled or locked.
StartSession(w) ==
    /\ Len(sessions) < Bound.sessions
    /\ \A n \in DOMAIN sessions : sessions[n].status \in {"CANCELLED", "LOCKED"}
    /\ Begin(w, [Idle EXCEPT !.pc = "commit", !.opens = TRUE])
    /\ UNCHANGED Rows

\* submit, approve, reject, lock and cancel
Review(w, n, e) ==
    /\ e[1] = sessions[n].status
    /\ e[2] # "run_matching"
    /\ Begin(w, [Idle EXCEPT !.pc = "commit", !.session = n, !.from = e[1], !.to = e[3]])
    /\ UNCHANGED Rows

\* run_matching moves the session, lists the open transactions ...
RunLoad(w, n, e) ==
    /\ e[1] = sessions[n].status
    /\ e[2] = "run_matching"
    /\ Begin(w, [Idle EXCEPT !.pc = "find", !.session = n, !.from = e[1], !.to = e[3],
                             !.was = sessions[n].book, !.seen = status, !.new = status,
                             !.todo = {t \in Bound.txns : status[t] \in Listed}])
    /\ UNCHANGED Rows

\* Mutant of Candidates: any larger record will do.
CandidatesLarger(ms, t) ==
    {s \in DOMAIN sources : /\ sources[s].posted
                            /\ sources[s].amount >= Amount[t]
                            /\ OnSource(ms, s) = 0}

\* find_candidates: posted records of exactly the transaction's amount, unclaimed.
Candidates(ms, t) ==
    {s \in DOMAIN sources : /\ sources[s].posted
                            /\ sources[s].amount = Amount[t]
                            /\ OnSource(ms, s) = 0}

\* ... decides for each what its candidates say.  How many of them lie in the date window
\* and how they score is left open, but a journal entry has no reference and no
\* counterparty and scores 60 at most, below MATCH_SUGGESTED_THRESHOLD ...
Found(w, t, s) ==
    LET r == work[w] IN
    /\ r.pc = "find"
    /\ t \in r.todo
    /\ Begin(w, [r EXCEPT !.todo = @ \ {t}, !.new[t] = s])
    /\ UNCHANGED Rows

FoundNone(w, t) == Found(w, t, "UNMATCHED")
FoundWeak(w, t) == Candidates(Visible(work[w]), t) # {} /\ Found(w, t, "REVIEW_REQUIRED")

Receipts(ms, t) == {s \in Candidates(ms, t) : sources[s].kind = "RECEIPT"}
FoundLead(w, t) == Receipts(Visible(work[w]), t) # {} /\ Found(w, t, "MATCH_SUGGESTED")

\* ... and a strong candidate is matched as by hand: when the transaction has matches
\* already that is refused, and the whole run with it.
FoundStrong(w, t) ==
    LET r == work[w]
        ms == Visible(r)
    IN  /\ r.pc = "find"
        /\ t \in r.todo
        /\ Len(ms) < Bound.matches
        /\ \E s \in Receipts(ms, t) :
              IF Fits(ms, t, s, Amount[t])
              THEN LET made == Append(r.made, NewMatch(t, s, Amount[t], "AUTO")) IN
                   /\ Begin(w, [r EXCEPT !.todo = @ \ {t}, !.made = made,
                                         !.new[t] = StatusFor(Undone(r) \o made, t)])
                   /\ UNCHANGED Rows
              ELSE Refuse(w)

\* _compute_book_balance: the posted journal lines of the bank's ledger, one of which every
\* receipt has too (InvoicePostingService.post_receipt), and the posted receipts.
Posted == {s \in DOMAIN sources : sources[s].posted}
BookNow == [lines |-> Posted, receipts |-> {s \in Posted : sources[s].kind = "RECEIPT"}]

RunEnd(w) ==
    /\ work[w].pc = "find"
    /\ work[w].todo = {}
    /\ Begin(w, [work[w] EXCEPT !.pc = "commit", !.book = BookNow])
    /\ UNCHANGED Rows

-----------------------------------------------------------------------------
\* Mutant of Placed: the match is inserted before its journal entry.
PlacedEarly(r) == r.made

\* The new rows, an adjustment's match with the journal entry just inserted.
Placed(r) == [i \in DOMAIN r.made |->
                 IF r.made[i].source = 0 THEN [r.made[i] EXCEPT !.source = Len(sources) + 1]
                 ELSE r.made[i]]

\* Mutant of Matches: a reversed match is deleted.
MatchesDeleted(r) ==
    IF r.undone = 0 THEN matches \o Placed(r)
    ELSE SubSeq(matches, 1, r.undone - 1) \o SubSeq(matches, r.undone + 1, Len(matches))

Matches(r) == Undone(r) \o Placed(r)

\* Only what changed is written: an UPDATE by primary key of the dirty columns.
Changed(old, new, current) == IF new # old THEN new ELSE current

Commit(w) ==
    LET r == work[w] IN
    /\ r.pc = "commit"
    /\ status' = [t \in Txns |-> Changed(r.seen[t], r.new[t], status[t])]
    /\ matches' = Matches(r)
    /\ sources' = IF r.journal = 0 THEN sources
                  ELSE Append(sources, [kind |-> "JOURNAL_ENTRY", amount |-> r.journal,
                                        posted |-> TRUE])
    /\ sessions' = IF r.opens THEN Append(sessions, [status |-> "OPEN", book |-> NoBook])
                   ELSE IF r.session = 0 THEN sessions
                   ELSE [sessions EXCEPT ![r.session] =
                            [status |-> Changed(r.from, r.to, @.status),
                             book |-> Changed(r.was, r.book, @.book)]]
    /\ Begin(w, Idle)

Try(w, operation) == work[w].pc = "idle" /\ operation \in Bound.operations[w]

Handle(w) ==
    \/ /\ Try(w, "post_journal")
       /\ \E s \in DOMAIN sources : PostJournal(s)
    \/ /\ Try(w, "match")
       /\ \E t \in Bound.txns, s \in DOMAIN sources, a \in Bound.amounts : MatchLoad(w, t, s, a)
    \/ /\ Try(w, "adjust")
       /\ \E t \in Bound.txns : AdjustLoad(w, t)
    \/ Sync(w)
    \/ /\ Try(w, "reverse")
       /\ \E m \in DOMAIN matches : ReverseLoad(w, m)
    \/ ReverseSync(w)
    \/ /\ Try(w, "set_aside")
       /\ \E t \in Bound.txns, s \in {"EXCLUDED", "REVIEW_REQUIRED"} : SetAside(w, t, s)
    \/ /\ Try(w, "start")
       /\ StartSession(w)
    \/ /\ Try(w, "review")
       /\ \E n \in DOMAIN sessions, e \in Transitions : Review(w, n, e)
    \/ /\ Try(w, "run_matching")
       /\ \E n \in DOMAIN sessions, e \in Transitions : RunLoad(w, n, e)
    \/ \E t \in Bound.txns : FoundNone(w, t) \/ FoundWeak(w, t) \/ FoundLead(w, t) \/ FoundStrong(w, t)
    \/ RunEnd(w)
    \/ Commit(w)

Next == \E w \in Workers : Handle(w)

Spec == Init /\ [][Next]_vars

-----------------------------------------------------------------------------
\* The rows are of their types, and a match names a record there is (bank_transaction_match.py).
TypeOK ==
    /\ status \in [Txns -> TxnStatus]
    /\ sources \in Seq(Source)
    /\ matches \in Seq(Match)
    /\ \A m \in DOMAIN matches : matches[m].source \in DOMAIN sources
    /\ sessions \in Seq(Session)
    /\ work \in [Workers -> Request]

\* The active matches of a transaction never exceed it, nor those of a receipt the
\* receipt, when requests follow one another (BankMatchService.create_manual_match).
NeverOverMatched ==
    Serial => /\ \A t \in Txns : OnTxn(matches, t) <= Amount[t]
              /\ \A s \in DOMAIN sources :
                    sources[s].kind = "RECEIPT" => OnSource(matches, s) <= sources[s].amount

\* A transaction is shown as fully matched exactly when its active matches add up to it,
\* as MATCHED exactly when the engine alone made them, and as partially matched only when
\* they do not (sync_bank_transaction_status, across runs, exclusions and adjustments).
StatusExplained ==
    Serial => \A t \in Txns :
        /\ status[t] \in Fully <=> OnTxn(matches, t) = Amount[t]
        /\ status[t] \in Fully =>
              (status[t] = "MATCHED" <=>
                 \A m \in DOMAIN matches :
                     matches[m].active /\ matches[m].txn = t => matches[m].type = "AUTO")
        /\ status[t] = "PARTIALLY_MATCHED" => OnTxn(matches, t) \in 1..(Amount[t] - 1)

\* However requests overlap, one match alone fits into both of its sides, and what the
\* engine matches is a receipt of exactly the transaction's amount.
MatchFits ==
    \A m \in DOMAIN matches : LET x == matches[m] IN
        /\ x.amount <= Amount[x.txn]
        /\ sources[x.source].kind = "RECEIPT" => x.amount <= sources[x.source].amount
        /\ x.type = "AUTO" => /\ sources[x.source].kind = "RECEIPT"
                              /\ x.amount = Amount[x.txn]
                              /\ x.amount = sources[x.source].amount

\* However requests overlap, the history of matches is permanent: a match is at most
\* reversed, never changed, deleted or made active again (README: "never deleted, so match
\* history is permanent").
MatchesPermanent ==
    [][/\ Len(matches') >= Len(matches)
       /\ \A m \in DOMAIN matches :
             \/ matches'[m] = matches[m]
             \/ matches'[m] = [matches[m] EXCEPT !.active = FALSE]]_vars

\* The figures a session is reviewed with do not change from its submission on
\* (BankReconciliation: they are snapshotted, so that a reviewer's screen does not change).
FiguresFrozen ==
    [][Serial => \A n \in DOMAIN sessions :
          sessions[n].status \in {"PENDING_REVIEW", "RECONCILED", "LOCKED"} =>
             sessions'[n].book = sessions[n].book]_vars

\* The sessions as their reviewers see them, when requests follow one another.
SessionShown ==
    [n \in 1..Alone.sessions |->
        IF Serial /\ n \in DOMAIN sessions THEN sessions[n].status ELSE "NONE"]

ReviewEdges ==
    {<<"OPEN", "IN_PROGRESS">>, <<"IN_PROGRESS", "PENDING_REVIEW">>,
     <<"PENDING_REVIEW", "RECONCILED">>, <<"PENDING_REVIEW", "IN_PROGRESS">>,
     <<"RECONCILED", "LOCKED">>, <<"OPEN", "CANCELLED">>, <<"IN_PROGRESS", "CANCELLED">>}

SessionReview == INSTANCE StatusWorkflow
    WITH Items <- 1..Alone.sessions, Start <- "OPEN", Edges <- ReviewEdges, status <- SessionShown

\* A session goes through the documented review only: OPEN -> IN_PROGRESS -> PENDING_REVIEW ->
\* RECONCILED -> LOCKED, back from review, and CANCELLED early (bank_reconciliation_service.py).
ImplementsReview == SessionReview!Spec

\* What bank_transaction_service.py:14-17 says: while a match is active the transaction is
\* not shown as open, under review or excluded.  No run checks it: a run of the engine over a
\* partially matched transaction violates it.
StatusAgrees ==
    \A t \in Txns :
        status[t] \in {"UNMATCHED", "MATCH_SUGGESTED", "REVIEW_REQUIRED", "EXCLUDED"} =>
            OnTxn(matches, t) = 0

\* What bank_reconciliation_service.py:4-5 says: the book balance a session is given is the
\* balance of the bank's ledger, the sum of its posted lines.
Total(S) == SumOver([s \in DOMAIN sources |-> sources[s].amount], S)
BookIsLedger ==
    [][\A n \in DOMAIN sessions : LET book == sessions'[n].book IN
          book # sessions[n].book => Total(book.lines) + Total(book.receipts) = Total(Posted)]_vars

=============================================================================
