--------------------------- MODULE ReturnSnapshots ---------------------------
(***************************************************************************)
(* The review of one return period: versions of each return (GSTR-1 and    *)
(* GSTR-3B, or the TDS forms) are generated from the books, submitted,     *)
(* approved and finalized, and the status of the period follows them.      *)
(*                                                                         *)
(* Workers are requests as in LedgerPosting and Init chooses the crew of   *)
(* them that is on, as there.  Here the order of an UPDATE                 *)
(* and the SELECTs after it matters: the snapshot is updated first, which  *)
(* locks its row until the commit, and the period is read and updated      *)
(* after that.  The books are a counter of the documents committed to      *)
(* them.                                                                   *)
(***************************************************************************)
EXTENDS Integers, Sequences

CONSTANTS
    Tax,            \* "GST" or "TDS"
    Workers,        \* requests in flight at one time
    Types,          \* the return types of the period
    Alone,          \* bound: versions of one return, and documents committed to the books
    Contended       \* bound: the same with several workers

ASSUME ReturnAssumption ==
    /\ Tax \in {"GST", "TDS"}
    /\ Types # {}
    /\ Alone \in [versions : Nat, documents : Nat]
    /\ Contended \in [versions : Nat, documents : Nat]

VARIABLES
    books,      \* documents committed so far
    snapshots,  \* the versions of each return, oldest first
    period,     \* the status of the return period
    work        \* the requests in flight

vars == <<books, snapshots, period, work>>
Rows == <<books, snapshots, period>>

-----------------------------------------------------------------------------
SnapshotStatus == {"DRAFT", "UNDER_REVIEW", "CHANGES_REQUESTED", "APPROVED", "FINALIZED"}
PeriodStatus == {"OPEN", "UNDER_REVIEW", "APPROVED", "FINALIZED"}
Actions == {"submit", "approve", "request_changes", "finalize"}

From ==     \* _TRANSITIONS
    [a \in Actions |-> IF a = "submit" THEN "DRAFT"
                       ELSE IF a = "finalize" THEN "APPROVED" ELSE "UNDER_REVIEW"]
To ==
    [a \in Actions |-> IF a = "submit" THEN "UNDER_REVIEW"
                       ELSE IF a = "approve" THEN "APPROVED"
                       ELSE IF a = "finalize" THEN "FINALIZED" ELSE "CHANGES_REQUESTED"]

\* A version: its status, and the state of the books at the first and at the last
\* SELECT its summary was computed from.
Snapshot == [status : SnapshotStatus, from : Nat, to : Nat]

PCs == {"off", "idle", "summary", "insert", "flush", "period", "latest", "commit"}

Request ==
    [pc : PCs, type : Types, version : Nat, action : Actions, from : Nat, to : Nat,
     seen : PeriodStatus, period : PeriodStatus, todo : SUBSET Types, all : BOOLEAN]

Idle == [pc |-> "idle", type |-> CHOOSE ty \in Types : TRUE, version |-> 0, action |-> "submit",
         from |-> 0, to |-> 0, seen |-> "OPEN", period |-> "OPEN", todo |-> {}, all |-> TRUE]
Off == [Idle EXCEPT !.pc = "off"]      \* a worker outside the crew, for good

\* The crew is a single worker: a request begins when the one before has ended.
Serial == \A v, w \in Workers : work[v].pc # "off" /\ work[w].pc # "off" => v = w
Bound == IF Serial THEN Alone ELSE Contended

Begin(w, r) == work' = [work EXCEPT ![w] = r]
End(w) == work' = [work EXCEPT ![w] = Idle]
Refuse(w) == End(w) /\ UNCHANGED Rows

Latest(ty) == Len(snapshots[ty])

Init ==
    /\ books = 0
    /\ snapshots = [ty \in Types |-> << >>]
    /\ period = "OPEN"
    /\ \E crew \in (SUBSET Workers) \ {{}} :
          work = [w \in Workers |-> IF w \in crew THEN Idle ELSE Off]

-----------------------------------------------------------------------------
\* Any other request commits a document the returns are computed from.
PostDocument(w) ==
    /\ work[w].pc = "idle"
    /\ books < Bound.documents
    /\ books' = books + 1
    /\ UNCHANGED <<snapshots, period, work>>

\* generate: the summary takes several SELECTs ...
GenerateBegin(w, ty) ==
    /\ work[w].pc = "idle"
    /\ Latest(ty) < Bound.versions
    /\ Begin(w, [Idle EXCEPT !.pc = "summary", !.type = ty, !.from = books])
    /\ UNCHANGED Rows

GenerateSummary(w) ==
    /\ work[w].pc = "summary"
    /\ Begin(w, [work[w] EXCEPT !.pc = "insert", !.to = books,
                                !.version = Latest(work[w].type) + 1])
    /\ UNCHANGED Rows

NewSnapshot(r) == [status |-> "DRAFT", from |-> r.from, to |-> r.to]

\* Mutant of GenerateCommit: without the unique index on the version.
GenerateReplace(w) ==
    /\ work[w].pc = "insert"
    /\ LET r == work[w] IN
       snapshots' = [snapshots EXCEPT ![r.type] =
                        IF r.version <= Len(@) THEN [@ EXCEPT ![r.version] = NewSnapshot(r)]
                        ELSE Append(@, NewSnapshot(r))]
    /\ End(w)
    /\ UNCHANGED <<books, period>>

\* ... and the version is inserted, unless its number has been taken meanwhile.
GenerateCommit(w) ==
    /\ work[w].pc = "insert"
    /\ LET r == work[w] IN
       IF r.version <= Latest(r.type)
       THEN Refuse(w)
       ELSE /\ snapshots' = [snapshots EXCEPT ![r.type] = Append(@, NewSnapshot(r))]
            /\ End(w)
            /\ UNCHANGED <<books, period>>

-----------------------------------------------------------------------------
\* Mutant of ReviewLoad: the oldest version is reviewed.
ReviewLoadOldest(w, ty, a) ==
    /\ work[w].pc = "idle"
    /\ Latest(ty) > 0
    /\ snapshots[ty][1].status = From[a]
    /\ Begin(w, [Idle EXCEPT !.pc = "flush", !.type = ty, !.version = 1, !.action = a])
    /\ UNCHANGED Rows

\* Mutant of ReviewLoad: a finalized version can be sent back.
ReviewLoadFinalized(w, ty, a) ==
    /\ work[w].pc = "idle"
    /\ Latest(ty) > 0
    /\ snapshots[ty][Latest(ty)].status \in
          {From[a]} \cup (IF a = "request_changes" THEN {"FINALIZED"} ELSE {})
    /\ Begin(w, [Idle EXCEPT !.pc = "flush", !.type = ty, !.version = Latest(ty), !.action = a])
    /\ UNCHANGED Rows

\* _transition: the latest version is loaded and must be in the status the action
\* starts from.
ReviewLoad(w, ty, a) ==
    /\ work[w].pc = "idle"
    /\ Latest(ty) > 0
    /\ snapshots[ty][Latest(ty)].status = From[a]
    /\ Begin(w, [Idle EXCEPT !.pc = "flush", !.type = ty, !.version = Latest(ty), !.action = a])
    /\ UNCHANGED Rows

\* A request past its UPDATE holds the row.
Holds(x, ty, v) ==
    /\ work[x].pc \in {"period", "latest", "commit"}
    /\ work[x].type = ty /\ work[x].version = v

\* The UPDATE waits for the row and does not look at its status again.
ReviewFlush(w) ==
    /\ work[w].pc = "flush"
    /\ \A x \in Workers \ {w} : ~Holds(x, work[w].type, work[w].version)
    /\ Begin(w, [work[w] EXCEPT !.pc = "period"])
    /\ UNCHANGED Rows

\* Mutant of GstPeriod: the period copies the status of the return.
GstPeriodCopied(now, to, all) ==
    IF to = "FINALIZED" /\ ~all THEN "UNDER_REVIEW" ELSE to

\* What _sync_period_status makes of the period `now`, all returns being finalized or
\* not.
GstPeriod(now, to, all) ==
    IF to = "FINALIZED" THEN (IF all THEN "FINALIZED" ELSE "UNDER_REVIEW")
    ELSE IF now = "OPEN" THEN "UNDER_REVIEW" ELSE now

\* Mutant of TdsPeriod: a request for changes approves the period.
TdsPeriodApproved(now, to) ==
    IF to = "CHANGES_REQUESTED" THEN "APPROVED" ELSE to
TdsPeriod(now, to) ==   \* _PERIOD_STATUS_BY_SNAPSHOT_STATUS
    IF to = "CHANGES_REQUESTED" THEN now ELSE to

ReviewPeriod(w) ==
    /\ work[w].pc = "period"
    /\ LET to == To[work[w].action] IN
       IF Tax = "GST" /\ to = "FINALIZED"
       THEN Begin(w, [work[w] EXCEPT !.pc = "latest", !.seen = period, !.todo = Types])
       ELSE Begin(w, [work[w] EXCEPT !.pc = "commit", !.seen = period,
               !.period = IF Tax = "GST" THEN GstPeriod(period, to, FALSE)
                          ELSE TdsPeriod(period, to)])
    /\ UNCHANGED Rows

\* Whether the latest version of a return is finalized, as the request sees it: its
\* own UPDATE included, those of others only once committed.
LatestFinalized(r, ty) ==
    /\ Latest(ty) > 0
    /\ \/ snapshots[ty][Latest(ty)].status = "FINALIZED" /\ <<ty, Latest(ty)>> # <<r.type, r.version>>
       \/ <<ty, Latest(ty)>> = <<r.type, r.version>>

\* Mutant of ReviewLatest: one finalized return is enough.
ReviewLatestAny(w, ty) ==
    /\ work[w].pc = "latest"
    /\ ty \in work[w].todo
    /\ LET rest == work[w].todo \ {ty}
           all == work[w].all \/ LatestFinalized(work[w], ty) IN
       Begin(w, [work[w] EXCEPT !.todo = rest, !.all = all,
                   !.pc = IF rest = {} THEN "commit" ELSE "latest",
                   !.period = IF rest = {} THEN GstPeriod(work[w].seen, "FINALIZED", all) ELSE @])
    /\ UNCHANGED Rows

ReviewLatest(w, ty) ==
    /\ work[w].pc = "latest"
    /\ ty \in work[w].todo
    /\ LET rest == work[w].todo \ {ty}
           all == work[w].all /\ LatestFinalized(work[w], ty) IN
       Begin(w, [work[w] EXCEPT !.todo = rest, !.all = all,
                   !.pc = IF rest = {} THEN "commit" ELSE "latest",
                   !.period = IF rest = {} THEN GstPeriod(work[w].seen, "FINALIZED", all) ELSE @])
    /\ UNCHANGED Rows

ReviewCommit(w) ==
    /\ work[w].pc = "commit"
    /\ LET r == work[w] IN
       /\ snapshots' = [snapshots EXCEPT ![r.type][r.version].status = To[r.action]]
       /\ period' = IF r.period = r.seen THEN period ELSE r.period
    /\ End(w)
    /\ UNCHANGED books

-----------------------------------------------------------------------------
GenerateStep(w) ==
    \/ \E ty \in Types : GenerateBegin(w, ty)
    \/ GenerateSummary(w) \/ GenerateCommit(w)

ReviewStep(w) ==
    \/ \E ty \in Types, a \in Actions : ReviewLoad(w, ty, a)
    \/ ReviewFlush(w) \/ ReviewPeriod(w)
    \/ \E ty \in Types : ReviewLatest(w, ty)
    \/ ReviewCommit(w)

Next == \E w \in Workers : PostDocument(w) \/ GenerateStep(w) \/ ReviewStep(w)

Spec == Init /\ [][Next]_vars

-----------------------------------------------------------------------------
(* Properties                                                               *)

TypeOK ==
    /\ books \in Nat
    /\ snapshots \in [Types -> Seq(Snapshot)]
    /\ period \in PeriodStatus
    /\ work \in [Workers -> Request]

\* The workflow the docs describe, over every version of every return.  It is claimed
\* of a crew of one: of a larger one the mapping shows no version.
Versions == Types \X (1 .. Alone.versions)
ReviewEdges == {<<"DRAFT", "UNDER_REVIEW">>, <<"UNDER_REVIEW", "APPROVED">>,
                <<"UNDER_REVIEW", "CHANGES_REQUESTED">>, <<"APPROVED", "FINALIZED">>}
VersionStatus == [i \in Versions |->
    IF Serial /\ i[2] <= Latest(i[1]) THEN snapshots[i[1]][i[2]].status ELSE "NONE"]

Review == INSTANCE StatusWorkflow
    WITH Items <- Versions, Start <- "DRAFT", Edges <- ReviewEdges, status <- VersionStatus

\* Each version goes through the documented review, step by step, and a finalized one
\* stays finalized.  Needs serialised requests.
ImplementsReview == Review!Spec

\* Only the latest version of a return is ever reviewed; what it replaces keeps the
\* status it had.  Needs serialised requests.
OnlyLatestReviewed ==
    [][Serial => \A ty \in Types : \A v \in 1 .. Len(snapshots[ty]) :
          snapshots'[ty][v] # snapshots[ty][v] => v = Len(snapshots'[ty])]_vars

\* A GST period is FINALIZED once the latest version of every return is, and only if
\* every return has been finalized.  Needs serialised requests.
PeriodFinalizedWithReturns == Serial =>
    /\ (\A ty \in Types : Latest(ty) > 0 /\ snapshots[ty][Latest(ty)].status = "FINALIZED")
          => period = "FINALIZED"
    /\ period = "FINALIZED" =>
          \A ty \in Types : \E v \in 1 .. Latest(ty) : snapshots[ty][v].status = "FINALIZED"

\* A TDS period is in the status of some version of its returns; a version sent back
\* leaves it under review.  Needs serialised requests.
PeriodFollowsReview ==
    Serial /\ period # "OPEN" =>
        \E ty \in Types : \E v \in 1 .. Latest(ty) :
            \/ snapshots[ty][v].status = period
            \/ snapshots[ty][v].status = "CHANGES_REQUESTED" /\ period = "UNDER_REVIEW"

\* No version is replaced and no summary changes once generated, however requests
\* interleave: what a reviewer approved is what was generated.
SummariesFrozen ==
    [][\A ty \in Types : \A v \in 1 .. Len(snapshots[ty]) :
          /\ v <= Len(snapshots'[ty])
          /\ snapshots'[ty][v].from = snapshots[ty][v].from
          /\ snapshots'[ty][v].to = snapshots[ty][v].to
          /\ snapshots'[ty][v].status # "DRAFT" \/ snapshots[ty][v].status = "DRAFT"]_vars

\* However requests interleave, a period that is not OPEN has a return that was
\* submitted, and a FINALIZED GST period has none that was not.
PeriodHasReview ==
    LET Submitted(ty) == \E v \in 1 .. Latest(ty) : snapshots[ty][v].status # "DRAFT" IN
    /\ period # "OPEN" => \E ty \in Types : Submitted(ty)
    /\ Tax = "GST" /\ period = "FINALIZED" => \A ty \in Types : Submitted(ty)

\* What the README says of finalizing: one-way, no code path can transition it further.
\* No run checks it: two overlapping reviews of one version violate it.
FinalizedImmutable ==
    [][\A ty \in Types : \A v \in 1 .. Len(snapshots[ty]) :
          snapshots[ty][v].status = "FINALIZED" => snapshots'[ty][v].status = "FINALIZED"]_vars

\* What the README says of the GST period: it is UNDER_REVIEW until both returns are
\* finalized.  No run checks it: two overlapping finalize requests violate it.
PeriodReachesFinalized ==
    (\A ty \in Types : Latest(ty) > 0 /\ snapshots[ty][Latest(ty)].status = "FINALIZED")
        => period = "FINALIZED"

=============================================================================
