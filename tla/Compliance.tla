------------------------------ MODULE Compliance ------------------------------
(* Compliance obligations, and the sweep that marks obligations and tasks     *)
(* overdue (app/services/compliance_obligation_service.py and                 *)
(* compliance_scheduler.py): the whole compliance desk, with its tasks        *)
(* (ComplianceTasks) and the readiness checks (ComplianceReadiness).          *)
EXTENDS ComplianceTasks, ComplianceReadiness

CONSTANTS Keys,      \* natural keys: code, financial year and period
          OpenKeys,  \* those with a NULL part, which the unique index lets repeat
          Nature     \* what the readiness of an obligation depends on, by key

ASSUME KeyAssumption ==
  /\ OpenKeys \subseteq Keys /\ DOMAIN Nature = Keys
  /\ \A s \in Scenes : s.keys \subseteq Keys /\ s.names \subseteq BOOLEAN

VARIABLES obligation, \* compliance_obligations, by id, or None
          books       \* what the tables of the other modules say

deskVars == <<scene, today, task, inbox, worker, restarted>>
vars     == <<deskVars, obligation, books>>

Closed == {"COMPLETED", "FULFILLED"}
ObligationStatus ==
  Closed \cup {"DRAFT", "ACTIVE", "ASSIGNED", "IN_PROGRESS", "READY_FOR_REVIEW", "UNDER_REVIEW",
               "APPROVED", "REJECTED", "BLOCKED", "OVERDUE", "CANCELLED", "REOPENED"}

(* A row of compliance_obligations.  Of its name only the length counts: a    *)
(* long one fills its own column so far (247 to 255 characters) that          *)
(* "OVERDUE: " and the name, as every title that names an obligation, do not  *)
(* fit the title of a notice, and PostgreSQL refuses the INSERT.              *)
ObligationRow ==
  [key : Keys, long : BOOLEAN, status : ObligationStatus, assignee : Users \cup {None}, reviewer : Users \cup {None},
   due : Days, active : BOOLEAN,
   readiness : {"READY", "READY_WITH_WARNINGS", "MISSING_DATA", "BLOCKED"}]
ASSUME ObligationRowAssumption == None \notin ObligationRow

AskedFor(w, op) == w \in scene.crew /\ op \in scene.obligationOps /\ Free(w)
Kept(o)         == obligation[o] # None
Keyed(k)        == {o \in Obligations : Kept(o) /\ obligation[o].key = k}

(* _OBLIGATION_TRANSITIONS, for the actions the API offers: from where, and   *)
(* to where.  A reassignment keeps the status.                                *)
From ==
  [submit_review |-> {"DRAFT", "ACTIVE", "ASSIGNED", "IN_PROGRESS", "READY_FOR_REVIEW", "REJECTED",
                      "REOPENED", "OVERDUE"},
   approve  |-> {"READY_FOR_REVIEW", "UNDER_REVIEW"},
   reject   |-> {"READY_FOR_REVIEW", "UNDER_REVIEW"},
   complete |-> {"DRAFT", "ACTIVE", "ASSIGNED", "IN_PROGRESS", "APPROVED", "REOPENED", "OVERDUE"},
   reopen   |-> {"APPROVED", "COMPLETED", "FULFILLED"},
   assign   |-> {"DRAFT", "ACTIVE", "REOPENED"}]
To ==
  [submit_review |-> "READY_FOR_REVIEW", approve |-> "APPROVED", reject |-> "REJECTED",
   complete |-> "COMPLETED", reopen |-> "REOPENED", assign |-> "ASSIGNED"]

Moves     == {"approve", "reject", "reopen"}
Evaluated == {"submit_review", "complete", "run_readiness"}

-------------------------------------------------------------------------------
(* New obligations.                                                           *)

MutantLookUp(w) ==
  \E op \in {"create", "generate"}, k \in scene.keys :
    /\ AskedFor(w, op)
    /\ worker' = [worker EXCEPT ![w] = [Idle EXCEPT !.pc = "new", !.op = op, !.id = k]]
    /\ UNCHANGED <<scene, today, task, inbox, restarted, obligation, books>>

(* get_by_natural_key finds no row; with one, create is refused and           *)
(* generate_from_rule returns it; with two, the query raises.                 *)
LookUp(w) ==
  \E op \in {"create", "generate"}, k \in scene.keys :
    /\ AskedFor(w, op) /\ Keyed(k) = {}
    /\ worker' = [worker EXCEPT ![w] = [Idle EXCEPT !.pc = "new", !.op = op, !.id = k]]
    /\ UNCHANGED <<scene, today, task, inbox, restarted, obligation, books>>

(* A manual obligation is DRAFT, ASSIGNED when it has an assignee, BLOCKED    *)
(* when its readiness is; one made from a rule is ACTIVE and nobody's.        *)
NewObligation(key, long, op, ready, assignee, reviewer, due) ==
  [key |-> key, long |-> long, assignee |-> assignee, reviewer |-> reviewer, due |-> due, active |-> TRUE,
   readiness |-> ready,
   status |-> IF op = "generate" THEN "ACTIVE"
              ELSE IF ready = "BLOCKED" THEN "BLOCKED"
              ELSE IF assignee = None THEN "DRAFT" ELSE "ASSIGNED"]

(* The index refuses a second row with a complete key; a readiness that       *)
(* raises, or a notice to the assignee that does not fit, rolls it all back.  *)
InsertObligation(w) ==
  LET q == worker[w] IN
  /\ q.pc = "new"
  /\ q.id \notin OpenKeys => Keyed(q.id) = {}
  /\ Evaluable(Nature[q.id], books)
  /\ \E o \in Obligations \cap scene.ids, long \in scene.names,
       a \in Assignees \cup {None}, r \in Reviewers \cup {None}, d \in Days :
       /\ obligation[o] = None
       /\ q.op = "generate" => a = None /\ r = None
       /\ long => a = None
       /\ obligation' = [obligation EXCEPT ![o] =
            NewObligation(q.id, long, q.op, Readiness(Nature[q.id], books), a, r, d)]
  /\ worker' = [worker EXCEPT ![w] = Idle]
  /\ UNCHANGED <<scene, today, task, inbox, restarted, books>>

-------------------------------------------------------------------------------
(* Requests about an obligation.                                              *)

MutantPermitted(op, row) ==
  IF op \in Moves \cup {"submit_review", "complete"} THEN row.status \in From[op] ELSE TRUE

(* What the check of an operation asks of the loaded row.                     *)
Permitted(op, row) ==
  IF op \in {"update", "generate_task"} THEN row.status \notin Closed
  ELSE IF op \in Moves \cup {"submit_review", "complete"} THEN row.status \in From[op]
  ELSE TRUE

(* A PATCH sets any of these columns, the status included, and a null it is   *)
(* given takes the person away.  Bound: one at a time, of the scene's.        *)
Columns == {"status", "due", "active", "name", "assignee", "reviewer"}
PatchArgs ==
  [column : {"status"}, value : ObligationStatus] \cup [column : {"due"}, value : Days]
    \cup [column : {"active"}, value : BOOLEAN] \cup [column : {"name"}, value : scene.names]
    \cup [column : {"assignee"}, value : Assignees \cup {None}]
    \cup [column : {"reviewer"}, value : Reviewers \cup {None}]
ObligationArgs(op) ==
  IF op = "update" THEN {args \in PatchArgs : args.column \in scene.columns}
  ELSE IF op = "assign" THEN [assignee : Assignees \cup {None}, reviewer : Reviewers \cup {None}]
  ELSE {None}

LoadObligation(w) ==
  \E op \in Moves \cup Evaluated \cup {"update", "assign", "generate_task"},
     o \in Obligations \cap scene.ids :
    /\ AskedFor(w, op) /\ Kept(o) /\ Permitted(op, obligation[o])
    /\ \E args \in ObligationArgs(op) :
         worker' = [worker EXCEPT ![w] =
           [Idle EXCEPT !.pc = IF op \in Evaluated THEN "evaluating" ELSE "obligation",
                        !.op = op, !.id = o, !.args = args, !.seen = obligation[o]]]
    /\ UNCHANGED <<scene, today, task, inbox, restarted, obligation, books>>

(* The readiness is evaluated between the load and the write; a blocked       *)
(* submission or completion is refused, and rolled back, as is a request      *)
(* whose evaluation raises.                                                   *)
Evaluate(w) ==
  LET q == worker[w]
      ready == Readiness(Nature[q.seen.key], books) IN
  /\ q.pc = "evaluating"
  /\ worker' = [worker EXCEPT ![w] =
       IF ~Evaluable(Nature[q.seen.key], books) \/ (ready = "BLOCKED" /\ q.op # "run_readiness")
       THEN Idle
       ELSE [q EXCEPT !.pc = "obligation", !.args = ready]]
  /\ UNCHANGED <<scene, today, task, inbox, restarted, obligation, books>>

MutantAfterReadiness(seen, ready) ==
  IF ready = "BLOCKED" \/ seen.status # "BLOCKED" THEN seen.status ELSE ready

(* run_readiness blocks an obligation that is not closed, and frees one.      *)
AfterReadiness(seen, ready) ==
  IF ready = "BLOCKED" THEN IF seen.status \in Closed THEN seen.status ELSE "BLOCKED"
  ELSE IF seen.status # "BLOCKED" THEN seen.status
  ELSE IF seen.assignee = None THEN "IN_PROGRESS" ELSE "ASSIGNED"

(* The commit of an operation that computed the status to from the row it     *)
(* loaded: only columns that differ from the loaded ones are written.         *)
Dirty(value, seen, now) == IF value = seen THEN now ELSE value

Serving(w, op) == worker[w].pc = "obligation" /\ worker[w].op = op
MovedTo(w, to) ==
  [obligation[worker[w].id] EXCEPT !.status = Dirty(to, worker[w].seen.status, @)]
Assessed(w, row) ==
  [row EXCEPT !.readiness = Dirty(worker[w].args, worker[w].seen.readiness, @)]
Write(w, row) ==
  /\ obligation' = [obligation EXCEPT ![worker[w].id] = row]
  /\ worker' = [worker EXCEPT ![w] = Idle]
  /\ UNCHANGED <<scene, today, task, inbox, restarted, books>>

(* These tell somebody who is not the one who asks: with a long name the      *)
(* request fails (Abandon) unless there is nobody else to tell.               *)
SubmitReview(w) == Serving(w, "submit_review") /\ Write(w, Assessed(w, MovedTo(w, To["submit_review"])))
Complete(w)     == Serving(w, "complete") /\ Write(w, Assessed(w, MovedTo(w, To["complete"])))
Approve(w)      == Serving(w, "approve") /\ Write(w, MovedTo(w, To["approve"]))
Reject(w)       == Serving(w, "reject") /\ Write(w, MovedTo(w, To["reject"]))
Reopen(w)       == Serving(w, "reopen") /\ Write(w, MovedTo(w, To["reopen"]))
RunReadiness(w) ==
  /\ Serving(w, "run_readiness")
  /\ Write(w, Assessed(w, MovedTo(w, AfterReadiness(worker[w].seen, worker[w].args))))

(* Both people are set, to nobody when not given; the new assignee is told.   *)
Assign(w) ==
  LET q    == worker[w]
      to   == IF q.seen.assignee = None /\ q.seen.status \in From["assign"] THEN To["assign"] ELSE q.seen.status
  IN
  /\ Serving(w, "assign") /\ (obligation[q.id].long => q.args.assignee = None)
  /\ Write(w, [MovedTo(w, to) EXCEPT !.assignee = Dirty(q.args.assignee, q.seen.assignee, @),
                                     !.reviewer = Dirty(q.args.reviewer, q.seen.reviewer, @)])

Patched(row, seen, args) ==
  IF args.column = "status" THEN [row EXCEPT !.status = Dirty(args.value, seen.status, @)]
  ELSE IF args.column = "due" THEN [row EXCEPT !.due = Dirty(args.value, seen.due, @)]
  ELSE IF args.column = "active" THEN [row EXCEPT !.active = Dirty(args.value, seen.active, @)]
  ELSE IF args.column = "name" THEN [row EXCEPT !.long = Dirty(args.value, seen.long, @)]
  ELSE IF args.column = "assignee" THEN [row EXCEPT !.assignee = Dirty(args.value, seen.assignee, @)]
  ELSE [row EXCEPT !.reviewer = Dirty(args.value, seen.reviewer, @)]

Update(w) ==
  LET q == worker[w] IN
  /\ Serving(w, "update")
  /\ Write(w, Patched(obligation[q.id], q.seen, q.args))

(* The task takes its due date and, unless given, its people from the         *)
(* obligation.                                                                *)
GenerateTask(w) ==
  LET q == worker[w]
      Or(given, own) == IF given = None THEN own ELSE given IN
  /\ q.pc = "obligation" /\ q.op = "generate_task"
  /\ \E t \in Tasks \cap scene.ids, a \in Assignees \cup {None}, r \in Reviewers \cup {None} :
       /\ task[t] = None
       /\ task' = [task EXCEPT ![t] =
                     NewTask(Or(a, q.seen.assignee), Or(r, q.seen.reviewer), q.seen.due)]
  /\ worker' = [worker EXCEPT ![w] = Idle]
  /\ UNCHANGED <<scene, today, inbox, restarted, obligation, books>>

-------------------------------------------------------------------------------
(* The overdue sweep.  The scheduler's covers tasks and obligations in one    *)
(* transaction; a user's covers the ones or the others, and the dashboard     *)
(* sweeps the tasks each time it is looked at.                                *)

MutantListTasks(w) ==
  /\ Free(w) /\ (w = Scheduler \/ Asked(w, "sweep_tasks"))
  /\ worker' = [worker EXCEPT ![w] =
       [Idle EXCEPT !.pc = "listed", !.op = "sweep",
                    !.tasks = [t \in {u \in Listed : task[u].assignee # None} |-> task[t]]]]
  /\ UNCHANGED <<scene, today, task, inbox, restarted, obligation, books>>

ListTasks(w) ==
  /\ Free(w) /\ (w = Scheduler \/ Asked(w, "sweep_tasks"))
  /\ worker' = [worker EXCEPT ![w] =
       [Idle EXCEPT !.pc = "listed", !.op = "sweep", !.tasks = [t \in Listed |-> task[t]]]]
  /\ UNCHANGED <<scene, today, task, inbox, restarted, obligation, books>>

(* find_recent_duplicate runs before the status is written.                   *)
Dedupe(w) ==
  LET q == worker[w] IN
  /\ q.pc = "listed"
  /\ worker' = [worker EXCEPT ![w].pc   = IF w = Scheduler THEN "half" ELSE "sweep",
                              ![w].told = AlreadyTold(q.tasks)]
  /\ UNCHANGED <<scene, today, task, inbox, restarted, obligation, books>>

(* list_open_past_due, and those of it not marked yet.                        *)
PastDue ==
  {o \in Obligations : /\ Kept(o) /\ obligation[o].active /\ obligation[o].due < today
                       /\ obligation[o].status \notin Closed \cup {"CANCELLED", "OVERDUE"}}

ListObligations(w) ==
  /\ worker[w].pc = "half" \/ AskedFor(w, "sweep_obligations")
  /\ worker' = [worker EXCEPT ![w].pc = "sweep", ![w].op = "sweep",
                              ![w].obligations = [o \in PastDue |-> obligation[o]]]
  /\ UNCHANGED <<scene, today, task, inbox, restarted, obligation, books>>

(* The notice of an obligation names it, to its assignee.                     *)
Untellable(row) == row.long /\ row.assignee # None

(* What fails a sweep: a listed task was deleted, so that its UPDATE matches  *)
(* no row, or the notice of a listed obligation does not fit.                 *)
Fails(q) ==
  (\E t \in DOMAIN q.tasks : ~Exists(t)) \/ (\E o \in DOMAIN q.obligations : Untellable(q.obligations[o]))

(* OVERDUE is written by primary key over all that was listed.                *)
SweepCommit(w) ==
  LET q == worker[w] IN
  /\ q.pc = "sweep" /\ ~Fails(q)
  /\ task' = Swept(q) /\ inbox' = SweepNotices(q)
  /\ obligation' = [o \in Obligations |->
       IF o \in DOMAIN q.obligations THEN [obligation[o] EXCEPT !.status = "OVERDUE"] ELSE obligation[o]]
  /\ worker' = [worker EXCEPT ![w] = Idle]
  /\ UNCHANGED <<scene, today, restarted, books>>

(* One failure leaves the session without a transaction: the whole sweep of   *)
(* all companies is rolled back, periodic_compliance_sweep logs it and goes   *)
(* on to its next cycle.                                                      *)
Stumble(w) ==
  LET q == worker[w] IN
  /\ q.pc = "sweep" /\ Fails(q)
  /\ worker' = [worker EXCEPT ![w] = Idle]
  /\ UNCHANGED <<scene, today, task, inbox, restarted, obligation, books>>

SweepStep(w) == ListTasks(w) \/ Dedupe(w) \/ ListObligations(w) \/ SweepCommit(w) \/ Stumble(w)

-------------------------------------------------------------------------------
(* What happens around the desk.                                              *)

NextDay ==
  /\ today < LastDay /\ today' = today + 1
  /\ UNCHANGED <<scene, task, inbox, worker, restarted, obligation, books>>

(* Documents are posted, returns imported, findings resolved...               *)
BooksMove ==
  /\ scene.serial => \A v \in DOMAIN worker : worker[v].pc = "idle"
  /\ books' \in scene.books \ {books}
  /\ UNCHANGED deskVars /\ UNCHANGED obligation

(* The process ends and starts again: lifespan cancels the sweep and starts a *)
(* new one; what was not committed is gone.                                   *)
Restart ==
  /\ restarted < scene.restarts /\ restarted' = restarted + 1
  /\ worker' = [v \in DOMAIN worker |-> Idle]
  /\ UNCHANGED <<scene, today, task, inbox, obligation, books>>

Init ==
  /\ scene \in Scenes
  /\ today = 0 /\ restarted = 0
  /\ task = [t \in Tasks |-> None]
  /\ obligation = [o \in Obligations |-> None]
  /\ inbox = [n \in Notices |-> 0]
  /\ worker = [w \in Workers \cup {Scheduler} |-> Idle]
  /\ books \in scene.books

Next ==
  \/ \E w \in Workers :
       \/ TaskRequest(w) /\ UNCHANGED <<obligation, books>>
       \/ LookUp(w) \/ InsertObligation(w) \/ LoadObligation(w) \/ Evaluate(w)
       \/ SubmitReview(w) \/ Approve(w) \/ Reject(w) \/ Complete(w) \/ Reopen(w)
       \/ RunReadiness(w) \/ Assign(w) \/ Update(w) \/ GenerateTask(w)
  \/ \E w \in Workers \cup {Scheduler} : SweepStep(w)
  \/ NextDay \/ BooksMove \/ Restart

(* The loop of the scheduler never ends by itself: it sleeps, sweeps, logs a  *)
(* failure and starts over.  Nothing is assumed of the users.                 *)
Spec == Init /\ [][Next]_vars /\ WF_vars(SweepStep(Scheduler))

-------------------------------------------------------------------------------
(* Properties.                                                                *)

(* The state is made of rows of the two tables, notices and requests.         *)
TypeOK ==
  /\ scene \in Scenes /\ today \in Days /\ restarted \in 0..scene.restarts
  /\ task \in [Tasks -> TaskRow \cup {None}]
  /\ obligation \in [Obligations -> ObligationRow \cup {None}]
  /\ inbox \in [Notices -> 0..2]
  /\ \A w \in Workers \cup {Scheduler} :
       worker[w].pc \in {"idle", "task", "new", "evaluating", "obligation", "listed", "half", "sweep"}

(* A finished task has the date it was finished on.                           *)
TasksDated ==
  \A t \in Tasks : task[t] # None =>
    /\ task[t].status \in {"COMPLETED", "VERIFIED", "LOCKED"} => task[t].completed
    /\ task[t].verified => task[t].completed

(* A task under review has somebody to review it.                             *)
ReviewersKnown ==
  \A t \in Tasks : task[t] # None /\ task[t].status = "PENDING_REVIEW" => task[t].reviewer # None

(* No two obligations for one code, year and period: for a complete key       *)
(* always, for one with a NULL part while requests do not overlap.            *)
KeysUnique ==
  \A k \in Keys : Cardinality(Keyed(k)) > 1 => k \in OpenKeys /\ ~scene.serial

(* Whatever requests, sweeps and restarts overlap, the rows are rows of their *)
(* tables and make sense: columns that are written by different operations    *)
(* agree, and the natural key of get_by_natural_key names one obligation.     *)
RowsSound == TypeOK /\ TasksDated /\ ReviewersKnown /\ KeysUnique

(* A user has at most one unread notice of a kind about a task, as notify     *)
(* promises; only two sweeps that overlap can tell somebody twice that a task *)
(* is overdue, because they look before they write.                           *)
OneUnread ==
  \A n \in Notices : inbox[n] > 1 => n[1] = "TASK_OVERDUE" /\ ~scene.serial

(* The same without the exception, as README.md 1311-1314 states it:          *)
(* deduplicated by construction, so re-running the sweep never spams.  No run *)
(* checks it: two overlapping sweeps violate it.                              *)
NeverSpammed == \A n \in Notices : inbox[n] <= 1

(* A closed obligation is opened again by reopen only, or by a request or a   *)
(* sweep that read it while it was open and writes over the closing: no       *)
(* operation that sees it closed changes its status.                          *)
ReadOpen(q, o) ==
  \/ o \in DOMAIN q.obligations
  \/ q.pc = "obligation" /\ q.id = o /\ q.seen.status \notin Closed
ClosedStays ==
  [][\A o \in Obligations :
       Kept(o) /\ obligation[o].status \in Closed /\ obligation'[o].status \notin Closed =>
         \E w \in DOMAIN worker :
           /\ worker[w] # worker'[w]
           /\ (worker[w].op = "reopen" /\ worker[w].id = o) \/ ReadOpen(worker[w], o)]_vars

(* What task status a reader sees, when requests do not overlap.              *)
TaskShown ==
  [t \in Tasks |-> IF scene.serial /\ task[t] # None THEN task[t].status ELSE "NONE"]
TaskEdges ==
  {<<"PENDING", "IN_PROGRESS">>, <<"PENDING", "CANCELLED">>, <<"IN_PROGRESS", "PENDING_REVIEW">>,
   <<"IN_PROGRESS", "COMPLETED">>, <<"IN_PROGRESS", "CANCELLED">>, <<"PENDING_REVIEW", "VERIFIED">>,
   <<"PENDING_REVIEW", "IN_PROGRESS">>, <<"COMPLETED", "VERIFIED">>,
   <<"COMPLETED", "LOCKED">>, <<"VERIFIED", "LOCKED">>}
  \cup (OpenForSweep \X {"OVERDUE"})
  \cup ({"OVERDUE"} \X {"IN_PROGRESS", "PENDING_REVIEW", "COMPLETED", "CANCELLED"})
  \cup ((TaskStatus \ {"LOCKED", "DELETED"}) \X {"DELETED"})
TaskWorkflow == INSTANCE StatusWorkflow
  WITH Items <- Tasks, Start <- "PENDING", Edges <- TaskEdges, status <- TaskShown

(* Served one at a time, requests, sweeps and restarts together move a task   *)
(* along the documented workflow only, with OVERDUE laid over an open status: *)
(* a locked task is never swept, edited or deleted.                           *)
TasksFollowWorkflow == TaskWorkflow!TogetherSpec

(* Past-due obligations whose notice does not fit: while there is one, every  *)
(* sweep that lists it fails.                                                 *)
InTheWay == {o \in PastDue : Untellable(obligation[o])}

(* Whatever users keep doing, and although deletions and restarts make sweeps *)
(* fail, a task or an obligation that is open past its due date is marked     *)
(* OVERDUE, unless its date is moved or it is closed first, or an obligation  *)
(* whose notice does not fit gets in the way: a sweep never fails for good    *)
(* for any other reason.                                                      *)
EventuallyOverdue ==
  /\ \A t \in Tasks : (~scene.serial /\ t \in Listed) ~> (t \notin Listed \/ InTheWay # {})
  /\ \A o \in Obligations : (~scene.serial /\ o \in PastDue) ~> (o \notin PastDue \/ InTheWay # {})

(* The same without the exception, as the scheduler's docstring has it: it    *)
(* sweeps overdue tasks and obligations for all active companies.  One        *)
(* obligation in the way stops it for everything else, for good.              *)
AllSwept ==
  /\ \A t \in Tasks : (~scene.serial /\ t \in Listed) ~> t \notin Listed
  /\ \A o \in Obligations : (~scene.serial /\ o \in PastDue) ~> o \notin PastDue
================================================================================
