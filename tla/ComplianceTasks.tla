---------------------------- MODULE ComplianceTasks ----------------------------
(* Compliance tasks and the notices they raise                                *)
(* (app/services/compliance_task_service.py, notification_service.py and      *)
(* their repositories), the part of the compliance desk the scheduler's sweep *)
(* shares with users.                                                         *)
(*                                                                            *)
(* A worker serves one request: it loads the task and checks it, and later    *)
(* its commit writes the columns it changed, by primary key, whatever the row *)
(* has become meanwhile.  A deleted row is written by nobody: the UPDATE then *)
(* matches no row, and the request fails and leaves nothing.                  *)
EXTENDS Naturals, FiniteSets, TLC

CONSTANTS Tasks,       \* ids for tasks: at most so many are created
          Obligations, \* ids for obligations: at most so many are created
          Assignees, Reviewers, \* the company's members, by what they are asked for
          Author,      \* the user who creates tasks
          Workers,     \* those who serve requests
          Scheduler,   \* the background loop of the process
          None,
          LastDay,     \* bound: the clock stops there
          Scenes       \* what the behaviours of a run are made of

Users == Assignees \cup Reviewers \cup {Author}

(* A scene: the requests asked for, the workers that serve them, whether they *)
(* are served one at a time, the ids that may be created, and how often the   *)
(* process may restart.                                                       *)
ASSUME ComplianceAssumption ==
  /\ LastDay \in Nat \ {0}
  /\ Scheduler \notin Workers
  /\ None \notin Users
  /\ \A s \in Scenes : s.crew \subseteq Workers /\ s.ids \subseteq Tasks \cup Obligations
                       /\ s.serial \in BOOLEAN /\ s.restarts \in Nat

VARIABLES scene,     \* the scene of this behaviour
          today,     \* date.today()
          task,      \* compliance_tasks, by id, or None
          inbox,     \* the unread notices, counted 0, 1 or 2 for several
          worker,    \* the request each worker is serving, and the sweep under way
          restarted  \* how often the process restarted

Days == 0..LastDay

(* The notices that are not repeated while one is unread.  TASK_ASSIGNED,     *)
(* COMMENT_ADDED and those of obligations are created every time.             *)
NoticeType == {"TASK_REVIEW_REQUIRED", "TASK_COMPLETED", "TASK_VERIFIED", "TASK_OVERDUE"}
Notices    == NoticeType \X Tasks \X Users

Idle == [pc |-> "idle", op |-> None, id |-> None, args |-> None, seen |-> None,
         tasks |-> <<>>, told |-> {}, obligations |-> <<>>]

(* Who may start: in a serial scene, only when nobody else is at work.        *)
Free(w) ==
  /\ worker[w].pc = "idle"
  /\ scene.serial => \A v \in DOMAIN worker : worker[v].pc = "idle"
Asked(w, op) == w \in scene.crew /\ op \in scene.ops /\ Free(w)

Exists(t)   == task[t] # None /\ task[t].status # "DELETED"
OpenForSweep == {"PENDING", "IN_PROGRESS", "PENDING_REVIEW"}

TaskStatus == OpenForSweep \cup {"COMPLETED", "VERIFIED", "OVERDUE", "CANCELLED", "LOCKED", "DELETED"}

(* A row of compliance_tasks.                                                 *)
TaskRow == [status : TaskStatus, assignee : Users \cup {None}, reviewer : Users \cup {None},
            due : Days, completed : BOOLEAN, verified : BOOLEAN]
ASSUME TaskRowAssumption == None \notin TaskRow

MutantTransitions ==
  {<<"PENDING", "start", "IN_PROGRESS">>, <<"PENDING", "cancel", "CANCELLED">>,
   <<"OVERDUE", "start", "IN_PROGRESS">>, <<"OVERDUE", "submit_review", "PENDING_REVIEW">>,
   <<"OVERDUE", "complete", "COMPLETED">>, <<"OVERDUE", "cancel", "CANCELLED">>,
   <<"IN_PROGRESS", "submit_review", "PENDING_REVIEW">>, <<"LOCKED", "start", "IN_PROGRESS">>,
   <<"COMPLETED", "lock", "LOCKED">>, <<"PENDING_REVIEW", "verify", "VERIFIED">>,
   <<"IN_PROGRESS", "complete", "COMPLETED">>}

(* _TRANSITIONS.                                                              *)
Transitions ==
  {<<"PENDING", "start", "IN_PROGRESS">>, <<"PENDING", "cancel", "CANCELLED">>,
   <<"OVERDUE", "start", "IN_PROGRESS">>, <<"OVERDUE", "submit_review", "PENDING_REVIEW">>,
   <<"OVERDUE", "complete", "COMPLETED">>, <<"OVERDUE", "cancel", "CANCELLED">>,
   <<"IN_PROGRESS", "submit_review", "PENDING_REVIEW">>, <<"IN_PROGRESS", "complete", "COMPLETED">>,
   <<"IN_PROGRESS", "cancel", "CANCELLED">>, <<"PENDING_REVIEW", "verify", "VERIFIED">>,
   <<"PENDING_REVIEW", "return_for_changes", "IN_PROGRESS">>, <<"COMPLETED", "verify", "VERIFIED">>,
   <<"COMPLETED", "lock", "LOCKED">>, <<"VERIFIED", "lock", "LOCKED">>}

TransitionOps == {tr[2] : tr \in Transitions}

-------------------------------------------------------------------------------
(* Notices.                                                                   *)

Unread(kind, t, u) == u # None /\ inbox[<<kind, t, u>>] > 0
Added(n)           == IF n = 2 THEN 2 ELSE n + 1

MutantNotify(box, kind, t, u) ==
  IF u = None THEN box ELSE [box EXCEPT ![<<kind, t, u>>] = Added(@)]

(* notify with dedupe: nothing is added while an unread notice of the same    *)
(* user, type and task is there.                                              *)
Notify(box, kind, t, u) ==
  IF u = None \/ box[<<kind, t, u>>] > 0 THEN box ELSE [box EXCEPT ![<<kind, t, u>>] = 1]

(* A user reads one notice, or all of them.                                   *)
MarkRead(w) ==
  /\ Asked(w, "mark_read")
  /\ \E n \in Notices : inbox[n] > 0 /\ inbox' = [inbox EXCEPT ![n] = @ - 1]
  /\ UNCHANGED <<scene, today, task, worker, restarted>>

MarkAllRead(w) ==
  /\ Asked(w, "mark_all_read")
  /\ \E u \in Users : /\ \E n \in Notices : n[3] = u /\ inbox[n] > 0
                      /\ inbox' = [n \in Notices |-> IF n[3] = u THEN 0 ELSE inbox[n]]
  /\ UNCHANGED <<scene, today, task, worker, restarted>>

-------------------------------------------------------------------------------
(* Requests about tasks.                                                      *)

NewTask(assignee, reviewer, due) ==
  [status |-> "PENDING", assignee |-> assignee, reviewer |-> reviewer, due |-> due,
   completed |-> FALSE, verified |-> FALSE]

CreateTask(w) ==
  /\ Asked(w, "create")
  /\ \E t \in Tasks \cap scene.ids, a \in Assignees \cup {None}, r \in Reviewers \cup {None}, d \in Days :
       task[t] = None /\ task' = [task EXCEPT ![t] = NewTask(a, r, d)]
  /\ UNCHANGED <<scene, today, inbox, worker, restarted>>

(* What the check of an operation asks of the loaded row.                     *)
Allowed(op, row) ==
  IF op \in {"update", "delete", "assign"} THEN row.status # "LOCKED"
  ELSE /\ \E tr \in Transitions : tr[1] = row.status /\ tr[2] = op
       /\ op = "submit_review" => row.reviewer # None

(* What the payload of an operation may say.                                  *)
TaskArgs(op) ==
  IF op = "update" THEN [due : Days]
  ELSE IF op = "assign" THEN [assignee : Assignees \cup {None}, reviewer : Reviewers \cup {None}]
  ELSE {None}

LoadTask(w) ==
  \E op \in TransitionOps \cup {"update", "delete", "assign"}, t \in Tasks \cap scene.ids :
    /\ Asked(w, op) /\ Exists(t) /\ Allowed(op, task[t])
    /\ \E args \in TaskArgs(op) :
         worker' = [worker EXCEPT ![w] =
           [Idle EXCEPT !.pc = "task", !.op = op, !.id = t, !.args = args, !.seen = task[t]]]
    /\ UNCHANGED <<scene, today, task, inbox, restarted>>

(* The row was deleted meanwhile, or the client went away: the session is     *)
(* closed without a commit.                                                   *)
Abandon(w) ==
  /\ worker[w].pc # "idle"
  /\ worker' = [worker EXCEPT ![w] = Idle]
  /\ UNCHANGED <<scene, today, task, inbox, restarted>>

(* Only a column that differs from the loaded one is written.                 *)
Column(given, seen, now) == IF given = None \/ given = seen THEN now ELSE given

MutantMoved(q, row) ==
  LET to == CHOOSE tr \in Transitions : tr[1] = q.seen.status /\ tr[2] = q.op IN
  [row EXCEPT !.status = to[3], !.completed = @ \/ q.op = "complete",
              !.verified = @ \/ q.op = "verify"]

(* The columns _transition writes.                                            *)
Moved(q, row) ==
  LET to == CHOOSE tr \in Transitions : tr[1] = q.seen.status /\ tr[2] = q.op IN
  [row EXCEPT !.status = to[3],
              !.completed = @ \/ q.op = "complete" \/ (q.op = "verify" /\ ~q.seen.completed),
              !.verified = @ \/ q.op = "verify"]

(* Whom a transition tells, by the row as it is after the write.              *)
Told(q, row) ==
  IF q.op = "submit_review" THEN Notify(inbox, "TASK_REVIEW_REQUIRED", q.id, row.reviewer)
  ELSE IF q.op = "complete" /\ row.assignee # None
       THEN Notify(inbox, "TASK_COMPLETED", q.id, Author)
  ELSE IF q.op = "verify" THEN Notify(inbox, "TASK_VERIFIED", q.id, row.assignee)
  ELSE inbox

TransitionTask(w) ==
  LET q == worker[w] IN
  /\ q.pc = "task" /\ q.op \in TransitionOps /\ Exists(q.id)
  /\ task'   = [task EXCEPT ![q.id] = Moved(q, @)]
  /\ inbox'  = Told(q, Moved(q, task[q.id]))
  /\ worker' = [worker EXCEPT ![w] = Idle]
  /\ UNCHANGED <<scene, today, restarted>>

UpdateTask(w) ==
  LET q == worker[w] IN
  /\ q.pc = "task" /\ q.op = "update" /\ Exists(q.id)
  /\ task'   = [task EXCEPT ![q.id].due = Column(q.args.due, q.seen.due, @)]
  /\ worker' = [worker EXCEPT ![w] = Idle]
  /\ UNCHANGED <<scene, today, inbox, restarted>>

(* A member not given stays; the notice of an assignment is always sent.      *)
AssignTask(w) ==
  LET q == worker[w] IN
  /\ q.pc = "task" /\ q.op = "assign" /\ Exists(q.id)
  /\ task'   = [task EXCEPT ![q.id].assignee = Column(q.args.assignee, q.seen.assignee, @),
                            ![q.id].reviewer = Column(q.args.reviewer, q.seen.reviewer, @)]
  /\ worker' = [worker EXCEPT ![w] = Idle]
  /\ UNCHANGED <<scene, today, inbox, restarted>>

DeleteTask(w) ==
  LET q == worker[w] IN
  /\ q.pc = "task" /\ q.op = "delete" /\ Exists(q.id)
  /\ task'   = [task EXCEPT ![q.id].status = "DELETED"]
  /\ worker' = [worker EXCEPT ![w] = Idle]
  /\ UNCHANGED <<scene, today, inbox, restarted>>

TaskRequest(w) ==
  \/ CreateTask(w) \/ LoadTask(w) \/ Abandon(w)
  \/ TransitionTask(w) \/ UpdateTask(w) \/ AssignTask(w) \/ DeleteTask(w)
  \/ MarkRead(w) \/ MarkAllRead(w)

-------------------------------------------------------------------------------
(* The sweep's look at the tasks.                                             *)

(* list_open_for_sweep, and the tasks of it that are past due.                *)
Listed == {t \in Tasks : Exists(t) /\ task[t].status \in OpenForSweep /\ task[t].due < today}

(* Those of the listed whose assignee has an unread notice already.           *)
AlreadyTold(rows) == {t \in DOMAIN rows : Unread("TASK_OVERDUE", t, rows[t].assignee)}

(* The sweep writes OVERDUE over what it listed, and tells those it found     *)
(* without a notice.                                                          *)
Swept(q) ==
  [t \in Tasks |-> IF t \in DOMAIN q.tasks THEN [task[t] EXCEPT !.status = "OVERDUE"] ELSE task[t]]
SweepNotices(q) ==
  [n \in Notices |->
     IF n[1] = "TASK_OVERDUE" /\ n[2] \in DOMAIN q.tasks \ q.told /\ n[3] = q.tasks[n[2]].assignee
     THEN Added(inbox[n]) ELSE inbox[n]]
================================================================================
