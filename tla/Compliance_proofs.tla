--------------------------- MODULE Compliance_proofs ---------------------------
(* Proofs about Compliance and ComplianceTasks, for every set of tasks, of    *)
(* obligations, of people, of workers and of scenes.                          *)
EXTENDS Compliance, FiniteSetTheorems, TLAPS

-------------------------------------------------------------------------------
(* Types.  A request carries what its load found, and the sweep what it       *)
(* listed: those rows still exist, and what a transition relies on (a date of *)
(* completion, a reviewer) is still there when the request writes.            *)

Crew == Workers \cup {Scheduler}
Ready == {"READY", "READY_WITH_WARNINGS", "MISSING_DATA", "BLOCKED"}
TaskOp == TransitionOps \cup {"update", "delete", "assign"}
ObligationOp == Moves \cup Evaluated \cup {"update", "assign", "generate_task"}

(* What a request about an obligation may say, in whatever scene.             *)
Patches ==
  [column : {"status"}, value : ObligationStatus] \cup [column : {"due"}, value : Days]
    \cup [column : {"active", "name"}, value : BOOLEAN]
    \cup [column : {"assignee"}, value : Assignees \cup {None}]
    \cup [column : {"reviewer"}, value : Reviewers \cup {None}]
Says(op) ==
  IF op = "update" THEN Patches
  ELSE IF op = "assign" THEN [assignee : Assignees \cup {None}, reviewer : Reviewers \cup {None}]
  ELSE {None}

Payload ==
  {None} \cup Ready \cup [due : Days]
    \cup [assignee : Assignees \cup {None}, reviewer : Reviewers \cup {None}] \cup Patches

Query ==
  [pc : {"idle", "task", "new", "evaluating", "obligation", "listed", "half", "sweep"},
   op : TaskOp \cup ObligationOp \cup {"create", "generate", "sweep", None},
   id : Tasks \cup Obligations \cup Keys \cup {None},
   args : Payload, seen : TaskRow \cup ObligationRow \cup {None},
   tasks : {<<>>} \cup UNION {[S -> TaskRow] : S \in SUBSET Tasks},
   told : SUBSET Tasks,
   obligations : {<<>>} \cup UNION {[S -> ObligationRow] : S \in SUBSET Obligations}]

Dated(row) ==
  /\ row.status \in {"COMPLETED", "VERIFIED", "LOCKED"} => row.completed
  /\ row.verified => row.completed
Reviewed(row) == row.status = "PENDING_REVIEW" => row.reviewer # None

LoadedIn(q, tasks, obls) ==
  /\ q.pc = "task" =>
       /\ q.op \in TaskOp /\ q.id \in Tasks /\ q.args \in TaskArgs(q.op)
       /\ q.seen \in TaskRow /\ Dated(q.seen) /\ Allowed(q.op, q.seen) /\ q.seen.status # "DELETED"
       /\ tasks[q.id] # None
       /\ q.seen.completed => tasks[q.id].completed
       /\ q.seen.reviewer # None => tasks[q.id].reviewer # None
  /\ q.pc = "new" => q.id \in Keys
  /\ q.pc \in {"evaluating", "obligation"} =>
       /\ q.op \in ObligationOp /\ q.id \in Obligations
       /\ q.seen \in ObligationRow /\ Permitted(q.op, q.seen) /\ obls[q.id] # None
  /\ q.pc = "evaluating" => q.op \in Evaluated
  /\ q.pc = "obligation" => q.args \in IF q.op \in Evaluated THEN Ready ELSE Says(q.op)
  /\ q.pc = "idle" => DOMAIN q.tasks = {}
  /\ \A t \in DOMAIN q.tasks : t \in Tasks /\ tasks[t] # None
  /\ \A o \in DOMAIN q.obligations : o \in Obligations /\ obls[o] # None

(* What a request that nobody overlaps knows besides: the rows are as it read *)
(* them, and nobody was told meanwhile of the tasks the sweep found untold.   *)
FreshIn(q, tasks, obls, box) ==
  /\ q.pc = "new" => \A o \in Obligations : obls[o] # None => obls[o].key # q.id
  /\ q.pc = "task" => tasks[q.id] = q.seen
  /\ \A t \in DOMAIN q.tasks : tasks[t] = q.tasks[t] /\ q.tasks[t].status \in OpenForSweep
  /\ q.pc \in {"half", "sweep"} =>
       \A t \in DOMAIN q.tasks \ q.told :
         q.tasks[t].assignee # None => box[<<"TASK_OVERDUE", t, q.tasks[t].assignee>>] = 0

TasksIn ==
  /\ task \in [Tasks -> TaskRow \cup {None}]
  /\ \A t \in Tasks : task[t] # None => Dated(task[t]) /\ Reviewed(task[t])
ObligationsIn ==
  /\ obligation \in [Obligations -> ObligationRow \cup {None}]
  /\ \A o, p \in Obligations :
       /\ obligation[o] # None /\ obligation[p] # None /\ obligation[o].key = obligation[p].key
       /\ obligation[o].key \notin OpenKeys \/ scene.serial
       => o = p
InboxIn ==
  /\ inbox \in [Notices -> 0..2]
  /\ \A n \in Notices : inbox[n] > 1 => n[1] = "TASK_OVERDUE" /\ ~scene.serial
Tables == TasksIn /\ ObligationsIn /\ InboxIn

Inv ==
  /\ scene \in Scenes /\ today \in Days /\ restarted \in 0..scene.restarts
  /\ Tables
  /\ worker \in [Crew -> Query]
  /\ \A w \in Crew : LoadedIn(worker[w], task, obligation)
  /\ scene.serial =>
       /\ \A v, w \in Crew : worker[v].pc # "idle" /\ worker[w].pc # "idle" => v = w
       /\ \A w \in Crew : FreshIn(worker[w], task, obligation, inbox)

(* What no step takes away: a row, its completion and its reviewer.           *)
Preserved ==
  /\ \A t \in Tasks : task[t] # None =>
       /\ task'[t] # None
       /\ task[t].completed => task'[t].completed
       /\ task[t].reviewer # None => task'[t].reviewer # None
  /\ \A o \in Obligations : obligation[o] # None => obligation'[o] # None

(* The worker w may write: in a serial scene everybody else is idle.          *)
Alone(w) == scene.serial => \A v \in Crew : v = w \/ worker[v].pc = "idle"

LEMMA AtMostOne ==
  ASSUME NEW S, \A x, y \in S : x = y
  PROVE  Cardinality(S) \in {0, 1}
<1>1. CASE S = {}
  BY <1>1, FS_EmptySet
<1>2. CASE S # {}
  <2>1. PICK x : S = {x}
    BY <1>2
  <2> QED
    BY <2>1, FS_Singleton
<1> QED
  BY <1>1, <1>2

LEMMA InvTypeOK == Inv => TypeOK
BY DEF Inv, TypeOK, Tables, TasksIn, ObligationsIn, InboxIn, Query, Crew

LEMMA InvRowsSound == Inv => RowsSound
<1> SUFFICES ASSUME Inv PROVE RowsSound
  OBVIOUS
<1>1. TasksDated /\ ReviewersKnown
  BY DEF Inv, Tables, TasksIn, Dated, Reviewed, TasksDated, ReviewersKnown
<1>2. ASSUME NEW k \in Keys, ~(k \in OpenKeys /\ ~scene.serial)
      PROVE  ~(Cardinality(Keyed(k)) > 1)
  <2>1. \A o, p \in Keyed(k) : o = p
    BY <1>2 DEF Keyed, Kept, Inv, Tables, ObligationsIn
  <2> QED
    BY <2>1, AtMostOne
<1> QED
  BY <1>1, <1>2, InvTypeOK DEF RowsSound, KeysUnique

LEMMA InvOneUnread == Inv => OneUnread
BY DEF Inv, Tables, InboxIn, OneUnread

LEMMA IdleType == Idle \in Query /\ Idle.pc = "idle"
BY DEF Idle, Query, Payload

LEMMA IdleIn ==
  ASSUME NEW tasks, NEW obls, NEW box
  PROVE  LoadedIn(Idle, tasks, obls) /\ FreshIn(Idle, tasks, obls, box)
<1>1. DOMAIN Idle.tasks = {} /\ DOMAIN Idle.obligations = {} /\ Idle.pc = "idle"
  BY DEF Idle
<1> QED
  BY <1>1 DEF LoadedIn, FreshIn

LEMMA LoadedKept ==
  ASSUME NEW q \in Query, Preserved, LoadedIn(q, task, obligation)
  PROVE  LoadedIn(q, task', obligation')
<1> DEFINE P(tasks, obls) ==
       /\ q.pc = "task" =>
            /\ tasks[q.id] # None
            /\ q.seen.completed => tasks[q.id].completed
            /\ q.seen.reviewer # None => tasks[q.id].reviewer # None
       /\ q.pc \in {"evaluating", "obligation"} => obls[q.id] # None
       /\ \A t \in DOMAIN q.tasks : t \in Tasks /\ tasks[t] # None
       /\ \A o \in DOMAIN q.obligations : o \in Obligations /\ obls[o] # None
<1>1. P(task, obligation) => P(task', obligation')
  BY DEF Preserved, LoadedIn
<1>2. P(task, obligation)
  BY DEF LoadedIn
<1> QED
  BY <1>1, <1>2 DEF LoadedIn

LEMMA IdleFresh ==
  ASSUME NEW q, NEW tasks, NEW obls, NEW box, q.pc = "idle", DOMAIN q.tasks = {}
  PROVE  FreshIn(q, tasks, obls, box)
BY DEF FreshIn

(* One worker changes its request, and the tables keep what the others know.  *)
LEMMA StepInv ==
  ASSUME Inv, NEW w \in Crew, NEW q \in Query, worker' = [worker EXCEPT ![w] = q],
         UNCHANGED <<scene, today, restarted>>, Tables', Preserved, Alone(w),
         LoadedIn(q, task', obligation'),
         scene.serial => FreshIn(q, task', obligation', inbox')
  PROVE  Inv'
<1>1. worker' \in [Crew -> Query]
  BY DEF Inv
<1>2. ASSUME NEW x \in Crew PROVE LoadedIn(worker'[x], task', obligation')
  <2>1. CASE x = w
    BY <2>1 DEF Inv
  <2>2. CASE x # w
    BY <2>2, LoadedKept DEF Inv
  <2> QED
    BY <2>1, <2>2
<1>3. ASSUME scene.serial, NEW x \in Crew, x # w
      PROVE  worker'[x].pc = "idle" /\ FreshIn(worker'[x], task', obligation', inbox')
  <2>1. worker'[x] = worker[x] /\ worker[x].pc = "idle" /\ LoadedIn(worker[x], task, obligation)
    BY <1>3 DEF Alone, Inv
  <2>2. DOMAIN worker[x].tasks = {}
    BY <2>1 DEF LoadedIn
  <2> QED
    BY <2>1, <2>2, IdleFresh
<1>4. ASSUME scene.serial, NEW x \in Crew PROVE FreshIn(worker'[x], task', obligation', inbox')
  <2>1. worker'[w] = q
    BY DEF Inv
  <2> QED
    BY <1>3, <1>4, <2>1
<1> QED
  BY <1>1, <1>2, <1>3, <1>4 DEF Inv

LEMMA FreeAlone ==
  ASSUME Inv, NEW w \in Crew, Free(w) \/ worker[w].pc # "idle"
  PROVE  Alone(w)
<1>1. DOMAIN worker = Crew
  BY DEF Inv
<1> QED
  BY <1>1 DEF Alone, Free, Inv

LEMMA Untouched ==
  ASSUME Inv, UNCHANGED <<scene, task, obligation, inbox>>
  PROVE  Tables' /\ Preserved
<1>1. Preserved
  BY DEF Preserved
<1>2. Tables'
  BY DEF Inv, Tables, TasksIn, ObligationsIn, InboxIn
<1> QED
  BY <1>1, <1>2

(* A worker that answers and changes no table.                                *)
LEMMA AnswerInv ==
  ASSUME Inv, NEW w \in Crew, worker[w].pc # "idle", worker' = [worker EXCEPT ![w] = Idle],
         UNCHANGED <<scene, today, restarted>>, Tables', Preserved
  PROVE  Inv'
<1>1. LoadedIn(Idle, task', obligation') /\ FreshIn(Idle, task', obligation', inbox')
  BY IdleIn
<1>2. Alone(w)
  BY FreeAlone
<1> QED
  BY <1>1, <1>2, IdleType, StepInv

(* A worker that answers at once: its request is never seen.                  *)
LEMMA StayInv ==
  ASSUME Inv, NEW w \in Crew, Free(w), UNCHANGED <<scene, today, restarted, worker>>,
         Tables', Preserved
  PROVE  Inv'
<1>1. worker' = [worker EXCEPT ![w] = worker[w]] /\ worker[w] \in Query
      /\ worker[w].pc = "idle"
  BY DEF Inv, Free
<1>2. LoadedIn(worker[w], task', obligation')
  BY <1>1, LoadedKept DEF Inv
<1>3. DOMAIN worker[w].tasks = {}
  BY <1>1, <1>2 DEF LoadedIn
<1> QED
  BY <1>1, <1>2, <1>3, FreeAlone, IdleFresh, StepInv

LEMMA InitInv == Init => Inv
<1> SUFFICES ASSUME Init PROVE Inv
  OBVIOUS
<1>1. scene \in Scenes /\ today \in Days /\ restarted \in 0..scene.restarts
  BY ComplianceAssumption DEF Init, Days
<1>2. Tables
  BY DEF Init, Tables, TasksIn, ObligationsIn, InboxIn
<1>3. worker = [w \in Crew |-> Idle]
  BY DEF Init, Crew
<1>4. worker \in [Crew -> Query]
      /\ \A w \in Crew : LoadedIn(worker[w], task, obligation)
                          /\ FreshIn(worker[w], task, obligation, inbox) /\ worker[w].pc = "idle"
  BY <1>3, IdleType, IdleIn
<1> QED
  BY <1>1, <1>2, <1>4 DEF Inv

-------------------------------------------------------------------------------
(* Rows written one at a time.                                                *)

LEMMA TaskWritten ==
  ASSUME Inv, NEW t \in Tasks, NEW row \in TaskRow, Dated(row), Reviewed(row),
         task' = [task EXCEPT ![t] = row], UNCHANGED <<scene, obligation>>, InboxIn',
         task[t] # None => /\ task[t].completed => row.completed
                           /\ task[t].reviewer # None => row.reviewer # None
  PROVE  Tables' /\ Preserved
<1>1. row # None
  BY TaskRowAssumption
<1>2. TasksIn'
  BY DEF Inv, Tables, TasksIn
<1>3. ObligationsIn'
  BY DEF Inv, Tables, ObligationsIn
<1>4. Preserved
  BY <1>1 DEF Preserved, Inv, Tables, TasksIn
<1> QED
  BY <1>2, <1>3, <1>4 DEF Tables

LEMMA ObligationWritten ==
  ASSUME Inv, NEW o \in Obligations, NEW row \in ObligationRow,
         obligation' = [obligation EXCEPT ![o] = row], UNCHANGED <<scene, task, inbox>>,
         \/ obligation[o] # None /\ row.key = obligation[o].key
         \/ row.key \in OpenKeys /\ ~scene.serial
         \/ \A p \in Obligations : obligation[p] # None => obligation[p].key # row.key
  PROVE  Tables' /\ Preserved
<1>1. row # None
  BY ObligationRowAssumption
<1>2. TasksIn' /\ InboxIn'
  BY DEF Inv, Tables, TasksIn, InboxIn
<1>3. obligation' \in [Obligations -> ObligationRow \cup {None}]
  BY DEF Inv, Tables, ObligationsIn
<1>4. ASSUME NEW p \in Obligations, NEW r \in Obligations,
             obligation'[p] # None, obligation'[r] # None, obligation'[p].key = obligation'[r].key,
             obligation'[p].key \notin OpenKeys \/ scene.serial
      PROVE  p = r
  BY <1>4 DEF Inv, Tables, ObligationsIn
<1>5. Preserved
  BY <1>1 DEF Preserved, Inv, Tables, ObligationsIn
<1> QED
  BY <1>2, <1>3, <1>4, <1>5 DEF Tables, ObligationsIn

LEMMA SameInbox ==
  ASSUME Inv, UNCHANGED <<scene, inbox>>
  PROVE  InboxIn'
BY DEF Inv, Tables, InboxIn

-------------------------------------------------------------------------------
(* Requests about tasks.                                                      *)

LEMMA NewTaskRow ==
  ASSUME NEW a \in Users \cup {None}, NEW r \in Users \cup {None}, NEW d \in Days
  PROVE  NewTask(a, r, d) \in TaskRow /\ Dated(NewTask(a, r, d)) /\ Reviewed(NewTask(a, r, d))
BY DEF NewTask, TaskRow, TaskStatus, OpenForSweep, Dated, Reviewed

LEMMA CreateTaskInv ==
  ASSUME Inv, NEW w \in Crew, CreateTask(w), UNCHANGED obligation
  PROVE  Inv'
<1>1. PICK t \in Tasks \cap scene.ids, a \in Assignees \cup {None}, r \in Reviewers \cup {None}, d \in Days :
        task[t] = None /\ task' = [task EXCEPT ![t] = NewTask(a, r, d)]
  BY DEF CreateTask
<1>2. a \in Users \cup {None} /\ r \in Users \cup {None}
  BY DEF Users
<1>3. UNCHANGED <<scene, today, inbox, worker, restarted>> /\ Free(w)
  BY DEF CreateTask, Asked
<1>4. Tables' /\ Preserved
  BY <1>1, <1>2, <1>3, NewTaskRow, TaskWritten, SameInbox
<1> QED
  BY <1>3, <1>4, StayInv

LEMMA LoadTaskInv ==
  ASSUME Inv, NEW w \in Crew, LoadTask(w), UNCHANGED obligation
  PROVE  Inv'
<1>1. PICK op \in TaskOp, t \in Tasks \cap scene.ids :
        /\ Asked(w, op) /\ Exists(t) /\ Allowed(op, task[t])
        /\ \E args \in TaskArgs(op) :
             worker' = [worker EXCEPT ![w] =
               [Idle EXCEPT !.pc = "task", !.op = op, !.id = t, !.args = args, !.seen = task[t]]]
        /\ UNCHANGED <<scene, today, task, inbox, restarted>>
  BY DEF LoadTask, TaskOp
<1>2. PICK args \in TaskArgs(op) :
        worker' = [worker EXCEPT ![w] =
          [Idle EXCEPT !.pc = "task", !.op = op, !.id = t, !.args = args, !.seen = task[t]]]
  BY <1>1
<1>3. PICK q : q = [Idle EXCEPT !.pc = "task", !.op = op, !.id = t, !.args = args, !.seen = task[t]]
  OBVIOUS
<1>4. task[t] \in TaskRow /\ task[t] # None /\ task[t].status # "DELETED" /\ Dated(task[t])
  BY <1>1 DEF Exists, Inv, Tables, TasksIn
<1>5. args \in Payload
  BY DEF TaskArgs, Payload
<1>6. /\ q.pc = "task" /\ q.op = op /\ q.id = t /\ q.args = args /\ q.seen = task[t]
      /\ q.tasks = <<>> /\ q.told = {} /\ q.obligations = <<>>
  BY <1>3 DEF Idle
<1>7. q \in Query
  BY <1>3, <1>4, <1>5 DEF Query, Idle
<1>8. LoadedIn(q, task, obligation)
  BY <1>1, <1>4, <1>6 DEF LoadedIn
<1>9. FreshIn(q, task', obligation', inbox')
  BY <1>1, <1>6 DEF FreshIn
<1>10. Tables' /\ Preserved
  BY <1>1, Untouched
<1>11. worker' = [worker EXCEPT ![w] = q]
  BY <1>2, <1>3, Zenon
<1>12. Alone(w)
  BY <1>1, FreeAlone DEF Asked
<1>13. LoadedIn(q, task', obligation')
  BY <1>1, <1>8
<1> QED
  BY <1>1, <1>7, <1>9, <1>10, <1>11, <1>12, <1>13, StepInv

LEMMA AbandonInv ==
  ASSUME Inv, NEW w \in Crew, Abandon(w), UNCHANGED obligation
  PROVE  Inv'
BY Untouched, AnswerInv DEF Abandon

(* The transition table: what each status is reached by, and from where.      *)
LEMMA TransitionTable ==
  \A tr \in Transitions :
    /\ tr[3] \in TaskStatus /\ tr[1] \in TaskStatus /\ tr[3] # "DELETED"
    /\ tr[2] \notin {"update", "delete", "assign"}
    /\ tr[3] = "COMPLETED" => tr[2] = "complete"
    /\ tr[3] = "VERIFIED" <=> tr[2] = "verify"
    /\ tr[3] = "LOCKED" => tr[1] \in {"COMPLETED", "VERIFIED"}
    /\ tr[3] = "PENDING_REVIEW" => tr[2] = "submit_review"
    /\ <<tr[1], tr[3]>> \in TaskEdges
BY DEF Transitions, TaskStatus, OpenForSweep, TaskEdges

LEMMA TransitionAllowed ==
  ASSUME NEW op \in TransitionOps, NEW row, Allowed(op, row)
  PROVE  /\ \E tr \in Transitions : tr[1] = row.status /\ tr[2] = op
         /\ op = "submit_review" => row.reviewer # None
<1>1. op \notin {"update", "delete", "assign"}
  BY TransitionTable DEF TransitionOps
<1> QED
  BY <1>1 DEF Allowed

LEMMA MovedRow ==
  ASSUME NEW q, NEW row \in TaskRow, q.op \in TransitionOps,
         q.seen \in TaskRow, Dated(q.seen), Allowed(q.op, q.seen),
         q.seen.completed => row.completed, q.seen.reviewer # None => row.reviewer # None,
         Dated(row)
  PROVE  /\ Moved(q, row) \in TaskRow /\ Dated(Moved(q, row)) /\ Reviewed(Moved(q, row))
         /\ row.completed => Moved(q, row).completed
         /\ Moved(q, row).reviewer = row.reviewer /\ Moved(q, row).assignee = row.assignee
         /\ <<q.seen.status, Moved(q, row).status>> \in TaskEdges
<1> DEFINE to == CHOOSE tr \in Transitions : tr[1] = q.seen.status /\ tr[2] = q.op
<1>1. PICK tr \in Transitions : tr = to /\ tr[1] = q.seen.status /\ tr[2] = q.op
  BY TransitionAllowed
<1>2. PICK done \in BOOLEAN :
        done = (row.completed \/ q.op = "complete" \/ (q.op = "verify" /\ ~q.seen.completed))
  OBVIOUS
<1>3. PICK sure \in BOOLEAN : sure = (row.verified \/ q.op = "verify")
  OBVIOUS
<1>4. Moved(q, row) = [row EXCEPT !.status = to[3],
        !.completed = @ \/ q.op = "complete" \/ (q.op = "verify" /\ ~q.seen.completed),
        !.verified = @ \/ q.op = "verify"]
  BY DEF Moved
<1> HIDE DEF to
<1>5. Moved(q, row) = [row EXCEPT !.status = tr[3], !.completed = done, !.verified = sure]
  BY <1>1, <1>2, <1>3, <1>4 DEF TaskRow
<1>6. tr[3] \in TaskStatus
  BY TransitionTable
<1>7. PICK new : new = [row EXCEPT !.status = tr[3], !.completed = done, !.verified = sure]
  OBVIOUS
<1>8. /\ new \in TaskRow
      /\ new.status = tr[3] /\ new.completed = done /\ new.verified = sure
      /\ new.reviewer = row.reviewer /\ new.assignee = row.assignee
  BY <1>6, <1>7 DEF TaskRow
<1>9. Moved(q, row) = new
  BY <1>5, <1>7
<1>10. Dated(new)
  BY <1>1, <1>2, <1>3, <1>8, TransitionTable DEF Dated
<1>11. ASSUME tr[3] = "PENDING_REVIEW" PROVE row.reviewer # None
  <2>1. tr[2] = "submit_review"
    BY <1>11, TransitionTable
  <2>2. q.seen.reviewer # None
    BY <1>1, <2>1, TransitionAllowed
  <2> QED
    BY <2>2
<1>12. Reviewed(new)
  BY <1>8, <1>11 DEF Reviewed
<1> QED
  BY <1>1, <1>2, <1>8, <1>9, <1>10, <1>12, TransitionTable

LEMMA NotifyIn ==
  ASSUME Inv, NEW kind \in NoticeType, NEW t \in Tasks, NEW u \in Users \cup {None},
         inbox' = Notify(inbox, kind, t, u), UNCHANGED scene
  PROVE  InboxIn'
<1>1. CASE u = None \/ inbox[<<kind, t, u>>] > 0
  BY <1>1, SameInbox DEF Notify
<1>2. CASE ~(u = None \/ inbox[<<kind, t, u>>] > 0)
  <2>1. inbox' = [inbox EXCEPT ![<<kind, t, u>>] = 1]
    BY <1>2 DEF Notify
  <2>2. inbox \in [Notices -> 0..2]
        /\ \A n \in Notices : inbox[n] > 1 => n[1] = "TASK_OVERDUE" /\ ~scene.serial
    BY DEF Inv, Tables, InboxIn
  <2> PICK m : m = <<kind, t, u>>
    OBVIOUS
  <2>3. inbox' = [inbox EXCEPT ![m] = 1]
    BY <2>1
  <2>4. inbox' \in [Notices -> 0..2]
    BY <2>2, <2>3, 1 \in 0..2, Zenon
  <2>5. \A n \in Notices : inbox'[n] = inbox[n] \/ inbox'[n] = 1
    BY <2>2, <2>3
  <2>6. \A n \in Notices : inbox'[n] > 1 => n[1] = "TASK_OVERDUE" /\ ~scene.serial
    BY <2>2, <2>5
  <2> QED
    BY <2>4, <2>6 DEF InboxIn
<1> QED
  BY <1>1, <1>2

LEMMA ToldIn ==
  ASSUME Inv, NEW q, NEW row \in TaskRow, q.id \in Tasks, inbox' = Told(q, row), UNCHANGED scene
  PROVE  InboxIn'
<1>1. row.reviewer \in Users \cup {None} /\ row.assignee \in Users \cup {None} /\ Author \in Users
  BY DEF TaskRow, Users
<1> QED
  BY <1>1, NotifyIn, SameInbox DEF Told, NoticeType

(* What a request about a task knows when it writes.                          *)
LEMMA TaskQuery ==
  ASSUME Inv, NEW w \in Crew, worker[w].pc = "task", Exists(worker[w].id)
  PROVE  /\ worker[w].id \in Tasks /\ worker[w].op \in TaskOp
         /\ worker[w].args \in TaskArgs(worker[w].op)
         /\ worker[w].seen \in TaskRow /\ Dated(worker[w].seen)
         /\ Allowed(worker[w].op, worker[w].seen) /\ worker[w].seen.status # "DELETED"
         /\ task[worker[w].id] # None
         /\ worker[w].seen.completed => task[worker[w].id].completed
         /\ worker[w].seen.reviewer # None => task[worker[w].id].reviewer # None
         /\ task[worker[w].id] \in TaskRow
         /\ Dated(task[worker[w].id]) /\ Reviewed(task[worker[w].id])
<1>1. LoadedIn(worker[w], task, obligation)
  BY DEF Inv
<1>2. worker[w].id \in Tasks /\ task[worker[w].id] # None
  BY <1>1 DEF LoadedIn
<1>3. task[worker[w].id] \in TaskRow /\ Dated(task[worker[w].id]) /\ Reviewed(task[worker[w].id])
  BY <1>2 DEF Inv, Tables, TasksIn
<1> QED
  BY <1>1, <1>3 DEF LoadedIn

LEMMA TransitionTaskInv ==
  ASSUME Inv, NEW w \in Crew, TransitionTask(w), UNCHANGED obligation
  PROVE  Inv'
<1>1. PICK q : q = worker[w]
  OBVIOUS
<1>2. /\ q.pc = "task" /\ q.op \in TransitionOps /\ Exists(q.id)
      /\ task'   = [task EXCEPT ![q.id] = Moved(q, task[q.id])]
      /\ inbox'  = Told(q, Moved(q, task[q.id]))
      /\ worker' = [worker EXCEPT ![w] = Idle]
      /\ UNCHANGED <<scene, today, restarted>>
  BY <1>1 DEF TransitionTask
<1>3. PICK row : row = Moved(q, task[q.id])
  OBVIOUS
<1>4. /\ row \in TaskRow /\ Dated(row) /\ Reviewed(row) /\ q.id \in Tasks
      /\ task[q.id].completed => row.completed
      /\ row.reviewer = task[q.id].reviewer
  BY <1>1, <1>2, <1>3, TaskQuery, MovedRow
<1>5. InboxIn'
  BY <1>2, <1>3, <1>4, ToldIn
<1>6. Tables' /\ Preserved
  BY <1>2, <1>3, <1>4, <1>5, TaskWritten
<1> QED
  BY <1>1, <1>2, <1>6, AnswerInv

(* update and assign write neither the status nor the dates, and no reviewer  *)
(* is taken away.                                                             *)
Edited(w) ==
  \E row \in TaskRow :
    /\ worker[w].pc = "task" /\ Exists(worker[w].id)
    /\ task' = [task EXCEPT ![worker[w].id] = row]
    /\ row.status = task[worker[w].id].status
    /\ row.completed = task[worker[w].id].completed
    /\ row.verified = task[worker[w].id].verified
    /\ task[worker[w].id].reviewer # None => row.reviewer # None
    /\ worker' = [worker EXCEPT ![w] = Idle] /\ UNCHANGED <<scene, today, inbox, restarted>>

LEMMA UpdateTaskEdits ==
  ASSUME Inv, NEW w \in Crew, UpdateTask(w)
  PROVE  Edited(w)
<1>1. PICK q : q = worker[w]
  OBVIOUS
<1>2. /\ q.pc = "task" /\ q.op = "update" /\ Exists(q.id)
      /\ task'   = [task EXCEPT ![q.id].due = Column(q.args.due, q.seen.due, @)]
      /\ worker' = [worker EXCEPT ![w] = Idle]
      /\ UNCHANGED <<scene, today, inbox, restarted>>
  BY <1>1 DEF UpdateTask
<1>3. /\ q.id \in Tasks /\ q.args \in [due : Days] /\ task[q.id] \in TaskRow
      /\ Dated(task[q.id]) /\ Reviewed(task[q.id])
  BY <1>1, <1>2, TaskQuery DEF TaskArgs
<1>4. PICK d \in Days : d = Column(q.args.due, q.seen.due, task[q.id].due)
  BY <1>3 DEF Column, TaskRow
<1>5. PICK row : row = [task[q.id] EXCEPT !.due = d]
  OBVIOUS
<1>6. task' = [task EXCEPT ![q.id] = row]
  BY <1>2, <1>4, <1>5, Zenon
<1>7. /\ row \in TaskRow /\ row.status = task[q.id].status /\ row.completed = task[q.id].completed
      /\ row.verified = task[q.id].verified /\ row.reviewer = task[q.id].reviewer
  BY <1>3, <1>5 DEF TaskRow
<1> QED
  BY <1>1, <1>2, <1>3, <1>6, <1>7 DEF Edited

LEMMA AssignTaskEdits ==
  ASSUME Inv, NEW w \in Crew, AssignTask(w)
  PROVE  Edited(w)
<1>1. PICK q : q = worker[w]
  OBVIOUS
<1>2. /\ q.pc = "task" /\ q.op = "assign" /\ Exists(q.id)
      /\ task'   = [task EXCEPT ![q.id].assignee = Column(q.args.assignee, q.seen.assignee, @),
                                ![q.id].reviewer = Column(q.args.reviewer, q.seen.reviewer, @)]
      /\ worker' = [worker EXCEPT ![w] = Idle]
      /\ UNCHANGED <<scene, today, inbox, restarted>>
  BY <1>1 DEF AssignTask
<1>3. /\ q.id \in Tasks /\ task[q.id] \in TaskRow /\ task[q.id] # None
      /\ q.args \in [assignee : Assignees \cup {None}, reviewer : Reviewers \cup {None}]
      /\ Dated(task[q.id]) /\ Reviewed(task[q.id])
  BY <1>1, <1>2, TaskQuery DEF TaskArgs
<1>4. PICK a \in Users \cup {None} : a = Column(q.args.assignee, q.seen.assignee, task[q.id].assignee)
  BY <1>3 DEF Column, TaskRow, Users
<1>5. PICK r \in Users \cup {None} :
        /\ r = Column(q.args.reviewer, q.seen.reviewer, task[q.id].reviewer)
        /\ task[q.id].reviewer # None => r # None
  BY <1>3 DEF Column, TaskRow, Users
<1>6. PICK half : half = [task[q.id] EXCEPT !.assignee = a]
  OBVIOUS
<1>7. /\ half \in TaskRow /\ half.status = task[q.id].status /\ half.completed = task[q.id].completed
      /\ half.verified = task[q.id].verified /\ half.reviewer = task[q.id].reviewer
  BY <1>3, <1>6 DEF TaskRow
<1>8. PICK row : row = [half EXCEPT !.reviewer = r]
  OBVIOUS
<1>9. /\ row \in TaskRow /\ row.status = half.status /\ row.completed = half.completed
      /\ row.verified = half.verified /\ row.reviewer = r
  BY <1>7, <1>8 DEF TaskRow
<1>10. PICK mid : mid = [task EXCEPT ![q.id] = half]
  OBVIOUS
<1>11. mid[q.id] = half
  BY <1>3, <1>10 DEF Inv, Tables, TasksIn
<1>12. mid = [task EXCEPT ![q.id].assignee = Column(q.args.assignee, q.seen.assignee, @)]
  BY <1>4, <1>6, <1>10, Zenon
<1>13. task' = [mid EXCEPT ![q.id].reviewer = Column(q.args.reviewer, q.seen.reviewer, @)]
  BY <1>2, <1>12, Zenon
<1>14. task' = [mid EXCEPT ![q.id] = row]
  BY <1>5, <1>7, <1>8, <1>11, <1>13, Zenon
<1>15. task' = [task EXCEPT ![q.id] = row]
  BY <1>10, <1>14 DEF Inv, Tables, TasksIn
<1> QED
  BY <1>1, <1>2, <1>3, <1>5, <1>7, <1>9, <1>15 DEF Edited

LEMMA EditInv ==
  ASSUME Inv, NEW w \in Crew, UpdateTask(w) \/ AssignTask(w), UNCHANGED obligation
  PROVE  Inv'
<1>1. PICK q : q = worker[w]
  OBVIOUS
<1>2. PICK row \in TaskRow :
        /\ q.pc = "task" /\ Exists(q.id) /\ task' = [task EXCEPT ![q.id] = row]
        /\ row.status = task[q.id].status /\ row.completed = task[q.id].completed
        /\ row.verified = task[q.id].verified
        /\ task[q.id].reviewer # None => row.reviewer # None
        /\ worker' = [worker EXCEPT ![w] = Idle] /\ UNCHANGED <<scene, today, inbox, restarted>>
  BY <1>1, UpdateTaskEdits, AssignTaskEdits DEF Edited
<1>3. q.id \in Tasks /\ Dated(task[q.id]) /\ Reviewed(task[q.id])
  BY <1>1, <1>2, TaskQuery
<1>4. Dated(row) /\ Reviewed(row)
  BY <1>2, <1>3 DEF Dated, Reviewed
<1>5. Tables' /\ Preserved
  BY <1>2, <1>3, <1>4, SameInbox, TaskWritten
<1> QED
  BY <1>1, <1>2, <1>5, AnswerInv

LEMMA DeleteTaskInv ==
  ASSUME Inv, NEW w \in Crew, DeleteTask(w), UNCHANGED obligation
  PROVE  Inv'
<1>1. PICK q : q = worker[w]
  OBVIOUS
<1>2. /\ q.pc = "task" /\ q.op = "delete" /\ Exists(q.id)
      /\ task'   = [task EXCEPT ![q.id].status = "DELETED"]
      /\ worker' = [worker EXCEPT ![w] = Idle]
      /\ UNCHANGED <<scene, today, inbox, restarted>>
  BY <1>1 DEF DeleteTask
<1>3. q.id \in Tasks /\ task[q.id] \in TaskRow /\ Dated(task[q.id])
  BY <1>1, <1>2, TaskQuery
<1>4. PICK row : row = [task[q.id] EXCEPT !.status = "DELETED"]
  OBVIOUS
<1>5. task' = [task EXCEPT ![q.id] = row]
  BY <1>2, <1>4, Zenon
<1>6. /\ row \in TaskRow /\ row.status = "DELETED" /\ row.completed = task[q.id].completed
      /\ row.verified = task[q.id].verified /\ row.reviewer = task[q.id].reviewer
  BY <1>3, <1>4 DEF TaskRow, TaskStatus
<1>7. Dated(row) /\ Reviewed(row)
  BY <1>3, <1>6 DEF Dated, Reviewed
<1>8. Tables' /\ Preserved
  BY <1>2, <1>3, <1>5, <1>6, <1>7, SameInbox, TaskWritten
<1> QED
  BY <1>1, <1>2, <1>8, AnswerInv

LEMMA MarkReadInv ==
  ASSUME Inv, NEW w \in Crew, MarkRead(w), UNCHANGED obligation
  PROVE  Inv'
<1>1. PICK n \in Notices : inbox[n] > 0 /\ inbox' = [inbox EXCEPT ![n] = @ - 1]
  BY DEF MarkRead
<1>2. UNCHANGED <<scene, today, task, worker, restarted>> /\ Free(w)
  BY DEF MarkRead, Asked
<1>3. inbox \in [Notices -> 0..2]
      /\ \A m \in Notices : inbox[m] > 1 => m[1] = "TASK_OVERDUE" /\ ~scene.serial
  BY DEF Inv, Tables, InboxIn
<1>4. inbox' \in [Notices -> 0..2] /\ \A m \in Notices : inbox'[m] <= inbox[m]
  BY <1>1, <1>3
<1>5. InboxIn'
  BY <1>2, <1>3, <1>4 DEF InboxIn
<1>6. TasksIn' /\ ObligationsIn'
  BY <1>2 DEF Inv, Tables, TasksIn, ObligationsIn
<1>7. Preserved
  BY <1>2 DEF Preserved
<1> QED
  BY <1>2, <1>5, <1>6, <1>7, StayInv DEF Tables

LEMMA MarkAllReadInv ==
  ASSUME Inv, NEW w \in Crew, MarkAllRead(w), UNCHANGED obligation
  PROVE  Inv'
<1>1. PICK u \in Users : inbox' = [n \in Notices |-> IF n[3] = u THEN 0 ELSE inbox[n]]
  BY DEF MarkAllRead
<1>2. UNCHANGED <<scene, today, task, worker, restarted>> /\ Free(w)
  BY DEF MarkAllRead, Asked
<1>3. inbox \in [Notices -> 0..2]
      /\ \A m \in Notices : inbox[m] > 1 => m[1] = "TASK_OVERDUE" /\ ~scene.serial
  BY DEF Inv, Tables, InboxIn
<1>4. inbox' \in [Notices -> 0..2] /\ \A m \in Notices : inbox'[m] <= inbox[m]
  BY <1>1, <1>3
<1>5. InboxIn'
  BY <1>2, <1>3, <1>4 DEF InboxIn
<1>6. TasksIn' /\ ObligationsIn'
  BY <1>2 DEF Inv, Tables, TasksIn, ObligationsIn
<1>7. Preserved
  BY <1>2 DEF Preserved
<1> QED
  BY <1>2, <1>5, <1>6, <1>7, StayInv DEF Tables

LEMMA TaskRequestInv ==
  ASSUME Inv, NEW w \in Crew, TaskRequest(w), UNCHANGED <<obligation, books>>
  PROVE  Inv'
BY CreateTaskInv, LoadTaskInv, AbandonInv, TransitionTaskInv, EditInv,
   DeleteTaskInv, MarkReadInv, MarkAllReadInv, Zenon DEF TaskRequest

-------------------------------------------------------------------------------
(* Requests about obligations.                                                *)

LEMMA ReadinessType ==
  ASSUME NEW nature, NEW answers
  PROVE  Readiness(nature, answers) \in Ready
BY DEF Readiness, Ready

LEMMA LookUpInv ==
  ASSUME Inv, NEW w \in Crew, LookUp(w)
  PROVE  Inv'
<1>1. PICK op \in {"create", "generate"}, k \in scene.keys :
        /\ AskedFor(w, op) /\ Keyed(k) = {}
        /\ worker' = [worker EXCEPT ![w] = [Idle EXCEPT !.pc = "new", !.op = op, !.id = k]]
        /\ UNCHANGED <<scene, today, task, inbox, restarted, obligation, books>>
  BY DEF LookUp
<1>2. PICK q : q = [Idle EXCEPT !.pc = "new", !.op = op, !.id = k]
  OBVIOUS
<1>3. k \in Keys
  BY KeyAssumption DEF Inv
<1>4. /\ q \in Query /\ q.pc = "new" /\ q.id = k
      /\ q.tasks = <<>> /\ q.obligations = <<>>
  BY <1>2, <1>3 DEF Idle, Query, Payload
<1>5. LoadedIn(q, task', obligation')
  BY <1>3, <1>4 DEF LoadedIn
<1>6. FreshIn(q, task', obligation', inbox')
  BY <1>1, <1>4 DEF FreshIn, Keyed, Kept
<1>7. Tables' /\ Preserved /\ Alone(w)
  BY <1>1, Untouched, FreeAlone DEF AskedFor
<1>8. worker' = [worker EXCEPT ![w] = q]
  BY <1>1, <1>2, Zenon
<1> QED
  BY <1>1, <1>4, <1>5, <1>6, <1>7, <1>8, StepInv

LEMMA InsertObligationInv ==
  ASSUME Inv, NEW w \in Crew, InsertObligation(w)
  PROVE  Inv'
<1>1. PICK q : q = worker[w]
  OBVIOUS
<1>2. PICK ready \in Ready : ready = Readiness(Nature[q.id], books)
  BY ReadinessType
<1>3. PICK o \in Obligations \cap scene.ids, long \in scene.names,
           a \in Assignees \cup {None}, r \in Reviewers \cup {None}, d \in Days :
        /\ obligation[o] = None
        /\ obligation' = [obligation EXCEPT ![o] = NewObligation(q.id, long, q.op, ready, a, r, d)]
  BY <1>1, <1>2 DEF InsertObligation
<1>3a. long \in BOOLEAN
  BY KeyAssumption DEF Inv
<1>4. PICK row : row = NewObligation(q.id, long, q.op, ready, a, r, d)
  OBVIOUS
<1>5. /\ q.pc = "new" /\ (q.id \notin OpenKeys => Keyed(q.id) = {})
      /\ worker' = [worker EXCEPT ![w] = Idle]
      /\ UNCHANGED <<scene, today, task, inbox, restarted, books>>
  BY <1>1 DEF InsertObligation
<1>6. q.id \in Keys /\ (scene.serial => \A p \in Obligations : obligation[p] # None => obligation[p].key # q.id)
  BY <1>1, <1>5 DEF Inv, LoadedIn, FreshIn
<1>7. row \in ObligationRow /\ row.key = q.id
  BY <1>4, <1>6, <1>3a DEF NewObligation, ObligationRow, ObligationStatus, Users, Ready
<1>8. \/ row.key \in OpenKeys /\ ~scene.serial
      \/ \A p \in Obligations : obligation[p] # None => obligation[p].key # row.key
  BY <1>5, <1>6, <1>7 DEF Keyed, Kept
<1>9. Tables' /\ Preserved
  BY <1>3, <1>4, <1>5, <1>7, <1>8, ObligationWritten
<1> QED
  BY <1>1, <1>5, <1>9, AnswerInv

LEMMA LoadObligationInv ==
  ASSUME Inv, NEW w \in Crew, LoadObligation(w)
  PROVE  Inv'
<1>1. PICK op \in ObligationOp, o \in Obligations \cap scene.ids :
        /\ AskedFor(w, op) /\ Kept(o) /\ Permitted(op, obligation[o])
        /\ \E args \in ObligationArgs(op) :
             worker' = [worker EXCEPT ![w] =
               [Idle EXCEPT !.pc = IF op \in Evaluated THEN "evaluating" ELSE "obligation",
                            !.op = op, !.id = o, !.args = args, !.seen = obligation[o]]]
        /\ UNCHANGED <<scene, today, task, inbox, restarted, obligation, books>>
  BY DEF LoadObligation, ObligationOp
<1>2. PICK args \in ObligationArgs(op) :
        worker' = [worker EXCEPT ![w] =
          [Idle EXCEPT !.pc = IF op \in Evaluated THEN "evaluating" ELSE "obligation",
                       !.op = op, !.id = o, !.args = args, !.seen = obligation[o]]]
  BY <1>1
<1>3. PICK pc \in {"evaluating", "obligation"} :
        pc = IF op \in Evaluated THEN "evaluating" ELSE "obligation"
  OBVIOUS
<1>4. PICK q : q = [Idle EXCEPT !.pc = pc, !.op = op, !.id = o, !.args = args, !.seen = obligation[o]]
  OBVIOUS
<1>5. obligation[o] \in ObligationRow /\ obligation[o] # None
  BY <1>1 DEF Kept, Inv, Tables, ObligationsIn
<1>5a. op \notin Evaluated => args \in Says(op)
  <2>1. scene.names \subseteq BOOLEAN
    BY KeyAssumption DEF Inv
  <2>2. PatchArgs \subseteq Patches
    BY <2>1 DEF PatchArgs, Patches
  <2> QED
    BY <2>2 DEF ObligationArgs, Says
<1>6. args \in Payload
  BY <1>5a DEF ObligationArgs, Payload, Says, Evaluated
<1>7. /\ q.pc = pc /\ q.op = op /\ q.id = o /\ q.args = args /\ q.seen = obligation[o]
      /\ q.tasks = <<>> /\ q.told = {} /\ q.obligations = <<>>
  BY <1>4 DEF Idle
<1>8. q \in Query
  BY <1>4, <1>5, <1>6 DEF Query, Idle
<1>9. /\ q.pc = "evaluating" => op \in Evaluated
      /\ q.pc = "obligation" => op \notin Evaluated
  BY <1>3, <1>7
<1>10. LoadedIn(q, task', obligation')
  BY <1>1, <1>5, <1>7, <1>9, <1>5a DEF LoadedIn
<1>11. FreshIn(q, task', obligation', inbox')
  BY <1>7 DEF FreshIn
<1>12. Tables' /\ Preserved /\ Alone(w)
  BY <1>1, Untouched, FreeAlone DEF AskedFor
<1>13. worker' = [worker EXCEPT ![w] = q]
  BY <1>2, <1>3, <1>4, Zenon
<1> QED
  BY <1>1, <1>8, <1>10, <1>11, <1>12, <1>13, StepInv

LEMMA EvaluateInv ==
  ASSUME Inv, NEW w \in Crew, Evaluate(w)
  PROVE  Inv'
<1>1. PICK p \in Query : p = worker[w]
  BY DEF Inv
<1>2. PICK ready \in Ready : ready = Readiness(Nature[p.seen.key], books)
  BY ReadinessType
<1>3. /\ p.pc = "evaluating" /\ UNCHANGED <<scene, today, task, inbox, restarted, obligation>>
      /\ worker' = [worker EXCEPT ![w] =
           IF ~Evaluable(Nature[p.seen.key], books) \/ (ready = "BLOCKED" /\ p.op # "run_readiness")
           THEN Idle
           ELSE [p EXCEPT !.pc = "obligation", !.args = ready]]
  BY <1>1, <1>2, Zenon DEF Evaluate
<1>4. Tables' /\ Preserved
  BY <1>3, Untouched
<1>5. CASE ~Evaluable(Nature[p.seen.key], books) \/ (ready = "BLOCKED" /\ p.op # "run_readiness")
  BY <1>1, <1>3, <1>4, <1>5, AnswerInv
<1>6. CASE ~(~Evaluable(Nature[p.seen.key], books) \/ (ready = "BLOCKED" /\ p.op # "run_readiness"))
  <2>1. PICK q : q = [p EXCEPT !.pc = "obligation", !.args = ready]
    OBVIOUS
  <2>2. worker' = [worker EXCEPT ![w] = q]
    BY <1>3, <1>6, <2>1
  <2>3. /\ q \in Query /\ q.pc = "obligation" /\ q.args = ready /\ q.op = p.op /\ q.id = p.id
        /\ q.seen = p.seen /\ q.tasks = p.tasks /\ q.told = p.told /\ q.obligations = p.obligations
    BY <2>1 DEF Query, Payload
  <2>4. LoadedIn(p, task, obligation) /\ (scene.serial => FreshIn(p, task, obligation, inbox))
    BY <1>1 DEF Inv
  <2>5. LoadedIn(q, task', obligation')
    BY <1>3, <2>3, <2>4 DEF LoadedIn
  <2>6. scene.serial => FreshIn(q, task', obligation', inbox')
    BY <1>3, <2>3, <2>4 DEF FreshIn
  <2>7. Alone(w)
    BY <1>1, <1>3, FreeAlone
  <2> QED
    BY <1>3, <1>4, <2>2, <2>3, <2>5, <2>6, <2>7, StepInv
<1> QED
  BY <1>5, <1>6

(* What a request about an obligation knows when it writes.                   *)
LEMMA ObligationQuery ==
  ASSUME Inv, NEW w \in Crew, worker[w].pc = "obligation"
  PROVE  /\ worker[w].id \in Obligations /\ worker[w].op \in ObligationOp
         /\ worker[w].seen \in ObligationRow /\ Permitted(worker[w].op, worker[w].seen)
         /\ obligation[worker[w].id] # None /\ obligation[worker[w].id] \in ObligationRow
         /\ worker[w].op \in Evaluated => worker[w].args \in Ready
         /\ worker[w].op \notin Evaluated => worker[w].args \in Says(worker[w].op)
<1>1. LoadedIn(worker[w], task, obligation)
  BY DEF Inv
<1>2. worker[w].id \in Obligations /\ obligation[worker[w].id] # None
  BY <1>1 DEF LoadedIn
<1>3. obligation[worker[w].id] \in ObligationRow
  BY <1>2 DEF Inv, Tables, ObligationsIn
<1> QED
  BY <1>1, <1>3 DEF LoadedIn

LEMMA WriteInv ==
  ASSUME Inv, NEW w \in Crew, worker[w].pc = "obligation", NEW row \in ObligationRow,
         row.key = obligation[worker[w].id].key, Write(w, row)
  PROVE  Inv'
<1>1. PICK o \in Obligations : o = worker[w].id /\ obligation[o] # None
  BY ObligationQuery
<1>2. /\ obligation' = [obligation EXCEPT ![o] = row]
      /\ worker' = [worker EXCEPT ![w] = Idle]
      /\ UNCHANGED <<scene, today, task, inbox, restarted>>
  BY <1>1 DEF Write
<1>3. Tables' /\ Preserved
  BY <1>1, <1>2, ObligationWritten
<1> QED
  BY <1>2, <1>3, AnswerInv

LEMMA MovedToRow ==
  ASSUME Inv, NEW w \in Crew, worker[w].pc = "obligation", NEW to \in ObligationStatus
  PROVE  /\ MovedTo(w, to) \in ObligationRow
         /\ MovedTo(w, to).key = obligation[worker[w].id].key
         /\ MovedTo(w, to).status = Dirty(to, worker[w].seen.status, obligation[worker[w].id].status)
<1>1. PICK row \in ObligationRow : row = obligation[worker[w].id]
  BY ObligationQuery
<1>2. PICK s \in ObligationStatus : s = Dirty(to, worker[w].seen.status, row.status)
  BY DEF Dirty, ObligationRow
<1>3. MovedTo(w, to) = [row EXCEPT !.status = s]
  BY <1>1, <1>2 DEF MovedTo
<1>4. PICK new : new = [row EXCEPT !.status = s]
  OBVIOUS
<1>5. new \in ObligationRow /\ new.key = row.key /\ new.status = s
  BY <1>4 DEF ObligationRow
<1> QED
  BY <1>1, <1>2, <1>3, <1>4, <1>5

LEMMA AssessedRow ==
  ASSUME NEW w, NEW row \in ObligationRow, worker[w].args \in Ready
  PROVE  /\ Assessed(w, row) \in ObligationRow /\ Assessed(w, row).key = row.key
         /\ Assessed(w, row).status = row.status
<1>1. PICK r \in Ready : r = Dirty(worker[w].args, worker[w].seen.readiness, row.readiness)
  BY DEF Dirty, ObligationRow, Ready
<1>2. PICK new : new = [row EXCEPT !.readiness = r]
  OBVIOUS
<1>3. Assessed(w, row) = new
  BY <1>1, <1>2 DEF Assessed
<1>4. new \in ObligationRow /\ new.key = row.key /\ new.status = row.status
  BY <1>2 DEF ObligationRow, Ready
<1> QED
  BY <1>3, <1>4

(* An operation of the table: the status it moves to, and from where.         *)
LEMMA ToStatus ==
  /\ To["submit_review"] = "READY_FOR_REVIEW" /\ To["approve"] = "APPROVED"
  /\ To["reject"] = "REJECTED" /\ To["complete"] = "COMPLETED"
  /\ To["reopen"] = "REOPENED" /\ To["assign"] = "ASSIGNED"
BY DEF To

LEMMA MoveInv ==
  ASSUME Inv, NEW w \in Crew, Approve(w) \/ Reject(w) \/ Reopen(w)
  PROVE  Inv'
<1>1. PICK to \in ObligationStatus : worker[w].pc = "obligation" /\ Write(w, MovedTo(w, to))
  BY ToStatus DEF Approve, Reject, Reopen, Serving, ObligationStatus, Closed
<1> QED
  BY <1>1, MovedToRow, WriteInv

LEMMA AfterReadinessType ==
  ASSUME NEW seen \in ObligationRow, NEW ready
  PROVE  AfterReadiness(seen, ready) \in ObligationStatus
BY DEF AfterReadiness, ObligationRow, ObligationStatus

LEMMA EvaluatedInv ==
  ASSUME Inv, NEW w \in Crew, SubmitReview(w) \/ Complete(w) \/ RunReadiness(w)
  PROVE  Inv'
<1>1. worker[w].pc = "obligation" /\ worker[w].op \in Evaluated
  BY DEF SubmitReview, Complete, RunReadiness, Serving, Evaluated
<1>2. AfterReadiness(worker[w].seen, worker[w].args) \in ObligationStatus
  BY <1>1, ObligationQuery, AfterReadinessType
<1>3. PICK to \in ObligationStatus : Write(w, Assessed(w, MovedTo(w, to)))
  BY <1>2, ToStatus DEF SubmitReview, Complete, RunReadiness, ObligationStatus, Closed
<1> QED
  BY <1>1, <1>3, ObligationQuery, MovedToRow, AssessedRow, WriteInv

LEMMA AssignShape ==
  ASSUME Inv, NEW w \in Crew, Assign(w)
  PROVE  \E to \in ObligationStatus, row \in ObligationRow :
           /\ worker[w].pc = "obligation" /\ worker[w].op = "assign" /\ Write(w, row)
           /\ row.key = obligation[worker[w].id].key
           /\ row.status = Dirty(to, worker[w].seen.status, obligation[worker[w].id].status)
           /\ worker[w].seen.status \in Closed => to = worker[w].seen.status
<1>1. PICK q : q = worker[w]
  OBVIOUS
<1>2. PICK to : to = IF q.seen.assignee = None /\ q.seen.status \in From["assign"]
                     THEN To["assign"] ELSE q.seen.status
  OBVIOUS
<1>3. /\ q.pc = "obligation" /\ q.op = "assign"
      /\ Write(w, [MovedTo(w, to) EXCEPT !.assignee = Dirty(q.args.assignee, q.seen.assignee, @),
                                         !.reviewer = Dirty(q.args.reviewer, q.seen.reviewer, @)])
  BY <1>1, <1>2, Zenon DEF Assign, Serving
<1>4. /\ q.seen \in ObligationRow
      /\ q.args \in [assignee : Assignees \cup {None}, reviewer : Reviewers \cup {None}]
  BY <1>1, <1>3, ObligationQuery DEF Evaluated, Says
<1>5. q.seen.status \in ObligationStatus /\ From["assign"] = {"DRAFT", "ACTIVE", "REOPENED"}
  BY <1>4 DEF ObligationRow, From
<1>6. to \in ObligationStatus /\ (q.seen.status \in Closed => to = q.seen.status)
  BY <1>2, <1>5, ToStatus DEF ObligationStatus, Closed
<1>7. PICK moved \in ObligationRow :
        /\ moved = MovedTo(w, to) /\ moved.key = obligation[worker[w].id].key
        /\ moved.status = Dirty(to, worker[w].seen.status, obligation[worker[w].id].status)
  BY <1>1, <1>3, <1>6, MovedToRow
<1>8. PICK a \in Users \cup {None}, r \in Users \cup {None} :
        /\ a = Dirty(q.args.assignee, q.seen.assignee, moved.assignee)
        /\ r = Dirty(q.args.reviewer, q.seen.reviewer, moved.reviewer)
  BY <1>4 DEF Dirty, ObligationRow, Users
<1>9. PICK row : row = [moved EXCEPT !.assignee = a, !.reviewer = r]
  OBVIOUS
<1>10. row \in ObligationRow /\ row.key = moved.key /\ row.status = moved.status
  BY <1>9 DEF ObligationRow
<1>11. PICK half : half = [moved EXCEPT !.assignee = Dirty(q.args.assignee, q.seen.assignee, @)]
  OBVIOUS
<1>12. half.reviewer = moved.reviewer
  BY <1>11 DEF ObligationRow
<1>13. row = [half EXCEPT !.reviewer = Dirty(q.args.reviewer, q.seen.reviewer, @)]
  BY <1>8, <1>9, <1>11, <1>12, Zenon
<1>14. Write(w, row)
  BY <1>3, <1>7, <1>11, <1>13, Zenon
<1> QED
  BY <1>1, <1>3, <1>6, <1>7, <1>10, <1>14

LEMMA AssignInv ==
  ASSUME Inv, NEW w \in Crew, Assign(w)
  PROVE  Inv'
BY AssignShape, WriteInv

LEMMA PatchedRow ==
  ASSUME NEW row \in ObligationRow, NEW seen, NEW args \in Patches
  PROVE  /\ Patched(row, seen, args) \in ObligationRow /\ Patched(row, seen, args).key = row.key
         /\ Patched(row, seen, args).status \in {row.status, args.value}
<1>1. \/ args \in [column : {"status"}, value : ObligationStatus]
      \/ args \in [column : {"due"}, value : Days]
      \/ args \in [column : {"active", "name"}, value : BOOLEAN]
      \/ args \in [column : {"assignee"}, value : Assignees \cup {None}]
      \/ args \in [column : {"reviewer"}, value : Reviewers \cup {None}]
  BY DEF Patches
<1>2. CASE args \in [column : {"status"}, value : ObligationStatus]
  BY <1>2 DEF Patched, Dirty, ObligationRow
<1>3. CASE args \in [column : {"due"}, value : Days]
  BY <1>3 DEF Patched, Dirty, ObligationRow
<1>4. CASE args \in [column : {"active", "name"}, value : BOOLEAN]
  BY <1>4 DEF Patched, Dirty, ObligationRow
<1>5. CASE args \in [column : {"assignee"}, value : Assignees \cup {None}]
  BY <1>5 DEF Patched, Dirty, ObligationRow, Users
<1>6. CASE args \in [column : {"reviewer"}, value : Reviewers \cup {None}]
  BY <1>6 DEF Patched, Dirty, ObligationRow, Users
<1> QED
  BY <1>1, <1>2, <1>3, <1>4, <1>5, <1>6

LEMMA UpdateInv ==
  ASSUME Inv, NEW w \in Crew, Update(w)
  PROVE  Inv'
<1>1. /\ worker[w].pc = "obligation" /\ worker[w].op = "update"
      /\ Write(w, Patched(obligation[worker[w].id], worker[w].seen, worker[w].args))
  BY DEF Update, Serving
<1>2. worker[w].args \in Patches /\ obligation[worker[w].id] \in ObligationRow
  BY <1>1, ObligationQuery DEF Evaluated, Says
<1> QED
  BY <1>1, <1>2, PatchedRow, WriteInv

LEMMA GenerateTaskInv ==
  ASSUME Inv, NEW w \in Crew, GenerateTask(w)
  PROVE  Inv'
<1> DEFINE Or(given, own) == IF given = None THEN own ELSE given
<1>1. PICK q : q = worker[w]
  OBVIOUS
<1>2. /\ q.pc = "obligation" /\ worker' = [worker EXCEPT ![w] = Idle]
      /\ UNCHANGED <<scene, today, inbox, restarted, obligation>>
  BY <1>1 DEF GenerateTask
<1>3. PICK t \in Tasks \cap scene.ids, a \in Assignees \cup {None}, r \in Reviewers \cup {None} :
        /\ task[t] = None
        /\ task' = [task EXCEPT ![t] = NewTask(Or(a, q.seen.assignee), Or(r, q.seen.reviewer), q.seen.due)]
  BY <1>1 DEF GenerateTask
<1>4. /\ Or(a, q.seen.assignee) \in Users \cup {None} /\ Or(r, q.seen.reviewer) \in Users \cup {None}
      /\ q.seen.due \in Days
  <2>1. q.seen \in ObligationRow
    BY <1>1, <1>2, ObligationQuery
  <2> QED
    BY <2>1 DEF ObligationRow, Users
<1> HIDE DEF Or
<1>5. Tables' /\ Preserved
  BY <1>2, <1>3, <1>4, NewTaskRow, SameInbox, TaskWritten
<1> QED
  BY <1>1, <1>2, <1>5, AnswerInv

-------------------------------------------------------------------------------
(* The sweep.                                                                 *)

LEMMA ListTasksInv ==
  ASSUME Inv, NEW w \in Crew, ListTasks(w)
  PROVE  Inv'
<1>1. PICK rows : rows = [t \in Listed |-> task[t]]
  OBVIOUS
<1>2. PICK q : q = [Idle EXCEPT !.pc = "listed", !.op = "sweep", !.tasks = rows]
  OBVIOUS
<1>3. /\ Free(w) /\ UNCHANGED <<scene, today, task, inbox, restarted, obligation, books>>
      /\ worker' = [worker EXCEPT ![w] = q]
  BY <1>1, <1>2, Zenon DEF ListTasks
<1>4. \A t \in Listed : t \in Tasks /\ task[t] # None /\ task[t] \in TaskRow /\ task[t].status \in OpenForSweep
  BY DEF Listed, Exists, Inv, Tables, TasksIn
<1>5. rows \in UNION {[S -> TaskRow] : S \in SUBSET Tasks}
  <2>1. rows \in [Listed -> TaskRow] /\ Listed \in SUBSET Tasks
    BY <1>1, <1>4
  <2> QED
    BY <2>1
<1>6. q \in Query /\ q.pc = "listed" /\ q.tasks = rows /\ q.obligations = <<>>
  BY <1>2, <1>5 DEF Idle, Query, Payload
<1>7. DOMAIN rows = Listed /\ \A t \in Listed : rows[t] = task[t]
  BY <1>1
<1>8. LoadedIn(q, task', obligation')
  BY <1>3, <1>4, <1>6, <1>7 DEF LoadedIn
<1>9. FreshIn(q, task', obligation', inbox')
  BY <1>3, <1>4, <1>6, <1>7 DEF FreshIn
<1>10. Tables' /\ Preserved /\ Alone(w)
  BY <1>3, Untouched, FreeAlone
<1> QED
  BY <1>3, <1>6, <1>8, <1>9, <1>10, StepInv

LEMMA DedupeInv ==
  ASSUME Inv, NEW w \in Crew, Dedupe(w)
  PROVE  Inv'
<1>1. PICK p \in Query : p = worker[w]
  BY DEF Inv
<1>2. PICK pc \in {"half", "sweep"} : pc = IF w = Scheduler THEN "half" ELSE "sweep"
  OBVIOUS
<1>3. PICK told : told = AlreadyTold(p.tasks)
  OBVIOUS
<1>4. /\ p.pc = "listed" /\ UNCHANGED <<scene, today, task, inbox, restarted, obligation, books>>
      /\ worker' = [worker EXCEPT ![w].pc = pc, ![w].told = told]
  BY <1>1, <1>2, <1>3, Zenon DEF Dedupe
<1>5. LoadedIn(p, task, obligation) /\ (scene.serial => FreshIn(p, task, obligation, inbox))
  BY <1>1 DEF Inv
<1>6. told \in SUBSET Tasks
  BY <1>3, <1>5 DEF AlreadyTold, LoadedIn
<1>7. PICK q : q = [p EXCEPT !.pc = pc, !.told = told]
  OBVIOUS
<1>8. /\ q \in Query /\ q.pc = pc /\ q.told = told
      /\ q.tasks = p.tasks /\ q.obligations = p.obligations
  BY <1>6, <1>7 DEF Query
<1>9. worker' = [worker EXCEPT ![w] = q]
  <2>1. PICK r : r = [p EXCEPT !.pc = pc]
    OBVIOUS
  <2>2. PICK mid : mid = [worker EXCEPT ![w] = r]
    OBVIOUS
  <2>3. mid[w] = r /\ worker' = [mid EXCEPT ![w].told = told]
    <3>1. mid[w] = r
      BY <2>2 DEF Inv
    <3>2. mid = [worker EXCEPT ![w].pc = pc]
      BY <1>1, <2>1, <2>2, Zenon
    <3> QED
      BY <1>4, <3>1, <3>2, Zenon
  <2>4. q = [r EXCEPT !.told = told]
    BY <1>7, <2>1, Zenon
  <2>5. worker' = [mid EXCEPT ![w] = q]
    BY <2>3, <2>4, Zenon
  <2> QED
    BY <2>2, <2>5 DEF Inv
<1>10. LoadedIn(q, task', obligation')
  BY <1>2, <1>4, <1>5, <1>8 DEF LoadedIn
<1>11. ASSUME scene.serial PROVE FreshIn(q, task', obligation', inbox')
  <2>1. ASSUME NEW t \in DOMAIN p.tasks, t \notin told, p.tasks[t].assignee # None
        PROVE  inbox[<<"TASK_OVERDUE", t, p.tasks[t].assignee>>] = 0
    <3>1. t \in Tasks /\ task[t] = p.tasks[t] /\ task[t] \in TaskRow
      BY <1>5, <1>11, <2>1 DEF LoadedIn, FreshIn, Inv, Tables, TasksIn
    <3>2. p.tasks[t].assignee \in Users
      BY <2>1, <3>1 DEF TaskRow
    <3>3. PICK n \in Notices : n = <<"TASK_OVERDUE", t, p.tasks[t].assignee>>
      BY <3>1, <3>2 DEF Notices, NoticeType
    <3>4. ~(inbox[n] > 0)
      BY <1>3, <2>1, <3>3 DEF AlreadyTold, Unread
    <3>5. inbox[n] \in 0..2
      BY DEF Inv, Tables, InboxIn
    <3> QED
      BY <3>3, <3>4, <3>5
  <2>2. \A t \in DOMAIN p.tasks : task[t] = p.tasks[t] /\ p.tasks[t].status \in OpenForSweep
    BY <1>5, <1>11 DEF FreshIn
  <2> QED
    BY <1>2, <1>4, <1>8, <2>1, <2>2 DEF FreshIn
<1>12. Tables' /\ Preserved /\ Alone(w)
  BY <1>1, <1>4, Untouched, FreeAlone
<1> QED
  BY <1>4, <1>8, <1>9, <1>10, <1>11, <1>12, StepInv

LEMMA ListObligationsInv ==
  ASSUME Inv, NEW w \in Crew, ListObligations(w)
  PROVE  Inv'
<1>1. PICK p \in Query : p = worker[w]
  BY DEF Inv
<1>2. PICK rows : rows = [o \in PastDue |-> obligation[o]]
  OBVIOUS
<1>3. /\ p.pc = "half" \/ Free(w)
      /\ UNCHANGED <<scene, today, task, inbox, restarted, obligation, books>>
      /\ worker' = [worker EXCEPT ![w].pc = "sweep", ![w].op = "sweep", ![w].obligations = rows]
  BY <1>1, <1>2, Zenon DEF ListObligations, AskedFor
<1>4. \A o \in PastDue : o \in Obligations /\ obligation[o] # None /\ obligation[o] \in ObligationRow
  BY DEF PastDue, Kept, Inv, Tables, ObligationsIn
<1>5. rows \in UNION {[S -> ObligationRow] : S \in SUBSET Obligations}
  <2>1. rows \in [PastDue -> ObligationRow] /\ PastDue \in SUBSET Obligations
    BY <1>2, <1>4
  <2> QED
    BY <2>1
<1>6. LoadedIn(p, task, obligation) /\ (scene.serial => FreshIn(p, task, obligation, inbox))
  BY <1>1 DEF Inv
<1>7. PICK q : q = [p EXCEPT !.pc = "sweep", !.op = "sweep", !.obligations = rows]
  OBVIOUS
<1>8. /\ q \in Query /\ q.pc = "sweep" /\ q.told = p.told
      /\ q.tasks = p.tasks /\ q.obligations = rows
  BY <1>5, <1>7 DEF Query
<1>9. worker' = [worker EXCEPT ![w] = q]
  <2>1. PICK r : r = [p EXCEPT !.pc = "sweep"]
    OBVIOUS
  <2>2. PICK s : s = [r EXCEPT !.op = "sweep"]
    OBVIOUS
  <2>3. PICK one : one = [worker EXCEPT ![w] = r]
    OBVIOUS
  <2>4. PICK two : two = [worker EXCEPT ![w] = s]
    OBVIOUS
  <2>5. one[w] = r /\ two[w] = s /\ two = [one EXCEPT ![w] = s]
    BY <2>3, <2>4 DEF Inv
  <2>6. one = [worker EXCEPT ![w].pc = "sweep"]
    BY <1>1, <2>1, <2>3, Zenon
  <2>7. two = [one EXCEPT ![w].op = "sweep"]
    BY <2>2, <2>5, Zenon
  <2>8. worker' = [two EXCEPT ![w].obligations = rows]
    BY <1>3, <2>6, <2>7, Zenon
  <2>9. q = [s EXCEPT !.obligations = rows]
    BY <1>7, <2>1, <2>2, Zenon
  <2>10. worker' = [two EXCEPT ![w] = q]
    BY <2>5, <2>8, <2>9, Zenon
  <2> QED
    BY <2>4, <2>10 DEF Inv
<1>10. DOMAIN rows = PastDue
  BY <1>2
<1>11. LoadedIn(q, task', obligation')
  BY <1>3, <1>4, <1>6, <1>8, <1>10 DEF LoadedIn
<1>12. ASSUME scene.serial PROVE FreshIn(q, task', obligation', inbox')
  <2>1. CASE p.pc = "half"
    BY <1>3, <1>6, <1>8, <1>12, <2>1 DEF FreshIn
  <2>2. CASE Free(w)
    <3>1. DOMAIN p.tasks = {}
      BY <1>1, <1>6, <2>2 DEF Free, LoadedIn
    <3> QED
      BY <1>8, <3>1 DEF FreshIn
  <2> QED
    BY <1>3, <2>1, <2>2
<1>13. Tables' /\ Preserved /\ Alone(w)
  BY <1>1, <1>3, Untouched, FreeAlone
<1> QED
  BY <1>3, <1>8, <1>9, <1>11, <1>12, <1>13, StepInv

(* The rows a sweep writes exist, and OVERDUE asks nothing of them.           *)
LEMMA SweptTasks ==
  ASSUME Inv, NEW q, \A t \in DOMAIN q.tasks : t \in Tasks /\ task[t] # None, task' = Swept(q)
  PROVE  /\ TasksIn'
         /\ \A t \in Tasks : task[t] # None =>
              /\ task'[t] # None
              /\ task[t].completed => task'[t].completed
              /\ task[t].reviewer # None => task'[t].reviewer # None
<1>1. ASSUME NEW t \in Tasks
      PROVE  /\ task'[t] \in TaskRow \cup {None}
             /\ task'[t] # None => task[t] # None /\ Dated(task'[t]) /\ Reviewed(task'[t])
             /\ task[t] # None => /\ task'[t] # None
                                  /\ task[t].completed => task'[t].completed
                                  /\ task[t].reviewer # None => task'[t].reviewer # None
  <2>1. CASE t \in DOMAIN q.tasks
    <3>1. PICK row \in TaskRow : row = task[t] /\ Dated(row)
      BY <2>1 DEF Inv, Tables, TasksIn
    <3>2. PICK new : new = [row EXCEPT !.status = "OVERDUE"]
      OBVIOUS
    <3>3. task'[t] = new
      BY <2>1, <3>1, <3>2 DEF Swept
    <3>4. /\ new \in TaskRow /\ new.status = "OVERDUE" /\ new.completed = row.completed
          /\ new.verified = row.verified /\ new.reviewer = row.reviewer
      BY <3>2 DEF TaskRow, TaskStatus
    <3>5. Dated(new) /\ Reviewed(new) /\ new # None
      BY <3>1, <3>4, TaskRowAssumption DEF Dated, Reviewed
    <3> QED
      BY <2>1, <3>1, <3>3, <3>4, <3>5
  <2>2. CASE t \notin DOMAIN q.tasks
    BY <2>2 DEF Swept, Inv, Tables, TasksIn
  <2> QED
    BY <2>1, <2>2
<1>2. task' = [t \in Tasks |-> task'[t]]
  BY DEF Swept
<1> QED
  BY <1>1, <1>2 DEF TasksIn

LEMMA SweptObligations ==
  ASSUME Inv, UNCHANGED scene, NEW q,
         \A o \in DOMAIN q.obligations : o \in Obligations /\ obligation[o] # None,
         obligation' = [o \in Obligations |->
           IF o \in DOMAIN q.obligations THEN [obligation[o] EXCEPT !.status = "OVERDUE"] ELSE obligation[o]]
  PROVE  ObligationsIn' /\ \A o \in Obligations : obligation[o] # None => obligation'[o] # None
<1>1. ASSUME NEW o \in Obligations
      PROVE  /\ obligation'[o] \in ObligationRow \cup {None}
             /\ obligation'[o] # None <=> obligation[o] # None
             /\ obligation[o] # None => obligation'[o].key = obligation[o].key
  <2>1. CASE o \in DOMAIN q.obligations
    <3>1. PICK row \in ObligationRow : row = obligation[o]
      BY <2>1 DEF Inv, Tables, ObligationsIn
    <3>2. PICK new : new = [row EXCEPT !.status = "OVERDUE"]
      OBVIOUS
    <3>3. obligation'[o] = new
      BY <2>1, <3>1, <3>2
    <3>4. new \in ObligationRow /\ new.key = row.key
      BY <3>2 DEF ObligationRow, ObligationStatus
    <3> QED
      BY <2>1, <3>1, <3>3, <3>4, ObligationRowAssumption
  <2>2. CASE o \notin DOMAIN q.obligations
    BY <2>2 DEF Inv, Tables, ObligationsIn
  <2> QED
    BY <2>1, <2>2
<1>2. obligation' \in [Obligations -> ObligationRow \cup {None}]
  BY <1>1
<1> QED
  BY <1>1, <1>2 DEF ObligationsIn, Inv, Tables

LEMMA SweptNotices ==
  ASSUME Inv, UNCHANGED scene, NEW q, inbox' = SweepNotices(q),
         scene.serial => \A t \in DOMAIN q.tasks \ q.told :
           q.tasks[t].assignee # None => inbox[<<"TASK_OVERDUE", t, q.tasks[t].assignee>>] = 0
  PROVE  InboxIn'
<1>1. inbox \in [Notices -> 0..2]
      /\ \A n \in Notices : inbox[n] > 1 => n[1] = "TASK_OVERDUE" /\ ~scene.serial
  BY DEF Inv, Tables, InboxIn
<1>2. ASSUME NEW n \in Notices
      PROVE  /\ inbox'[n] \in 0..2
             /\ inbox'[n] > 1 => n[1] = "TASK_OVERDUE" /\ ~scene.serial
  <2> DEFINE Tells == n[1] = "TASK_OVERDUE" /\ n[2] \in DOMAIN q.tasks \ q.told /\ n[3] = q.tasks[n[2]].assignee
  <2>1. inbox'[n] = IF Tells THEN Added(inbox[n]) ELSE inbox[n]
    BY DEF SweepNotices
  <2>2. inbox[n] \in 0..2
    BY <1>1
  <2>3. ASSUME Tells, scene.serial PROVE inbox[n] = 0
    <3>1. n = <<n[1], n[2], n[3]>> /\ n[3] \in Users
      BY DEF Notices
    <3>2. n[3] # None
      BY <3>1, ComplianceAssumption
    <3> QED
      BY <2>3, <3>1, <3>2
  <2>4. Tells => n[1] = "TASK_OVERDUE"
    OBVIOUS
  <2> HIDE DEF Tells
  <2>5. CASE Tells
    BY <2>1, <2>2, <2>3, <2>4, <2>5 DEF Added
  <2>6. CASE ~Tells
    BY <1>1, <2>1, <2>2, <2>6
  <2> QED
    BY <2>5, <2>6
<1>3. inbox' = [n \in Notices |-> inbox'[n]]
  BY DEF SweepNotices
<1> QED
  BY <1>2, <1>3 DEF InboxIn

LEMMA SweepCommitInv ==
  ASSUME Inv, NEW w \in Crew, SweepCommit(w)
  PROVE  Inv'
<1>1. PICK q : q = worker[w]
  OBVIOUS
<1>2. /\ q.pc = "sweep" /\ task' = Swept(q) /\ inbox' = SweepNotices(q)
      /\ obligation' = [o \in Obligations |->
           IF o \in DOMAIN q.obligations THEN [obligation[o] EXCEPT !.status = "OVERDUE"] ELSE obligation[o]]
      /\ worker' = [worker EXCEPT ![w] = Idle]
      /\ UNCHANGED <<scene, today, restarted, books>>
  BY <1>1, Zenon DEF SweepCommit
<1>3. LoadedIn(q, task, obligation) /\ (scene.serial => FreshIn(q, task, obligation, inbox))
  BY <1>1 DEF Inv
<1>4. /\ \A t \in DOMAIN q.tasks : t \in Tasks /\ task[t] # None
      /\ \A o \in DOMAIN q.obligations : o \in Obligations /\ obligation[o] # None
  BY <1>3 DEF LoadedIn
<1>5. scene.serial => \A t \in DOMAIN q.tasks \ q.told :
        q.tasks[t].assignee # None => inbox[<<"TASK_OVERDUE", t, q.tasks[t].assignee>>] = 0
  BY <1>2, <1>3 DEF FreshIn
<1>6. Tables'
  BY <1>2, <1>4, <1>5, SweptTasks, SweptObligations, SweptNotices DEF Tables
<1>7. Preserved
  BY <1>2, <1>4, SweptTasks, SweptObligations DEF Preserved
<1> QED
  BY <1>1, <1>2, <1>6, <1>7, AnswerInv

LEMMA SweepStepInv ==
  ASSUME Inv, NEW w \in Crew, SweepStep(w)
  PROVE  Inv'
<1>1. CASE Stumble(w)
  <2>1. /\ worker[w].pc # "idle" /\ worker' = [worker EXCEPT ![w] = Idle]
        /\ UNCHANGED <<scene, today, task, inbox, restarted, obligation>>
    BY <1>1 DEF Stumble
  <2> QED
    BY <2>1, Untouched, AnswerInv
<1> QED
  BY <1>1, ListTasksInv, DedupeInv, ListObligationsInv, SweepCommitInv, Zenon DEF SweepStep

-------------------------------------------------------------------------------
(* Around the desk, and the whole.                                            *)

LEMMA SurroundingsInv ==
  ASSUME Inv, NextDay \/ BooksMove \/ UNCHANGED vars
  PROVE  Inv'
<1>1. /\ UNCHANGED <<scene, task, inbox, worker, restarted, obligation>>
      /\ today' = today \/ (today < LastDay /\ today' = today + 1)
  BY DEF NextDay, BooksMove, vars, deskVars
<1>2. today' \in Days
  BY <1>1, ComplianceAssumption DEF Inv, Days
<1>3. Tables'
  BY <1>1, Untouched
<1> QED
  BY <1>1, <1>2, <1>3 DEF Inv

LEMMA RestartInv ==
  ASSUME Inv, Restart
  PROVE  Inv'
<1>1. worker' = [v \in Crew |-> Idle] /\ UNCHANGED <<scene, today, task, inbox, obligation, books>>
  BY DEF Restart, Inv
<1>2. /\ worker' \in [Crew -> Query]
      /\ \A v \in Crew : /\ LoadedIn(worker'[v], task', obligation') /\ worker'[v].pc = "idle"
                         /\ FreshIn(worker'[v], task', obligation', inbox')
  BY <1>1, IdleType, IdleIn
<1>3. restarted' \in 0..scene.restarts
  <2>1. scene.restarts \in Nat
    BY ComplianceAssumption DEF Inv
  <2> QED
    BY <2>1 DEF Restart, Inv
<1>4. Tables'
  BY <1>1, Untouched
<1>5. scene' \in Scenes /\ today' \in Days /\ restarted' \in 0..scene'.restarts
  BY <1>1, <1>3 DEF Inv
<1> QED
  BY <1>2, <1>4, <1>5 DEF Inv

LEMMA Steps ==
  ASSUME [Next]_vars
  PROVE  \/ \E w \in Workers :
              \/ TaskRequest(w) /\ UNCHANGED <<obligation, books>>
              \/ LookUp(w) \/ InsertObligation(w) \/ LoadObligation(w) \/ Evaluate(w)
              \/ SubmitReview(w) \/ Complete(w) \/ RunReadiness(w)
              \/ Approve(w) \/ Reject(w) \/ Reopen(w) \/ Assign(w) \/ Update(w) \/ GenerateTask(w)
         \/ \E w \in Crew : SweepStep(w)
         \/ NextDay \/ BooksMove \/ Restart \/ UNCHANGED vars
BY Zenon DEF Next, Crew

LEMMA NextInv == Inv /\ [Next]_vars => Inv'
<1> SUFFICES ASSUME Inv, [Next]_vars PROVE Inv'
  OBVIOUS
<1>1. ASSUME NEW w \in Workers PROVE w \in Crew
  BY DEF Crew
<1>2. ASSUME NEW w \in Workers, TaskRequest(w) /\ UNCHANGED <<obligation, books>> PROVE Inv'
  BY <1>1, <1>2, TaskRequestInv
<1>3. ASSUME NEW w \in Workers, LookUp(w) \/ InsertObligation(w) \/ LoadObligation(w) \/ Evaluate(w) PROVE Inv'
  BY <1>1, <1>3, LookUpInv, InsertObligationInv, LoadObligationInv, EvaluateInv
<1>4. ASSUME NEW w \in Workers, SubmitReview(w) \/ Complete(w) \/ RunReadiness(w) PROVE Inv'
  BY <1>1, <1>4, EvaluatedInv
<1>5. ASSUME NEW w \in Workers, Approve(w) \/ Reject(w) \/ Reopen(w) PROVE Inv'
  BY <1>1, <1>5, MoveInv
<1>6. ASSUME NEW w \in Workers, Assign(w) \/ Update(w) \/ GenerateTask(w) PROVE Inv'
  BY <1>1, <1>6, AssignInv, UpdateInv, GenerateTaskInv
<1> QED
  BY <1>2, <1>3, <1>4, <1>5, <1>6, Steps, SweepStepInv, SurroundingsInv, RestartInv, Zenon

(* The whole invariant holds always.                                          *)
THEOREM DeskInvariant == Spec => []Inv
BY InitInv, NextInv, PTL DEF Spec

(* Every state of the compliance desk is made of rows of the two tables,      *)
(* counted notices and requests under way.                                    *)
THEOREM TypeCorrect == Spec => []TypeOK
BY DeskInvariant, InvTypeOK, PTL

(* Whatever requests, sweeps and restarts overlap, a finished task has the    *)
(* date it was finished on, a task under review has a reviewer, and a natural *)
(* key names one obligation.                                                  *)
THEOREM RowsAlwaysSound == Spec => []RowsSound
BY DeskInvariant, InvRowsSound, PTL

(* notify: nobody has two unread notices of a kind about a task, unless two   *)
(* sweeps overlapped.                                                         *)
THEOREM NoticesNotRepeated == Spec => []OneUnread
BY DeskInvariant, InvOneUnread, PTL

-------------------------------------------------------------------------------
(* Who may open a closed obligation.                                          *)

Opened(o) ==
  Kept(o) /\ obligation[o].status \in Closed /\ obligation'[o].status \notin Closed
Blamed(o) ==
  \E w \in DOMAIN worker :
    /\ worker[w] # worker'[w]
    /\ (worker[w].op = "reopen" /\ worker[w].id = o) \/ ReadOpen(worker[w], o)

(* A write of the request's row: when it opens the row, the request is a      *)
(* reopening or has read the row while it was open.                           *)
LEMMA WriteStays ==
  ASSUME Inv, NEW w \in Crew, worker[w].pc = "obligation", NEW row, Write(w, row),
         worker[w].op = "reopen" \/ worker[w].seen.status \notin Closed
           \/ row.status = obligation[worker[w].id].status,
         NEW o \in Obligations, Opened(o)
  PROVE  Blamed(o)
<1>1. obligation' = [obligation EXCEPT ![worker[w].id] = row] /\ worker' = [worker EXCEPT ![w] = Idle]
  BY DEF Write
<1>2. o = worker[w].id
  BY <1>1 DEF Opened, Inv, Tables, ObligationsIn
<1>3. obligation'[o] = row
  BY <1>1, <1>2 DEF Inv, Tables, ObligationsIn
<1>4. worker[w].op = "reopen" \/ worker[w].seen.status \notin Closed
  BY <1>2, <1>3 DEF Opened
<1>5. w \in DOMAIN worker /\ worker'[w] = Idle
  BY <1>1 DEF Inv
<1>6. worker[w] # worker'[w]
  BY <1>5, IdleType
<1> QED
  BY <1>2, <1>4, <1>5, <1>6 DEF Blamed, ReadOpen

(* What the table lets move, other than reopen, is not closed.                *)
LEMMA PermittedOpen ==
  ASSUME NEW op \in {"submit_review", "approve", "reject", "complete", "update"}, NEW row,
         Permitted(op, row)
  PROVE  row.status \notin Closed
<1>1. op # "update" => row.status \in From[op]
  BY DEF Permitted, Moves
<1>2. /\ From["submit_review"] \cap Closed = {} /\ From["approve"] \cap Closed = {}
      /\ From["reject"] \cap Closed = {} /\ From["complete"] \cap Closed = {}
  BY DEF From, Closed
<1>3. op = "update" => row.status \notin Closed
  BY DEF Permitted
<1> QED
  BY <1>1, <1>2, <1>3

LEMMA RequestStays ==
  ASSUME Inv, NEW w \in Crew, NEW o \in Obligations, Opened(o),
         \/ SubmitReview(w) \/ Complete(w) \/ RunReadiness(w)
         \/ Approve(w) \/ Reject(w) \/ Reopen(w) \/ Assign(w) \/ Update(w)
  PROVE  Blamed(o)
<1>1. CASE SubmitReview(w) \/ Complete(w) \/ Approve(w) \/ Reject(w) \/ Update(w)
  <2>1. /\ worker[w].pc = "obligation" /\ \E row : Write(w, row)
        /\ worker[w].op \in {"submit_review", "approve", "reject", "complete", "update"}
    BY <1>1 DEF SubmitReview, Complete, Approve, Reject, Update, Serving
  <2>2. worker[w].seen.status \notin Closed
    BY <2>1, ObligationQuery, PermittedOpen
  <2> QED
    BY <2>1, <2>2, WriteStays
<1>2. CASE Reopen(w)
  <2>1. worker[w].pc = "obligation" /\ worker[w].op = "reopen" /\ \E row : Write(w, row)
    BY <1>2 DEF Reopen, Serving
  <2> QED
    BY <2>1, WriteStays
<1>3. CASE RunReadiness(w)
  <2>1. PICK to : to = AfterReadiness(worker[w].seen, worker[w].args)
    OBVIOUS
  <2>2. worker[w].pc = "obligation" /\ worker[w].op = "run_readiness" /\ Write(w, Assessed(w, MovedTo(w, to)))
    BY <1>3, <2>1 DEF RunReadiness, Serving
  <2>3. worker[w].seen \in ObligationRow /\ worker[w].args \in Ready
    BY <2>2, ObligationQuery DEF Evaluated
  <2>4. to \in ObligationStatus
    BY <2>1, <2>3, AfterReadinessType
  <2>5. Assessed(w, MovedTo(w, to)).status = Dirty(to, worker[w].seen.status, obligation[worker[w].id].status)
    BY <2>2, <2>3, <2>4, MovedToRow, AssessedRow
  <2>6. worker[w].seen.status \in Closed => to = worker[w].seen.status
    BY <2>1 DEF AfterReadiness, Closed
  <2>7. worker[w].seen.status \in Closed
          => Assessed(w, MovedTo(w, to)).status = obligation[worker[w].id].status
    BY <2>5, <2>6 DEF Dirty
  <2> QED
    BY <2>2, <2>7, WriteStays
<1>4. CASE Assign(w)
  <2>1. PICK to \in ObligationStatus, row \in ObligationRow :
           /\ worker[w].pc = "obligation" /\ worker[w].op = "assign" /\ Write(w, row)
           /\ row.status = Dirty(to, worker[w].seen.status, obligation[worker[w].id].status)
           /\ worker[w].seen.status \in Closed => to = worker[w].seen.status
    BY <1>4, AssignShape
  <2>2. worker[w].seen.status \in Closed => row.status = obligation[worker[w].id].status
    BY <2>1 DEF Dirty
  <2> QED
    BY <2>1, <2>2, WriteStays
<1> QED
  BY <1>1, <1>2, <1>3, <1>4

LEMMA SweepStays ==
  ASSUME Inv, NEW w \in Crew, SweepCommit(w), NEW o \in Obligations, Opened(o)
  PROVE  Blamed(o)
<1>1. /\ worker[w].pc = "sweep" /\ worker' = [worker EXCEPT ![w] = Idle]
      /\ obligation' = [p \in Obligations |->
           IF p \in DOMAIN worker[w].obligations THEN [obligation[p] EXCEPT !.status = "OVERDUE"] ELSE obligation[p]]
  BY Zenon DEF SweepCommit
<1>2. o \in DOMAIN worker[w].obligations
  BY <1>1 DEF Opened
<1>3. w \in DOMAIN worker /\ worker[w] # worker'[w]
  <2>1. worker'[w] = Idle /\ w \in DOMAIN worker
    BY <1>1 DEF Inv
  <2> QED
    BY <1>1, <2>1, IdleType
<1> QED
  BY <1>2, <1>3 DEF Blamed, ReadOpen

LEMMA OtherStays ==
  ASSUME NEW o \in Obligations, UNCHANGED obligation
  PROVE  ~Opened(o)
BY DEF Opened

LEMMA InsertStays ==
  ASSUME Inv, NEW w \in Crew, InsertObligation(w), NEW o \in Obligations
  PROVE  ~Opened(o)
<1>1. PICK p \in Obligations : obligation[p] = None /\ \E row : obligation' = [obligation EXCEPT ![p] = row]
  BY DEF InsertObligation
<1> QED
  BY <1>1 DEF Opened, Kept, Inv, Tables, ObligationsIn

LEMMA Unwritten ==
  ASSUME NEW w, LookUp(w) \/ LoadObligation(w) \/ Evaluate(w) \/ GenerateTask(w)
                  \/ ListTasks(w) \/ Dedupe(w) \/ ListObligations(w) \/ Stumble(w)
  PROVE  UNCHANGED obligation
BY DEF LookUp, LoadObligation, Evaluate, GenerateTask, ListTasks, Dedupe, ListObligations, Stumble

LEMMA StaysStep ==
  ASSUME Inv, [Next]_vars, NEW o \in Obligations, Opened(o)
  PROVE  Blamed(o)
<1>1. ASSUME NEW w \in Workers PROVE w \in Crew
  BY DEF Crew
<1>2. ASSUME NEW w \in Crew, SweepStep(w) PROVE Blamed(o)
  BY <1>2, SweepStays, OtherStays, Unwritten, Zenon DEF SweepStep
<1>3. ASSUME NEW w \in Workers,
             \/ LookUp(w) \/ InsertObligation(w) \/ LoadObligation(w) \/ Evaluate(w) \/ GenerateTask(w)
      PROVE  Blamed(o)
  BY <1>1, <1>3, InsertStays, OtherStays, Unwritten, Zenon
<1>4. ASSUME NEW w \in Workers,
             \/ SubmitReview(w) \/ Complete(w) \/ RunReadiness(w)
             \/ Approve(w) \/ Reject(w) \/ Reopen(w) \/ Assign(w) \/ Update(w)
      PROVE  Blamed(o)
  BY <1>1, <1>4, RequestStays
<1>5. ASSUME NEW w \in Workers, TaskRequest(w) /\ UNCHANGED <<obligation, books>> PROVE Blamed(o)
  BY <1>5, OtherStays
<1>6. NextDay \/ BooksMove \/ Restart \/ UNCHANGED vars => UNCHANGED obligation
  BY DEF NextDay, BooksMove, Restart, vars
<1> QED
  BY <1>2, <1>3, <1>4, <1>5, <1>6, Steps, OtherStays, Zenon

(* A closed obligation is opened again by reopen, or by a request or a sweep  *)
(* that read it while it was open and writes over the closing.                *)
THEOREM ClosedObligationsStay == Spec => ClosedStays
<1>1. Inv /\ [Next]_vars =>
        [\A o \in Obligations :
           Kept(o) /\ obligation[o].status \in Closed /\ obligation'[o].status \notin Closed =>
             \E w \in DOMAIN worker :
               /\ worker[w] # worker'[w]
               /\ (worker[w].op = "reopen" /\ worker[w].id = o) \/ ReadOpen(worker[w], o)]_vars
  BY StaysStep DEF Opened, Blamed
<1> QED
  BY <1>1, DeskInvariant, PTL DEF Spec, ClosedStays

-------------------------------------------------------------------------------
(* Served one at a time, tasks move along their workflow.                     *)

Follows ==
  \A t \in Tasks :
    \/ task'[t] = task[t]
    \/ task[t] = None /\ task'[t] # None /\ task'[t].status = "PENDING"
    \/ /\ task[t] # None /\ task'[t] # None
       /\ task'[t].status = task[t].status \/ <<task[t].status, task'[t].status>> \in TaskEdges

LEMMA OneFollows ==
  ASSUME Inv, NEW t \in Tasks, NEW row \in TaskRow, task' = [task EXCEPT ![t] = row],
         \/ task[t] = None /\ row.status = "PENDING"
         \/ task[t] # None /\ (row.status = task[t].status \/ <<task[t].status, row.status>> \in TaskEdges)
  PROVE  Follows
<1>1. row # None
  BY TaskRowAssumption
<1> QED
  BY <1>1 DEF Follows, Inv, Tables, TasksIn

LEMMA NewFollows ==
  ASSUME Inv, NEW t \in Tasks, task[t] = None,
         NEW a \in Users \cup {None}, NEW r \in Users \cup {None}, NEW d \in Days,
         task' = [task EXCEPT ![t] = NewTask(a, r, d)]
  PROVE  Follows
<1>1. NewTask(a, r, d).status = "PENDING"
  BY DEF NewTask
<1> QED
  BY <1>1, NewTaskRow, OneFollows

LEMMA TransitionFollows ==
  ASSUME Inv, NEW w \in Crew, scene.serial, TransitionTask(w)
  PROVE  Follows
<1>1. PICK q : q = worker[w]
  OBVIOUS
<1>2. /\ q.pc = "task" /\ q.op \in TransitionOps /\ Exists(q.id)
      /\ task' = [task EXCEPT ![q.id] = Moved(q, task[q.id])]
  BY <1>1 DEF TransitionTask
<1>3. PICK row : row = Moved(q, task[q.id])
  OBVIOUS
<1>4. q.seen = task[q.id]
  BY <1>1, <1>2 DEF Inv, FreshIn
<1>5. /\ row \in TaskRow /\ q.id \in Tasks /\ task[q.id] # None
      /\ <<task[q.id].status, row.status>> \in TaskEdges
  BY <1>1, <1>2, <1>3, <1>4, TaskQuery, MovedRow
<1> QED
  BY <1>2, <1>3, <1>5, OneFollows

LEMMA EditFollows ==
  ASSUME Inv, NEW w \in Crew, UpdateTask(w) \/ AssignTask(w)
  PROVE  Follows
<1>1. PICK row \in TaskRow :
        /\ worker[w].pc = "task" /\ Exists(worker[w].id)
        /\ task' = [task EXCEPT ![worker[w].id] = row]
        /\ row.status = task[worker[w].id].status
  BY UpdateTaskEdits, AssignTaskEdits DEF Edited
<1>2. worker[w].id \in Tasks /\ task[worker[w].id] # None
  BY <1>1, TaskQuery
<1> QED
  BY <1>1, <1>2, OneFollows

LEMMA DeleteFollows ==
  ASSUME Inv, NEW w \in Crew, scene.serial, DeleteTask(w)
  PROVE  Follows
<1>1. PICK q : q = worker[w]
  OBVIOUS
<1>2. /\ q.pc = "task" /\ q.op = "delete" /\ Exists(q.id)
      /\ task' = [task EXCEPT ![q.id].status = "DELETED"]
  BY <1>1 DEF DeleteTask
<1>3. q.seen = task[q.id]
  BY <1>1, <1>2 DEF Inv, FreshIn
<1>4. /\ q.id \in Tasks /\ task[q.id] \in TaskRow /\ task[q.id] # None
      /\ task[q.id].status \in TaskStatus \ {"LOCKED", "DELETED"}
  <2>1. /\ q.id \in Tasks /\ task[q.id] \in TaskRow /\ task[q.id] # None
        /\ Allowed(q.op, task[q.id])
    BY <1>1, <1>2, <1>3, TaskQuery
  <2>2. task[q.id].status # "LOCKED"
    BY <1>2, <2>1 DEF Allowed
  <2> QED
    BY <1>2, <2>1, <2>2 DEF Exists, TaskRow
<1>5. PICK row : row = [task[q.id] EXCEPT !.status = "DELETED"]
  OBVIOUS
<1>6. task' = [task EXCEPT ![q.id] = row]
  BY <1>2, <1>5, Zenon
<1>7. row \in TaskRow /\ row.status = "DELETED"
  BY <1>4, <1>5 DEF TaskRow, TaskStatus
<1>8. <<task[q.id].status, row.status>> \in TaskEdges
  BY <1>4, <1>7 DEF TaskEdges
<1> QED
  BY <1>4, <1>6, <1>7, <1>8, OneFollows

LEMMA SweepFollows ==
  ASSUME Inv, NEW w \in Crew, scene.serial, SweepCommit(w)
  PROVE  Follows
<1>1. PICK q : q = worker[w]
  OBVIOUS
<1>2. task' = Swept(q)
  BY <1>1 DEF SweepCommit
<1>3. \A t \in DOMAIN q.tasks : task[t] # None /\ task[t].status \in OpenForSweep
  BY <1>1 DEF Inv, LoadedIn, FreshIn
<1>4. \A t \in DOMAIN q.tasks : <<task[t].status, "OVERDUE">> \in TaskEdges
  BY <1>3 DEF TaskEdges
<1>5. ASSUME NEW t \in Tasks, t \in DOMAIN q.tasks
      PROVE  task[t] # None /\ task'[t] # None /\ task'[t].status = "OVERDUE"
  <2>1. PICK row \in TaskRow : row = task[t]
    BY <1>3, <1>5 DEF Inv, Tables, TasksIn
  <2>2. PICK new : new = [row EXCEPT !.status = "OVERDUE"]
    OBVIOUS
  <2>3. task'[t] = new
    BY <1>2, <1>5, <2>1, <2>2 DEF Swept
  <2>4. new \in TaskRow /\ new.status = "OVERDUE"
    BY <2>2 DEF TaskRow, TaskStatus
  <2> QED
    BY <1>3, <1>5, <2>3, <2>4, TaskRowAssumption
<1>6. \A t \in Tasks : t \notin DOMAIN q.tasks => task'[t] = task[t]
  BY <1>2 DEF Swept
<1> QED
  BY <1>4, <1>5, <1>6 DEF Follows

LEMMA TaskRequestFollows ==
  ASSUME Inv, NEW w \in Crew, scene.serial, TaskRequest(w)
  PROVE  Follows
<1>1. CASE CreateTask(w)
  <2>1. PICK t \in Tasks, a \in Assignees \cup {None}, r \in Reviewers \cup {None}, d \in Days :
          task[t] = None /\ task' = [task EXCEPT ![t] = NewTask(a, r, d)]
    BY <1>1 DEF CreateTask
  <2>2. a \in Users \cup {None} /\ r \in Users \cup {None}
    BY DEF Users
  <2> QED
    BY <2>1, <2>2, NewFollows
<1>2. CASE LoadTask(w) \/ Abandon(w) \/ MarkRead(w) \/ MarkAllRead(w)
  <2>1. task' = task
    BY <1>2 DEF LoadTask, Abandon, MarkRead, MarkAllRead
  <2> QED
    BY <2>1 DEF Follows
<1> QED
  BY <1>1, <1>2, TransitionFollows, EditFollows, DeleteFollows, Zenon DEF TaskRequest

LEMMA GenerateTaskFollows ==
  ASSUME Inv, NEW w \in Crew, GenerateTask(w)
  PROVE  Follows
<1> DEFINE Or(given, own) == IF given = None THEN own ELSE given
<1>1. PICK q : q = worker[w]
  OBVIOUS
<1>2. q.pc = "obligation"
  BY <1>1 DEF GenerateTask
<1>3. PICK t \in Tasks, a \in Assignees \cup {None}, r \in Reviewers \cup {None} :
        /\ task[t] = None
        /\ task' = [task EXCEPT ![t] = NewTask(Or(a, q.seen.assignee), Or(r, q.seen.reviewer), q.seen.due)]
  BY <1>1 DEF GenerateTask
<1>4. /\ Or(a, q.seen.assignee) \in Users \cup {None} /\ Or(r, q.seen.reviewer) \in Users \cup {None}
      /\ q.seen.due \in Days
  <2>1. q.seen \in ObligationRow
    BY <1>1, <1>2, ObligationQuery
  <2> QED
    BY <2>1 DEF ObligationRow, Users
<1> HIDE DEF Or
<1> QED
  BY <1>3, <1>4, NewFollows

LEMMA NextFollows ==
  ASSUME Inv, [Next]_vars, scene.serial
  PROVE  Follows
<1> DEFINE Same == task' = task
<1>1. ASSUME NEW w \in Workers PROVE w \in Crew
  BY DEF Crew
<1>2. ASSUME NEW w \in Workers,
             \/ LookUp(w) \/ InsertObligation(w) \/ LoadObligation(w) \/ Evaluate(w)
      PROVE  Same
  BY <1>2 DEF LookUp, InsertObligation, LoadObligation, Evaluate
<1>3. ASSUME NEW w \in Workers,
             \/ SubmitReview(w) \/ Complete(w) \/ RunReadiness(w)
             \/ Approve(w) \/ Reject(w) \/ Reopen(w) \/ Assign(w) \/ Update(w)
      PROVE  Same
  BY <1>3 DEF SubmitReview, Complete, RunReadiness, Approve, Reject, Reopen, Assign, Update, Write
<1>4. ASSUME NEW w \in Crew, ListTasks(w) \/ Dedupe(w) \/ ListObligations(w) \/ Stumble(w)
      PROVE  Same
  BY <1>4 DEF ListTasks, Dedupe, ListObligations, Stumble
<1>5. NextDay \/ BooksMove \/ Restart \/ UNCHANGED vars => Same
  BY DEF NextDay, BooksMove, Restart, vars, deskVars
<1>6. Same => Follows
  BY DEF Follows
<1> HIDE DEF Same
<1>7. ASSUME NEW w \in Crew, SweepStep(w) PROVE Follows
  BY <1>4, <1>6, <1>7, SweepFollows, Zenon DEF SweepStep
<1>8. ASSUME NEW w \in Workers, TaskRequest(w) \/ GenerateTask(w) PROVE Follows
  BY <1>1, <1>8, TaskRequestFollows, GenerateTaskFollows
<1> QED
  BY <1>2, <1>3, <1>5, <1>6, <1>7, <1>8, Steps, Zenon

LEMMA SceneStays ==
  ASSUME [Next]_vars
  PROVE  scene' = scene
<1>1. ASSUME NEW w, TaskRequest(w) PROVE scene' = scene
  BY <1>1 DEF TaskRequest, CreateTask, LoadTask, Abandon, TransitionTask, UpdateTask, AssignTask,
              DeleteTask, MarkRead, MarkAllRead
<1>2. ASSUME NEW w, LookUp(w) \/ InsertObligation(w) \/ LoadObligation(w) \/ Evaluate(w) \/ GenerateTask(w)
      PROVE  scene' = scene
  BY <1>2 DEF LookUp, InsertObligation, LoadObligation, Evaluate, GenerateTask
<1>3. ASSUME NEW w,
             \/ SubmitReview(w) \/ Complete(w) \/ RunReadiness(w)
             \/ Approve(w) \/ Reject(w) \/ Reopen(w) \/ Assign(w) \/ Update(w)
      PROVE  scene' = scene
  BY <1>3 DEF SubmitReview, Complete, RunReadiness, Approve, Reject, Reopen, Assign, Update, Write
<1>4. ASSUME NEW w, SweepStep(w) PROVE scene' = scene
  BY <1>4 DEF SweepStep, ListTasks, Dedupe, ListObligations, SweepCommit, Stumble
<1>5. NextDay \/ BooksMove \/ Restart \/ UNCHANGED vars => scene' = scene
  BY DEF NextDay, BooksMove, Restart, vars, deskVars
<1> QED
  BY <1>1, <1>2, <1>3, <1>4, <1>5, Steps, Zenon

LEMMA ShownTogether ==
  ASSUME Inv, [Next]_vars
  PROVE  TaskWorkflow!Together
<1>1. DOMAIN TaskShown' = Tasks /\ scene' = scene
  BY SceneStays DEF TaskShown
<1>2. ASSUME NEW t \in Tasks
      PROVE  \/ TaskShown'[t] = TaskShown[t]
             \/ TaskShown[t] = "NONE" /\ TaskShown'[t] = "PENDING"
             \/ <<TaskShown[t], TaskShown'[t]>> \in TaskEdges
  <2>1. /\ TaskShown[t] = IF scene.serial /\ task[t] # None THEN task[t].status ELSE "NONE"
        /\ TaskShown'[t] = IF scene.serial /\ task'[t] # None THEN task'[t].status ELSE "NONE"
    BY <1>1 DEF TaskShown
  <2>2. CASE ~scene.serial
    BY <2>1, <2>2
  <2>3. CASE scene.serial
    BY <2>1, <2>3, NextFollows DEF Follows
  <2> QED
    BY <2>2, <2>3
<1> QED
  BY <1>1, <1>2 DEF TaskWorkflow!Together, TaskWorkflow!Absent

LEMMA ShownInit == Init => TaskWorkflow!Init
BY DEF Init, TaskShown, TaskWorkflow!Init, TaskWorkflow!Absent

(* Served one at a time, requests, sweeps and restarts together move tasks    *)
(* along the documented workflow only: the desk implements StatusWorkflow.    *)
THEOREM WorkflowFollowed == Spec => TasksFollowWorkflow
<1>1. Inv /\ [Next]_vars => [TaskWorkflow!Together]_TaskShown
  BY ShownTogether
<1> QED
  BY <1>1, ShownInit, DeskInvariant, PTL DEF Spec, TasksFollowWorkflow, TaskWorkflow!TogetherSpec

=============================================================================
