--------------------------- MODULE AuditEngagements ---------------------------
(* One audit engagement of a company with its staff, checklist, findings and  *)
(* their responses, reviews and sign-offs (app/services/audit_engagement_,    *)
(* audit_assignment_, audit_checklist_, audit_finding_ and                    *)
(* audit_review_service.py).                                                  *)
EXTENDS CaseDesk

CONSTANTS Staff,      \* members of the company who may be assigned
          Items,      \* ids for checklist items
          Template,   \* those of STANDARD_CHECKLIST_TEMPLATE
          Findings,   \* ids for findings: at most so many are created
          Responses,  \* ids for responses: at most so many are submitted
          Reviews     \* ids for reviews: at most so many are started

ASSUME AuditAssumption == Template \subseteq Items

VARIABLES engagement,  \* audit_engagements: the row, or None
          staff,       \* audit_assignments: each member's newest, by is_active
          item,        \* audit_checklist_items, by id, or None
          finding,     \* audit_findings, by id, or None
          response,    \* audit_finding_responses, by id, or None
          review,      \* audit_reviews, by id, or None
          signoffs     \* audit_signoffs: the types recorded

auditVars == <<engagement, staff, item, finding, response, review, signoffs>>

AuditEngagementStatus ==
  {"DRAFT", "OPEN", "ASSIGNED", "IN_REVIEW", "PENDING_CLIENT_ACTION", "PENDING_AUDITOR_REVIEW",
   "APPROVED", "SIGNED_OFF", "CLOSED", "CANCELLED"}
AuditChecklistItemStatus ==
  {"NOT_STARTED", "IN_PROGRESS", "COMPLETED", "NOT_APPLICABLE", "REQUIRES_ATTENTION"}
AuditFindingStatus ==
  {"OPEN", "ASSIGNED", "IN_REVIEW", "ACTION_REQUIRED", "RESPONSE_SUBMITTED", "RESOLVED", "REOPENED",
   "CLOSED", "REJECTED"}
AuditSignOffType == {"LEAD_AUDITOR", "REVIEWER", "COMPANY_ACKNOWLEDGEMENT"}

(* The rows of the tables.  Of a time only its presence is kept.              *)
AuditEngagement == [status : AuditEngagementStatus, locked : BOOLEAN]
ChecklistItem   == [status : AuditChecklistItemStatus, done : BOOLEAN]
AuditFinding    == [status : AuditFindingStatus, heavy : BOOLEAN, assigned : BOOLEAN,
                    resolved : BOOLEAN, closed : BOOLEAN]
FindingResponse == [of : Findings, status : {"SUBMITTED", "ACCEPTED", "REJECTED"}]
AuditReview     == [status : {"IN_PROGRESS", "COMPLETED", "RETURNED"}, done : BOOLEAN]
ASSUME AuditRowsAssumption ==
  None \notin AuditEngagement \cup ChecklistItem \cup AuditFinding \cup FindingResponse \cup AuditReview

(* _TRANSITIONS of an engagement.                                             *)
EngagementMoves ==
  {<<"DRAFT", "open", "OPEN">>, <<"OPEN", "start_review", "IN_REVIEW">>,
   <<"ASSIGNED", "start_review", "IN_REVIEW">>,
   <<"IN_REVIEW", "request_client_action", "PENDING_CLIENT_ACTION">>,
   <<"PENDING_CLIENT_ACTION", "resume_review", "IN_REVIEW">>,
   <<"IN_REVIEW", "submit_for_review", "PENDING_AUDITOR_REVIEW">>,
   <<"PENDING_AUDITOR_REVIEW", "approve", "APPROVED">>,
   <<"PENDING_AUDITOR_REVIEW", "return_for_changes", "IN_REVIEW">>,
   <<"APPROVED", "sign_off", "SIGNED_OFF">>, <<"SIGNED_OFF", "close", "CLOSED">>}
  \cup ({"DRAFT", "OPEN", "ASSIGNED", "IN_REVIEW", "PENDING_CLIENT_ACTION"} \X {"cancel"} \X {"CANCELLED"})

(* _TRANSITIONS of a finding.                                                 *)
FindingMoves ==
  ({"OPEN", "REOPENED", "ACTION_REQUIRED"} \X {"assign"} \X {"ASSIGNED"})
  \cup {<<"ASSIGNED", "start_review", "IN_REVIEW">>, <<"IN_REVIEW", "request_action", "ACTION_REQUIRED">>,
        <<"RESPONSE_SUBMITTED", "accept_response", "RESOLVED">>,
        <<"RESPONSE_SUBMITTED", "reject_response", "ACTION_REQUIRED">>, <<"RESOLVED", "close", "CLOSED">>}
  \cup ({"ASSIGNED", "ACTION_REQUIRED"} \X {"submit_response"} \X {"RESPONSE_SUBMITTED"})
  \cup ({"OPEN", "ASSIGNED", "IN_REVIEW", "ACTION_REQUIRED", "RESPONSE_SUBMITTED"} \X {"resolve"} \X {"RESOLVED"})
  \cup ({"RESOLVED", "CLOSED", "REJECTED"} \X {"reopen"} \X {"REOPENED"})
  \cup ({"OPEN", "ASSIGNED", "IN_REVIEW", "ACTION_REQUIRED"} \X {"reject"} \X {"REJECTED"})

(* _BLOCKING_FINDING_STATUSES.                                                *)
Blocking == AuditFindingStatus \ {"RESOLVED", "CLOSED", "REJECTED"}

AuditInit ==
  /\ engagement = None
  /\ staff    = [p \in Staff |-> "none"]
  /\ item     = [i \in Items |-> None]
  /\ finding  = [f \in Findings |-> None]
  /\ response = [r \in Responses |-> None]
  /\ review   = [r \in Reviews |-> None]
  /\ signoffs = {}

-------------------------------------------------------------------------------
(* The engagement.                                                            *)

EngagementRow(s) == [status |-> s, locked |-> FALSE]

CreateEngagement(w) ==
  /\ Asked(w, "engagement", "create") /\ engagement = None
  /\ engagement' = EngagementRow("DRAFT")
  /\ UNCHANGED <<staff, item, finding, response, review, signoffs>> /\ UNCHANGED deskVars

(* A transition is refused when the engagement is locked or in another        *)
(* status; approve goes on to look at findings and the checklist, sign_off at *)
(* the sign-offs, lock only at the row.                                       *)
LoadEngagement(w) ==
  /\ engagement # None /\ ~engagement.locked
  /\ \E op \in {m[2] : m \in EngagementMoves} \cup {"lock"} :
       /\ Asked(w, "engagement", op)
       /\ IF op = "lock" THEN engagement.status = "CLOSED"
          ELSE Allows(EngagementMoves, engagement.status, op)
       /\ Serve(w, IF op = "approve" THEN "findings" ELSE IF op = "sign_off" THEN "signoffs" ELSE "engagement",
                op, None, None, engagement)
  /\ UNCHANGED auditVars

(* _check_can_approve: no HIGH or CRITICAL finding is open, then no item of   *)
(* the checklist needs attention.  Bound: the code reads the first 1000       *)
(* findings and looks at no others.                                           *)
GateFindings(w) ==
  /\ worker[w].pc = "findings"
  /\ \A f \in Findings : finding[f] # None /\ finding[f].heavy => finding[f].status \notin Blocking
  /\ GoOn(w, "items") /\ UNCHANGED auditVars

GateItems(w) ==
  /\ worker[w].pc = "items"
  /\ \A i \in Items : item[i] # None => item[i].status # "REQUIRES_ATTENTION"
  /\ GoOn(w, "engagement") /\ UNCHANGED auditVars

MutantGateSignOffs(w) ==
  /\ worker[w].pc = "signoffs" /\ signoffs # {}
  /\ GoOn(w, "engagement") /\ UNCHANGED auditVars

(* sign_off wants a LEAD_AUDITOR's sign-off on record.                        *)
GateSignOffs(w) ==
  /\ worker[w].pc = "signoffs" /\ "LEAD_AUDITOR" \in signoffs
  /\ GoOn(w, "engagement") /\ UNCHANGED auditVars

MoveEngagement(w) ==
  LET q == worker[w] IN
  /\ q.pc = "engagement"
  /\ engagement' = IF q.op = "lock" THEN [engagement EXCEPT !.locked = TRUE]
                   ELSE [engagement EXCEPT !.status = Target(EngagementMoves, q.seen.status, q.op)]
  /\ Done(w) /\ UNCHANGED <<staff, item, finding, response, review, signoffs>>

(* A sign-off can only be recorded once the engagement is APPROVED.           *)
AskSignOff(w) ==
  /\ Asked(w, "engagement", "record_sign_off") /\ engagement # None /\ engagement.status = "APPROVED"
  /\ \E t \in AuditSignOffType : Serve(w, "record", "record_sign_off", None, t, engagement)
  /\ UNCHANGED auditVars

RecordSignOff(w) ==
  /\ worker[w].pc = "record" /\ signoffs' = signoffs \cup {worker[w].args}
  /\ Done(w) /\ UNCHANGED <<engagement, staff, item, finding, response, review>>

(* A member is assigned once at a time, by a partial unique index; the first  *)
(* assignment moves an OPEN engagement on.                                    *)
AskAssign(w) ==
  /\ Asked(w, "staff", "assign") /\ engagement # None /\ ~engagement.locked
  /\ \E p \in Staff : staff[p] # "active" /\ Serve(w, "assign", "assign", p, None, engagement)
  /\ UNCHANGED auditVars

Assign(w) ==
  LET q == worker[w] IN
  /\ q.pc = "assign" /\ staff[q.id] # "active"
  /\ staff' = [staff EXCEPT ![q.id] = "active"]
  /\ engagement' = IF q.seen.status = "OPEN" THEN [engagement EXCEPT !.status = "ASSIGNED"] ELSE engagement
  /\ Done(w) /\ UNCHANGED <<item, finding, response, review, signoffs>>

Unassign(w) ==
  /\ Asked(w, "staff", "unassign")
  /\ \E p \in Staff : staff[p] = "active" /\ staff' = [staff EXCEPT ![p] = "inactive"]
  /\ UNCHANGED <<engagement, item, finding, response, review, signoffs>> /\ UNCHANGED deskVars

-------------------------------------------------------------------------------
(* The checklist.                                                             *)

ItemRow == [status |-> "NOT_STARTED", done |-> FALSE]
Listed  == \E i \in Items : item[i] # None

(* get_or_create, alone or on the way to add_item.                            *)
AskChecklist(w) ==
  /\ engagement # None
  /\ \E op \in {"get", "add"} :
       /\ Asked(w, "checklist", op) /\ (op = "get" => ~Listed)
       /\ Serve(w, "checklist", op, None, None, Listed)
  /\ UNCHANGED auditVars

(* The items of the template come with a new checklist, of which a unique     *)
(* index allows one; an added item comes after them.                          *)
WriteChecklist(w) ==
  LET q == worker[w]
      listed == [i \in Items |-> IF ~q.seen /\ i \in Template THEN ItemRow ELSE item[i]]
  IN /\ q.pc = "checklist" /\ (~q.seen => ~Listed)
     /\ IF q.op = "get" THEN item' = listed
        ELSE \E i \in Items : listed[i] = None /\ item' = [listed EXCEPT ![i] = ItemRow]
     /\ Done(w) /\ UNCHANGED <<engagement, staff, finding, response, review, signoffs>>

LoadItem(w) ==
  /\ Asked(w, "checklist", "update")
  /\ \E i \in Items, s \in AuditChecklistItemStatus :
       item[i] # None /\ Serve(w, "item", "update", i, s, item[i])
  /\ UNCHANGED auditVars

MutantCompletion(q, now) == now \/ q.args = "COMPLETED"

(* completed_at is the time of completion, a value that is always new, or     *)
(* NULL, which is written only over a time the request has seen.              *)
Completion(q, now) == IF q.args = "COMPLETED" THEN TRUE ELSE Column(FALSE, q.seen.done, now)

UpdateItem(w) ==
  LET q == worker[w] IN
  /\ q.pc = "item"
  /\ item' = [item EXCEPT ![q.id].status = Column(q.args, q.seen.status, @),
                          ![q.id].done   = Completion(q, @)]
  /\ Done(w) /\ UNCHANGED <<engagement, staff, finding, response, review, signoffs>>

-------------------------------------------------------------------------------
(* Findings and responses.                                                    *)

FindingRow(heavy, assigned) ==
  [status |-> IF assigned THEN "ASSIGNED" ELSE "OPEN", heavy |-> heavy, assigned |-> assigned,
   resolved |-> FALSE, closed |-> FALSE]

ResponseRow(f) == [of |-> f, status |-> "SUBMITTED"]

(* The code of a finding is one more than the findings of its engagement; of  *)
(* two requests that took the same code the unique index lets one commit.     *)
Codes == Cardinality({f \in Findings : finding[f] # None})

AskFinding(w) ==
  /\ Asked(w, "finding", "create") /\ engagement # None /\ ~engagement.locked
  /\ \E heavy, assigned \in BOOLEAN :
       Serve(w, "new", "create", None, FindingRow(heavy, assigned), Codes)
  /\ UNCHANGED auditVars

CreateFinding(w) ==
  LET q == worker[w] IN
  /\ q.pc = "new" /\ Codes = q.seen
  /\ \E f \in Findings : finding[f] = None /\ finding' = [finding EXCEPT ![f] = q.args]
  /\ Done(w) /\ UNCHANGED <<engagement, staff, item, response, review, signoffs>>

(* No operation of a finding asks whether the engagement is locked.  update   *)
(* may change the severity in any status; a review of a response needs the    *)
(* response, loaded after the finding, to be SUBMITTED.                       *)
ReviewOps == {"accept_response", "reject_response"}

LoadFinding(w) ==
  /\ \E f \in Findings, op \in {m[2] : m \in FindingMoves} \ ReviewOps :
       /\ Asked(w, "finding", op) /\ finding[f] # None /\ Allows(FindingMoves, finding[f].status, op)
       /\ Serve(w, "finding", op, f, None, finding[f])
  /\ UNCHANGED auditVars

LoadForUpdate(w) ==
  /\ Asked(w, "finding", "update")
  /\ \E f \in Findings, heavy \in BOOLEAN :
       finding[f] # None /\ Serve(w, "severity", "update", f, heavy, finding[f])
  /\ UNCHANGED auditVars

LoadForReview(w) ==
  /\ \E f \in Findings, r \in Responses, op \in ReviewOps :
       /\ Asked(w, "finding", op) /\ response[r] # None /\ response[r].of = f
       /\ Serve(w, "response", op, f, r, finding[f])
  /\ UNCHANGED auditVars

LoadResponse(w) ==
  LET q == worker[w] IN
  /\ q.pc = "response" /\ response[q.args].status = "SUBMITTED"
  /\ GoOn(w, "review") /\ UNCHANGED auditVars

(* What a transition leaves: resolve and close note the time, reopen clears   *)
(* both, assign names the member.                                             *)
Moved(q, row) ==
  [row EXCEPT !.status   = Target(FindingMoves, q.seen.status, q.op),
              !.assigned = @ \/ q.op = "assign",
              !.resolved = (@ \/ q.op \in {"resolve", "accept_response"}) /\ q.op # "reopen",
              !.closed   = (@ \/ q.op = "close") /\ q.op # "reopen"]

MoveFinding(w) ==
  LET q == worker[w] IN
  /\ q.pc = "finding"
  /\ finding' = [finding EXCEPT ![q.id] = Moved(q, @)]
  /\ IF q.op = "submit_response"
     THEN \E r \in Responses : response[r] = None /\ response' = [response EXCEPT ![r] = ResponseRow(q.id)]
     ELSE response' = response
  /\ Done(w) /\ UNCHANGED <<engagement, staff, item, review, signoffs>>

UpdateFinding(w) ==
  LET q == worker[w] IN
  /\ q.pc = "severity"
  /\ finding' = [finding EXCEPT ![q.id].heavy = Column(q.args, q.seen.heavy, @)]
  /\ Done(w) /\ UNCHANGED <<engagement, staff, item, response, review, signoffs>>

(* The finding follows its response only if it was waiting for the review.    *)
ReviewResponse(w) ==
  LET q == worker[w] IN
  /\ q.pc = "review"
  /\ response' = [response EXCEPT ![q.args].status = IF q.op = "accept_response" THEN "ACCEPTED" ELSE "REJECTED"]
  /\ finding' = IF Allows(FindingMoves, q.seen.status, q.op) THEN [finding EXCEPT ![q.id] = Moved(q, @)] ELSE finding
  /\ Done(w) /\ UNCHANGED <<engagement, staff, item, review, signoffs>>

-------------------------------------------------------------------------------
(* Reviews: notes about the engagement that never move it.                    *)

ReviewRow == [status |-> "IN_PROGRESS", done |-> FALSE]

StartReview(w) ==
  /\ Asked(w, "review", "start") /\ engagement # None
  /\ \E r \in Reviews : review[r] = None /\ review' = [review EXCEPT ![r] = ReviewRow]
  /\ UNCHANGED <<engagement, staff, item, finding, response, signoffs>> /\ UNCHANGED deskVars

LoadReview(w) ==
  /\ \E r \in Reviews, op \in {"complete", "return"} :
       /\ Asked(w, "review", op) /\ review[r] # None /\ review[r].status = "IN_PROGRESS"
       /\ Serve(w, "end", op, r, None, review[r])
  /\ UNCHANGED auditVars

EndReview(w) ==
  LET q == worker[w] IN
  /\ q.pc = "end"
  /\ review' = [review EXCEPT ![q.id].status = IF q.op = "complete" THEN "COMPLETED" ELSE "RETURNED",
                              ![q.id].done   = @ \/ q.op = "complete"]
  /\ Done(w) /\ UNCHANGED <<engagement, staff, item, finding, response, signoffs>>

AuditRequest(w) ==
  \/ CreateEngagement(w) \/ LoadEngagement(w) \/ GateFindings(w) \/ GateItems(w) \/ GateSignOffs(w)
  \/ MoveEngagement(w) \/ AskSignOff(w) \/ RecordSignOff(w) \/ AskAssign(w) \/ Assign(w) \/ Unassign(w)
  \/ AskChecklist(w) \/ WriteChecklist(w) \/ LoadItem(w) \/ UpdateItem(w)
  \/ AskFinding(w) \/ CreateFinding(w) \/ LoadFinding(w) \/ LoadForUpdate(w) \/ LoadForReview(w)
  \/ LoadResponse(w) \/ MoveFinding(w) \/ UpdateFinding(w) \/ ReviewResponse(w)
  \/ StartReview(w) \/ LoadReview(w) \/ EndReview(w)

-------------------------------------------------------------------------------
(* What the rows of an engagement say together.                               *)

AuditTypeOK ==
  /\ engagement \in AuditEngagement \cup {None}
  /\ staff \in [Staff -> {"none", "active", "inactive"}] /\ signoffs \subseteq AuditSignOffType
  /\ item \in [Items -> ChecklistItem \cup {None}]
  /\ finding \in [Findings -> AuditFinding \cup {None}]
  /\ response \in [Responses -> FindingResponse \cup {None}]
  /\ review \in [Reviews -> AuditReview \cup {None}]

(* Whatever requests overlap: an engagement is signed off only with the lead  *)
(* auditor's sign-off on record and ASSIGNED only with somebody once          *)
(* assigned, and a finding that waits for a review has a response to review.  *)
AuditSteps ==
  /\ engagement # None =>
       /\ engagement.status \in {"SIGNED_OFF", "CLOSED"} \/ engagement.locked => "LEAD_AUDITOR" \in signoffs
       /\ engagement.status = "ASSIGNED" => \E p \in Staff : staff[p] # "none"
  /\ \A f \in Findings : finding[f] # None =>
       /\ finding[f].status = "RESPONSE_SUBMITTED" =>
            \E r \in Responses : response[r] # None /\ response[r].of = f /\ response[r].status = "SUBMITTED"
       /\ finding[f].status = "ASSIGNED" => finding[f].assigned

(* Served one at a time, statuses and the times noted beside them agree, and  *)
(* nothing is signed before approval or locked before closing.                *)
AuditDated ==
  /\ engagement # None =>
       /\ engagement.locked => engagement.status = "CLOSED"
       /\ signoffs # {} => engagement.status \in {"APPROVED", "SIGNED_OFF", "CLOSED"}
  /\ \A f \in Findings : finding[f] # None =>
       /\ finding[f].closed => finding[f].resolved /\ finding[f].status = "CLOSED"
       /\ finding[f].resolved <=> finding[f].status \in {"RESOLVED", "CLOSED"}
  /\ \A i \in Items : item[i] # None => (item[i].done <=> item[i].status = "COMPLETED")
  /\ \A r \in Reviews : review[r] # None => (review[r].done <=> review[r].status = "COMPLETED")
================================================================================
