---------------------------- MODULE Casework_proofs ----------------------------
(* Proofs about the desks of audit work, income tax and imports.              *)
(*                                                                            *)
(* The invariants of the three desks are proved side by side: a request of    *)
(* one desk leaves the rows of the others alone and the requests that other   *)
(* workers serve.  Served one at a time, it has everything for itself.        *)
EXTENDS Casework, Sums_proofs

-------------------------------------------------------------------------------
(* Requests.                                                                  *)

AuditPC  == {"findings", "items", "signoffs", "engagement", "record", "assign", "checklist", "item", "new", "finding",
             "severity", "response", "review", "end"}
TaxPC    == {"entry", "computation", "income", "rest", "credits", "figures", "move", "preparation", "issues", "status"}
ImportPC == {"rows", "records", "cancel"}

IsQuery(q) == DOMAIN q = {"pc", "op", "id", "args", "seen"}

(* In a serial scene one worker at most is busy.                              *)
DeskInv ==
  /\ scene \in Scenes
  /\ DOMAIN worker = Workers
  /\ \A w \in Workers : IsQuery(worker[w])
  /\ scene.serial => \A v, w \in Workers : worker[v].pc # "idle" /\ worker[w].pc # "idle" => v = w

(* One worker takes a step of its request, alone in a serial scene, and is    *)
(* idle or in one of the places pcs afterwards.                               *)
Alone(w) == scene.serial => \A v \in Workers : v = w \/ worker[v].pc = "idle"
Turn(w, pcs) ==
  /\ UNCHANGED scene
  /\ DOMAIN worker' = Workers
  /\ \A v \in Workers : v # w => worker'[v] = worker[v]
  /\ IsQuery(worker'[w])
  /\ worker'[w].pc \in pcs \cup {"idle"}
  /\ Alone(w)

LEMMA IdleQuery == IsQuery(Idle) /\ Idle.pc = "idle"
BY DEF IsQuery, Idle

LEMMA FreeAlone ==
  ASSUME DeskInv, NEW w \in Workers, Free(w) \/ worker[w].pc # "idle"
  PROVE  Alone(w)
BY DEF DeskInv, Free, Alone

LEMMA TurnInv ==
  ASSUME DeskInv, NEW w \in Workers, NEW pcs, Turn(w, pcs)
  PROVE  DeskInv'
BY DEF DeskInv, Turn, Alone

LEMMA ServeTurn ==
  ASSUME DeskInv, NEW w \in Workers, NEW pcs, NEW pc \in pcs, NEW op, NEW id, NEW args, NEW seen,
         Free(w), Serve(w, pc, op, id, args, seen)
  PROVE  /\ Turn(w, pcs)
         /\ worker'[w] = [pc |-> pc, op |-> op, id |-> id, args |-> args, seen |-> seen]
<1> DEFINE q == [pc |-> pc, op |-> op, id |-> id, args |-> args, seen |-> seen]
<1>1. IsQuery(q) /\ q.pc = pc
  BY DEF IsQuery
<1>2. worker' = [worker EXCEPT ![w] = q] /\ UNCHANGED scene
  BY DEF Serve
<1>3. Alone(w)
  BY FreeAlone
<1> HIDE DEF q
<1> QED
  BY <1>1, <1>2, <1>3 DEF Turn, DeskInv, q

LEMMA DoneTurn ==
  ASSUME DeskInv, NEW w \in Workers, worker[w].pc # "idle", Done(w), NEW pcs
  PROVE  Turn(w, pcs) /\ worker'[w] = Idle
<1>1. worker' = [worker EXCEPT ![w] = Idle] /\ UNCHANGED scene
  BY DEF Done
<1>2. Alone(w)
  BY FreeAlone
<1> QED
  BY <1>1, <1>2, IdleQuery DEF Turn, DeskInv

LEMMA GoOnTurn ==
  ASSUME DeskInv, NEW w \in Workers, worker[w].pc # "idle", NEW pcs, NEW pc \in pcs, GoOn(w, pc)
  PROVE  /\ Turn(w, pcs)
         /\ worker'[w] = [worker[w] EXCEPT !.pc = pc]
<1> DEFINE q == [worker[w] EXCEPT !.pc = pc]
<1>1. IsQuery(q) /\ q.pc = pc
  BY DEF IsQuery, DeskInv
<1>2. worker' = [worker EXCEPT ![w] = q] /\ UNCHANGED scene
  BY DEF GoOn
<1>3. Alone(w)
  BY FreeAlone
<1> HIDE DEF q
<1> QED
  BY <1>1, <1>2, <1>3 DEF Turn, DeskInv, q

Carries(w, p) == worker' = [worker EXCEPT ![w] = p] /\ UNCHANGED scene

LEMMA CarryTurn ==
  ASSUME DeskInv, NEW w \in Workers, worker[w].pc # "idle", NEW pcs, NEW p, IsQuery(p), p.pc \in pcs, Carries(w, p)
  PROVE  Turn(w, pcs) /\ worker'[w] = p
<1>1. worker' = [worker EXCEPT ![w] = p] /\ UNCHANGED scene
  BY DEF Carries
<1>2. Alone(w)
  BY FreeAlone
<1> QED
  BY <1>1, <1>2 DEF Turn, DeskInv

(* A request that starts and ends in one step leaves all workers as they are. *)
LEMMA StayTurn ==
  ASSUME DeskInv, NEW w \in Workers, Free(w), UNCHANGED deskVars, NEW pcs
  PROVE  Turn(w, pcs) /\ worker'[w].pc = "idle"
BY FreeAlone DEF Turn, DeskInv, deskVars, Free

-------------------------------------------------------------------------------
(* Audit engagements.                                                         *)

(* The tables a request relies on.                                            *)
AuditNow ==
  [engagement |-> engagement, item |-> item, finding |-> finding, response |-> response,
   review |-> review, signoffs |-> signoffs]

OnEngagement(q) == q.pc \in {"findings", "items", "signoffs", "engagement", "record", "assign"}
OnFinding(q)    == q.pc \in {"finding", "severity", "response", "review"}

(* What a request about the engagement knows, whatever overlaps it.           *)
EngagementLoaded(q, now) ==
  /\ OnEngagement(q) => now.engagement # None /\ q.seen \in AuditEngagement
  /\ q.pc \in {"findings", "items", "signoffs", "engagement"} =>
       IF q.op = "lock" THEN q.seen.status = "CLOSED" ELSE Allows(EngagementMoves, q.seen.status, q.op)
  /\ q.pc \in {"findings", "items"} => q.op = "approve"
  /\ q.pc = "signoffs" => q.op = "sign_off"
  /\ q.pc = "engagement" /\ q.op \in {"sign_off", "close", "lock"} => "LEAD_AUDITOR" \in now.signoffs
  /\ q.pc = "record" => q.args \in AuditSignOffType /\ q.seen.status = "APPROVED"
  /\ q.pc = "assign" => q.id \in Staff

(* What any other audit request knows.                                        *)
FindingLoaded(q, now) ==
  /\ q.pc = "item" =>
       q.id \in Items /\ now.item[q.id] # None /\ q.seen \in ChecklistItem /\ q.args \in AuditChecklistItemStatus
  /\ q.pc = "new" => \E heavy, assigned \in BOOLEAN : q.args = FindingRow(heavy, assigned)
  /\ OnFinding(q) => q.id \in Findings /\ now.finding[q.id] # None /\ q.seen \in AuditFinding
  /\ q.pc = "finding" => Allows(FindingMoves, q.seen.status, q.op) /\ q.op \notin ReviewOps
  /\ q.pc = "severity" => q.args \in BOOLEAN
  /\ q.pc \in {"response", "review"} =>
       /\ q.op \in ReviewOps /\ q.args \in Responses
       /\ now.response[q.args] # None /\ now.response[q.args].of = q.id
  /\ q.pc = "end" =>
       /\ q.id \in Reviews /\ now.review[q.id] # None /\ q.op \in {"complete", "return"}
       /\ q.seen.status = "IN_PROGRESS"

AuditLoaded(q, now) == EngagementLoaded(q, now) /\ FindingLoaded(q, now)

(* What it knows besides when nobody overlaps it.                             *)
AuditFresh(q, now) ==
  /\ OnEngagement(q) => q.seen = now.engagement
  /\ q.pc = "item" => q.seen = now.item[q.id]
  /\ OnFinding(q) => q.seen = now.finding[q.id]
  /\ q.pc = "end" => q.seen = now.review[q.id]

(* Whoever reviews the response r has seen its finding waiting.               *)
SawWaiting(q, r) ==
  q.pc \in {"response", "review"} /\ q.args = r => q.seen.status = "RESPONSE_SUBMITTED"

(* A finding that waits for a review has a response of which that is so.      *)
Submitted(r, f) == response[r] # None /\ response[r].of = f /\ response[r].status = "SUBMITTED"
Answered(f) ==
  finding[f] # None /\ finding[f].status = "RESPONSE_SUBMITTED" =>
    \E r \in Responses : Submitted(r, f) /\ \A w \in Workers : SawWaiting(worker[w], r)

Founded ==
  /\ \A r \in Responses : response[r] # None => finding[response[r].of] # None
  /\ engagement = None => signoffs = {}

AuditInv ==
  /\ AuditTypeOK /\ Founded /\ AuditSteps
  /\ \A f \in Findings : Answered(f)
  /\ \A w \in Workers : AuditLoaded(worker[w], AuditNow)
  /\ scene.serial => AuditDated /\ \A w \in Workers : AuditFresh(worker[w], AuditNow)

LEMMA AuditIdle ==
  ASSUME NEW q, q.pc = "idle" \/ q.pc \in TaxPC \cup ImportPC, NEW now
  PROVE  /\ AuditLoaded(q, now) /\ AuditFresh(q, now)
         /\ \A r : SawWaiting(q, r)
BY DEF TaxPC, ImportPC, AuditLoaded, EngagementLoaded, FindingLoaded, AuditFresh, SawWaiting, OnEngagement, OnFinding

(* The rows that a request holds are never deleted.                           *)
AuditKept(now, then) ==
  /\ now.engagement # None => then.engagement # None
  /\ now.signoffs \subseteq then.signoffs
  /\ \A i \in Items : now.item[i] # None => then.item[i] # None
  /\ \A f \in Findings : now.finding[f] # None => then.finding[f] # None
  /\ \A r \in Responses : now.response[r] # None =>
       then.response[r] # None /\ then.response[r].of = now.response[r].of
  /\ \A r \in Reviews : now.review[r] # None => then.review[r] # None

LEMMA LoadedKept ==
  ASSUME NEW q, NEW now, NEW then, AuditKept(now, then), AuditLoaded(q, now)
  PROVE  AuditLoaded(q, then)
<1>1. EngagementLoaded(q, then)
  BY DEF AuditKept, AuditLoaded, EngagementLoaded
<1>2. FindingLoaded(q, then)
  BY DEF AuditKept, AuditLoaded, FindingLoaded, OnFinding
<1> QED
  BY <1>1, <1>2 DEF AuditLoaded

(* A step that reads.                                                         *)
LEMMA AuditRead ==
  ASSUME AuditInv, NEW w \in Workers, NEW pcs, Turn(w, pcs), UNCHANGED auditVars,
         AuditLoaded(worker'[w], AuditNow),
         scene.serial => AuditFresh(worker'[w], AuditNow),
         \A r \in Responses :
           /\ Submitted(r, response[r].of) /\ finding[response[r].of].status = "RESPONSE_SUBMITTED"
           /\ SawWaiting(worker[w], r)
           => SawWaiting(worker'[w], r)
  PROVE  AuditInv'
<1>1. AuditNow' = AuditNow
  BY DEF AuditNow, auditVars
<1>2. (AuditTypeOK /\ Founded /\ AuditSteps)' /\ (scene.serial => AuditDated)'
  BY DEF AuditInv, auditVars, AuditTypeOK, Founded, AuditSteps, AuditDated, Turn
<1>3. ASSUME NEW v \in Workers PROVE AuditLoaded(worker'[v], AuditNow') /\ (scene.serial => AuditFresh(worker'[v], AuditNow'))
  BY <1>1 DEF AuditInv, Turn
<1>4. ASSUME NEW f \in Findings PROVE Answered(f)'
  <2>1. Answered(f) /\ finding' = finding /\ response' = response
    BY DEF AuditInv, auditVars
  <2>2. CASE finding[f] # None /\ finding[f].status = "RESPONSE_SUBMITTED"
    <3>1. PICK r \in Responses : Submitted(r, f) /\ \A v \in Workers : SawWaiting(worker[v], r)
      BY <2>1, <2>2 DEF Answered
    <3>2. SawWaiting(worker'[w], r)
      BY <2>2, <3>1 DEF Submitted
    <3>3. \A v \in Workers : SawWaiting(worker'[v], r)
      BY <3>1, <3>2 DEF Turn
    <3>4. Submitted(r, f)'
      BY <2>1, <3>1 DEF Submitted
    <3> QED
      BY <3>3, <3>4 DEF Answered
  <2>3. CASE ~(finding[f] # None /\ finding[f].status = "RESPONSE_SUBMITTED")
    BY <2>1, <2>3 DEF Answered
  <2> QED
    BY <2>2, <2>3
<1>5. scene' = scene
  BY DEF Turn
<1> QED
  BY <1>2, <1>3, <1>4, <1>5 DEF AuditInv

(* A step that writes ends its request.                                       *)
LEMMA AuditWrite ==
  ASSUME DeskInv, AuditInv, NEW w \in Workers, NEW pcs, Turn(w, pcs), worker'[w].pc = "idle",
         AuditKept(AuditNow, AuditNow'),
         AuditTypeOK', Founded', AuditSteps', scene.serial => AuditDated',
         \A f \in Findings : Answered(f)'
  PROVE  AuditInv'
<1>1. ASSUME NEW v \in Workers PROVE AuditLoaded(worker'[v], AuditNow')
  <2>1. CASE v = w
    BY <2>1, AuditIdle
  <2>2. CASE v # w
    <3>1. AuditLoaded(worker[v], AuditNow)
      BY DEF AuditInv
    <3> QED
      BY <3>1, <2>2, LoadedKept DEF Turn
  <2> QED
    BY <2>1, <2>2
<1>2. ASSUME NEW v \in Workers, scene.serial PROVE AuditFresh(worker'[v], AuditNow')
  <2>1. worker'[v].pc = "idle"
    BY <1>2 DEF Turn, Alone
  <2> QED
    BY <2>1, AuditIdle
<1>3. scene' = scene
  BY DEF Turn
<1> QED
  BY <1>1, <1>2, <1>3 DEF AuditInv

LEMMA AnsweredSame ==
  ASSUME AuditInv, NEW w \in Workers, NEW pcs, Turn(w, pcs), worker'[w].pc = "idle", UNCHANGED <<finding, response>>
  PROVE  \A f \in Findings : Answered(f)'
<1> SUFFICES ASSUME NEW f \in Findings PROVE Answered(f)'
  OBVIOUS
<1>1. ASSUME NEW r, NEW v \in Workers, SawWaiting(worker[v], r) PROVE SawWaiting(worker'[v], r)
  BY <1>1, AuditIdle DEF Turn
<1> QED
  BY <1>1 DEF AuditInv, Answered, Submitted

(* Where the transitions of an engagement lead.                               *)
LEMMA EngagementTarget ==
  ASSUME NEW s, NEW op, Allows(EngagementMoves, s, op)
  PROVE  LET to == Target(EngagementMoves, s, op) IN
         /\ to \in AuditEngagementStatus \ {"DRAFT", "ASSIGNED"}
         /\ to = "SIGNED_OFF" => op = "sign_off"
         /\ to = "CLOSED" => op = "close"
         /\ s \notin {"CLOSED", "CANCELLED"}
         /\ s = "SIGNED_OFF" => to = "CLOSED"
         /\ s = "APPROVED" => to = "SIGNED_OFF"
<1> DEFINE m == CHOOSE x \in EngagementMoves : x[1] = s /\ x[2] = op
<1>1. m \in EngagementMoves /\ m[1] = s /\ m[2] = op
  BY DEF Allows
<1>2. Target(EngagementMoves, s, op) = m[3]
  BY DEF Target
<1> HIDE DEF m
<1> QED
  BY <1>1, <1>2 DEF EngagementMoves, AuditEngagementStatus

(* Where those of a finding lead.                                             *)
LEMMA FindingTarget ==
  ASSUME NEW s, NEW op, Allows(FindingMoves, s, op)
  PROVE  LET to == Target(FindingMoves, s, op) IN
         /\ to \in AuditFindingStatus
         /\ to = "RESPONSE_SUBMITTED" <=> op = "submit_response"
         /\ to = "ASSIGNED" => op = "assign"
         /\ to = "CLOSED" <=> op = "close"
         /\ to = "RESOLVED" <=> op \in {"resolve", "accept_response"}
         /\ op = "close" => s = "RESOLVED"
         /\ s = "RESOLVED" => op \in {"close", "reopen"}
         /\ s = "CLOSED" => op = "reopen"
         /\ op \in ReviewOps => s = "RESPONSE_SUBMITTED"
         /\ op = "reopen" => to = "REOPENED"
<1> DEFINE m == CHOOSE x \in FindingMoves : x[1] = s /\ x[2] = op
<1>1. m \in FindingMoves /\ m[1] = s /\ m[2] = op
  BY DEF Allows
<1>2. Target(FindingMoves, s, op) = m[3]
  BY DEF Target
<1> HIDE DEF m
<1> QED
  BY <1>1, <1>2 DEF FindingMoves, AuditFindingStatus, ReviewOps

LEMMA AuditInitInv == Init => AuditInv
<1> SUFFICES ASSUME Init PROVE AuditInv
  OBVIOUS
<1> USE DEF Init, AuditInit, DeskInit
<1>1. AuditTypeOK /\ Founded /\ AuditSteps /\ AuditDated
  BY AuditRowsAssumption DEF AuditTypeOK, Founded, AuditSteps, AuditDated
<1>2. \A f \in Findings : Answered(f)
  BY DEF Answered
<1>3. \A w \in Workers : AuditLoaded(worker[w], AuditNow) /\ AuditFresh(worker[w], AuditNow)
  BY AuditIdle, IdleQuery
<1> QED
  BY <1>1, <1>2, <1>3 DEF AuditInv

LEMMA CreateEngagementInv ==
  ASSUME DeskInv, AuditInv, NEW w \in Workers, CreateEngagement(w)
  PROVE  Turn(w, AuditPC) /\ AuditInv'
<1> USE DEF CreateEngagement, Asked
<1>1. Turn(w, AuditPC) /\ worker'[w].pc = "idle"
  BY StayTurn
<1>2. AuditKept(AuditNow, AuditNow')
  BY DEF AuditKept, AuditNow
<1>3. EngagementRow("DRAFT") \in AuditEngagement
  BY DEF EngagementRow, AuditEngagement, AuditEngagementStatus
<1>4. AuditTypeOK' /\ Founded' /\ AuditSteps' /\ (scene.serial => AuditDated')
  BY <1>3, AuditRowsAssumption DEF AuditInv, AuditTypeOK, Founded, AuditSteps, AuditDated, EngagementRow
<1>5. \A f \in Findings : Answered(f)'
  BY <1>1, AnsweredSame
<1> QED
  BY <1>1, <1>2, <1>4, <1>5, AuditWrite

LEMMA LoadEngagementInv ==
  ASSUME DeskInv, AuditInv, NEW w \in Workers, LoadEngagement(w)
  PROVE  Turn(w, AuditPC) /\ AuditInv'
<1>1. PICK op \in {m[2] : m \in EngagementMoves} \cup {"lock"} :
        /\ Asked(w, "engagement", op)
        /\ IF op = "lock" THEN engagement.status = "CLOSED" ELSE Allows(EngagementMoves, engagement.status, op)
        /\ Serve(w, IF op = "approve" THEN "findings" ELSE IF op = "sign_off" THEN "signoffs" ELSE "engagement",
                 op, None, None, engagement)
  BY DEF LoadEngagement
<1>2. PICK pc \in {"findings", "signoffs", "engagement"} :
        pc = IF op = "approve" THEN "findings" ELSE IF op = "sign_off" THEN "signoffs" ELSE "engagement"
  OBVIOUS
<1>3. Turn(w, AuditPC) /\ worker'[w] = [pc |-> pc, op |-> op, id |-> None, args |-> None, seen |-> engagement]
  BY <1>1, <1>2, ServeTurn DEF Asked, AuditPC
<1>4. engagement # None /\ engagement \in AuditEngagement /\ UNCHANGED auditVars
  BY DEF LoadEngagement, AuditInv, AuditTypeOK
<1>5. pc = "engagement" /\ op \in {"close", "lock"} => "LEAD_AUDITOR" \in signoffs
  <2>1. op = "close" => engagement.status = "SIGNED_OFF"
    BY <1>1 DEF Allows, EngagementMoves
  <2> QED
    BY <1>1, <1>4, <2>1 DEF AuditInv, AuditSteps
<1>6. AuditLoaded(worker'[w], AuditNow) /\ AuditFresh(worker'[w], AuditNow)
  BY <1>1, <1>2, <1>3, <1>4, <1>5 DEF AuditLoaded, EngagementLoaded, FindingLoaded, AuditFresh, AuditNow, OnEngagement, OnFinding
<1>7. \A r : SawWaiting(worker'[w], r)
  BY <1>2, <1>3 DEF SawWaiting
<1> QED
  BY <1>3, <1>4, <1>6, <1>7, AuditRead

(* A gate lets its request go on.                                             *)
LEMMA GateInv ==
  ASSUME DeskInv, AuditInv, NEW w \in Workers, GateFindings(w) \/ GateItems(w) \/ GateSignOffs(w)
  PROVE  Turn(w, AuditPC) /\ AuditInv'
<1>1. PICK pc \in {"items", "engagement"} :
        /\ GoOn(w, pc) /\ UNCHANGED auditVars
        /\ worker[w].pc \in {"findings", "items", "signoffs"}
        /\ worker[w].pc = "signoffs" => "LEAD_AUDITOR" \in signoffs
        /\ pc = "items" => worker[w].pc = "findings"
  BY DEF GateFindings, GateItems, GateSignOffs
<1>2. Turn(w, AuditPC) /\ worker'[w] = [worker[w] EXCEPT !.pc = pc]
  BY <1>1, GoOnTurn DEF AuditPC
<1>3. PICK q : q = worker[w]
  OBVIOUS
<1>4. PICK p : p = [q EXCEPT !.pc = pc]
  OBVIOUS
<1>5. IsQuery(q) /\ AuditLoaded(q, AuditNow) /\ (scene.serial => AuditFresh(q, AuditNow))
  BY <1>3 DEF DeskInv, AuditInv
<1>6. p.pc = pc /\ p.op = q.op /\ p.id = q.id /\ p.args = q.args /\ p.seen = q.seen
  BY <1>4, <1>5 DEF IsQuery
<1>7. AuditLoaded(p, AuditNow) /\ (scene.serial => AuditFresh(p, AuditNow))
  BY <1>1, <1>3, <1>5, <1>6 DEF AuditLoaded, EngagementLoaded, FindingLoaded, AuditFresh, OnEngagement, OnFinding, AuditNow
<1>8. \A r : SawWaiting(p, r)
  BY <1>6 DEF SawWaiting
<1> QED
  BY <1>1, <1>2, <1>3, <1>4, <1>7, <1>8, AuditRead

LEMMA MoveEngagementInv ==
  ASSUME DeskInv, AuditInv, NEW w \in Workers, MoveEngagement(w)
  PROVE  Turn(w, AuditPC) /\ AuditInv'
<1>1. PICK q : q = worker[w]
  OBVIOUS
<1>2. q.pc = "engagement" /\ Done(w) /\ UNCHANGED <<staff, item, finding, response, review, signoffs>>
  BY <1>1 DEF MoveEngagement
<1>3. PICK to : to = Target(EngagementMoves, q.seen.status, q.op)
  OBVIOUS
<1>4. engagement' = IF q.op = "lock" THEN [engagement EXCEPT !.locked = TRUE] ELSE [engagement EXCEPT !.status = to]
  BY <1>1, <1>3 DEF MoveEngagement
<1>5. Turn(w, AuditPC) /\ worker'[w].pc = "idle"
  BY <1>1, <1>2, DoneTurn, IdleQuery
<1>6. /\ engagement \in AuditEngagement /\ engagement # None
      /\ IF q.op = "lock" THEN q.seen.status = "CLOSED" ELSE Allows(EngagementMoves, q.seen.status, q.op)
      /\ q.op \in {"sign_off", "close", "lock"} => "LEAD_AUDITOR" \in signoffs
      /\ scene.serial => q.seen = engagement
  BY <1>1, <1>2 DEF AuditInv, AuditTypeOK, AuditLoaded, EngagementLoaded, AuditFresh, AuditNow, OnEngagement
<1>7. q.op # "lock" =>
        /\ to \in AuditEngagementStatus \ {"DRAFT", "ASSIGNED"}
        /\ to = "SIGNED_OFF" => q.op = "sign_off"
        /\ to = "CLOSED" => q.op = "close"
        /\ q.seen.status \notin {"CLOSED", "CANCELLED"}
        /\ q.seen.status = "SIGNED_OFF" => to = "CLOSED"
        /\ q.seen.status = "APPROVED" => to = "SIGNED_OFF"
  BY <1>3, <1>6, EngagementTarget
<1>8. engagement' \in AuditEngagement
  BY <1>4, <1>6, <1>7 DEF AuditEngagement
<1>9. engagement' # None
  BY <1>8, AuditRowsAssumption
<1>10. AuditKept(AuditNow, AuditNow')
  BY <1>2, <1>9 DEF AuditKept, AuditNow
<1>11. AuditTypeOK' /\ Founded'
  BY <1>2, <1>8, <1>9 DEF AuditInv, AuditTypeOK, Founded
<1>12. AuditSteps'
  BY <1>2, <1>4, <1>6, <1>7, <1>8 DEF AuditInv, AuditSteps, AuditEngagement
<1>13. scene.serial => AuditDated'
  BY <1>2, <1>4, <1>6, <1>7, <1>8 DEF AuditInv, AuditDated, AuditEngagement
<1>14. \A f \in Findings : Answered(f)'
  BY <1>2, <1>5, AnsweredSame
<1> QED
  BY <1>5, <1>10, <1>11, <1>12, <1>13, <1>14, AuditWrite

LEMMA AskSignOffInv ==
  ASSUME DeskInv, AuditInv, NEW w \in Workers, AskSignOff(w)
  PROVE  Turn(w, AuditPC) /\ AuditInv'
<1>1. PICK t \in AuditSignOffType : Serve(w, "record", "record_sign_off", None, t, engagement)
  BY DEF AskSignOff
<1>2. /\ Turn(w, AuditPC)
      /\ worker'[w] = [pc |-> "record", op |-> "record_sign_off", id |-> None, args |-> t, seen |-> engagement]
  BY <1>1, ServeTurn DEF AskSignOff, Asked, AuditPC
<1>3. engagement # None /\ engagement.status = "APPROVED" /\ engagement \in AuditEngagement /\ UNCHANGED auditVars
  BY DEF AskSignOff, AuditInv, AuditTypeOK
<1>4. AuditLoaded(worker'[w], AuditNow) /\ AuditFresh(worker'[w], AuditNow) /\ \A r : SawWaiting(worker'[w], r)
  BY <1>2, <1>3 DEF AuditLoaded, EngagementLoaded, FindingLoaded, AuditFresh, AuditNow, OnEngagement, OnFinding, SawWaiting
<1> QED
  BY <1>2, <1>3, <1>4, AuditRead

LEMMA RecordSignOffInv ==
  ASSUME DeskInv, AuditInv, NEW w \in Workers, RecordSignOff(w)
  PROVE  Turn(w, AuditPC) /\ AuditInv'
<1>1. PICK q : q = worker[w]
  OBVIOUS
<1>2. /\ q.pc = "record" /\ Done(w) /\ UNCHANGED <<engagement, staff, item, finding, response, review>>
      /\ signoffs' = signoffs \cup {q.args}
  BY <1>1 DEF RecordSignOff
<1>3. Turn(w, AuditPC) /\ worker'[w].pc = "idle"
  BY <1>1, <1>2, DoneTurn, IdleQuery
<1>4. /\ engagement # None /\ q.args \in AuditSignOffType
      /\ scene.serial => engagement.status = "APPROVED"
  BY <1>1, <1>2 DEF AuditInv, AuditLoaded, EngagementLoaded, AuditFresh, AuditNow, OnEngagement
<1>5. AuditKept(AuditNow, AuditNow')
  BY <1>2 DEF AuditKept, AuditNow
<1>6. AuditTypeOK' /\ Founded' /\ AuditSteps' /\ (scene.serial => AuditDated')
  BY <1>2, <1>4 DEF AuditInv, AuditTypeOK, Founded, AuditSteps, AuditDated
<1>7. \A f \in Findings : Answered(f)'
  BY <1>2, <1>3, AnsweredSame
<1> QED
  BY <1>3, <1>5, <1>6, <1>7, AuditWrite

LEMMA AskAssignInv ==
  ASSUME DeskInv, AuditInv, NEW w \in Workers, AskAssign(w)
  PROVE  Turn(w, AuditPC) /\ AuditInv'
<1>1. PICK p \in Staff : Serve(w, "assign", "assign", p, None, engagement)
  BY DEF AskAssign
<1>2. /\ Turn(w, AuditPC)
      /\ worker'[w] = [pc |-> "assign", op |-> "assign", id |-> p, args |-> None, seen |-> engagement]
  BY <1>1, ServeTurn DEF AskAssign, Asked, AuditPC
<1>3. engagement # None /\ engagement \in AuditEngagement /\ UNCHANGED auditVars
  BY DEF AskAssign, AuditInv, AuditTypeOK
<1>4. AuditLoaded(worker'[w], AuditNow) /\ AuditFresh(worker'[w], AuditNow) /\ \A r : SawWaiting(worker'[w], r)
  BY <1>2, <1>3 DEF AuditLoaded, EngagementLoaded, FindingLoaded, AuditFresh, AuditNow, OnEngagement, OnFinding, SawWaiting
<1> QED
  BY <1>2, <1>3, <1>4, AuditRead

LEMMA AssignInv ==
  ASSUME DeskInv, AuditInv, NEW w \in Workers, Assign(w)
  PROVE  Turn(w, AuditPC) /\ AuditInv'
<1>1. PICK q : q = worker[w]
  OBVIOUS
<1>2. /\ q.pc = "assign" /\ Done(w) /\ UNCHANGED <<item, finding, response, review, signoffs>>
      /\ staff' = [staff EXCEPT ![q.id] = "active"]
      /\ engagement' = IF q.seen.status = "OPEN" THEN [engagement EXCEPT !.status = "ASSIGNED"] ELSE engagement
  BY <1>1 DEF Assign
<1>3. Turn(w, AuditPC) /\ worker'[w].pc = "idle"
  BY <1>1, <1>2, DoneTurn, IdleQuery
<1>4. /\ engagement # None /\ engagement \in AuditEngagement /\ q.id \in Staff
      /\ scene.serial => engagement = q.seen
  BY <1>1, <1>2 DEF AuditInv, AuditTypeOK, AuditLoaded, EngagementLoaded, AuditFresh, AuditNow, OnEngagement
<1>5. engagement' \in AuditEngagement
  BY <1>2, <1>4 DEF AuditEngagement, AuditEngagementStatus
<1>6. engagement' # None
  BY <1>5, AuditRowsAssumption
<1>7. AuditKept(AuditNow, AuditNow')
  BY <1>2, <1>6 DEF AuditKept, AuditNow
<1>8. staff' \in [Staff -> {"none", "active", "inactive"}] /\ staff'[q.id] = "active"
  BY <1>2, <1>4 DEF AuditInv, AuditTypeOK
<1>9. AuditTypeOK' /\ Founded'
  BY <1>2, <1>5, <1>6, <1>8 DEF AuditInv, AuditTypeOK, Founded
<1>10. AuditSteps'
  BY <1>2, <1>4, <1>8 DEF AuditInv, AuditSteps, AuditEngagement
<1>11. scene.serial => AuditDated'
  BY <1>2, <1>4 DEF AuditInv, AuditDated, AuditEngagement
<1>12. \A f \in Findings : Answered(f)'
  BY <1>2, <1>3, AnsweredSame
<1> QED
  BY <1>3, <1>7, <1>9, <1>10, <1>11, <1>12, AuditWrite

LEMMA UnassignInv ==
  ASSUME DeskInv, AuditInv, NEW w \in Workers, Unassign(w)
  PROVE  Turn(w, AuditPC) /\ AuditInv'
<1>1. PICK p \in Staff : staff[p] = "active" /\ staff' = [staff EXCEPT ![p] = "inactive"]
  BY DEF Unassign
<1>2. UNCHANGED <<engagement, item, finding, response, review, signoffs>> /\ UNCHANGED deskVars /\ Free(w)
  BY DEF Unassign, Asked
<1>3. Turn(w, AuditPC) /\ worker'[w].pc = "idle"
  BY <1>2, StayTurn
<1>4. AuditKept(AuditNow, AuditNow')
  BY <1>2 DEF AuditKept, AuditNow
<1>5. staff' \in [Staff -> {"none", "active", "inactive"}] /\ \A s \in Staff : staff[s] # "none" => staff'[s] # "none"
  BY <1>1 DEF AuditInv, AuditTypeOK
<1>6. AuditTypeOK' /\ Founded' /\ AuditSteps' /\ (scene.serial => AuditDated')
  BY <1>2, <1>5 DEF AuditInv, AuditTypeOK, Founded, AuditSteps, AuditDated
<1>7. \A f \in Findings : Answered(f)'
  BY <1>2, <1>3, AnsweredSame
<1> QED
  BY <1>3, <1>4, <1>6, <1>7, AuditWrite

LEMMA AskChecklistInv ==
  ASSUME DeskInv, AuditInv, NEW w \in Workers, AskChecklist(w)
  PROVE  Turn(w, AuditPC) /\ AuditInv'
<1>1. PICK op \in {"get", "add"}, seen \in BOOLEAN : Free(w) /\ Serve(w, "checklist", op, None, None, seen)
  <2>1. PICK op \in {"get", "add"} : Free(w) /\ Serve(w, "checklist", op, None, None, Listed)
    BY DEF AskChecklist, Asked
  <2>2. Listed \in BOOLEAN
    BY DEF Listed
  <2> HIDE DEF Listed
  <2> QED
    BY <2>1, <2>2, Zenon
<1>2. Turn(w, AuditPC) /\ worker'[w] = [pc |-> "checklist", op |-> op, id |-> None, args |-> None, seen |-> seen]
  BY <1>1, ServeTurn DEF AuditPC
<1>3. AuditLoaded(worker'[w], AuditNow) /\ AuditFresh(worker'[w], AuditNow) /\ \A r : SawWaiting(worker'[w], r)
  BY <1>2 DEF AuditLoaded, EngagementLoaded, FindingLoaded, AuditFresh, OnEngagement, OnFinding, SawWaiting
<1> QED
  BY <1>2, <1>3, AuditRead DEF AskChecklist

LEMMA WriteChecklistInv ==
  ASSUME DeskInv, AuditInv, NEW w \in Workers, WriteChecklist(w)
  PROVE  Turn(w, AuditPC) /\ AuditInv'
<1>1. PICK q : q = worker[w]
  OBVIOUS
<1>2. PICK listed : listed = [i \in Items |-> IF ~q.seen /\ i \in Template THEN ItemRow ELSE item[i]]
  OBVIOUS
<1>3. /\ q.pc = "checklist" /\ Done(w) /\ UNCHANGED <<engagement, staff, finding, response, review, signoffs>>
      /\ ~q.seen => ~Listed
      /\ \/ item' = listed
         \/ \E i \in Items : item' = [listed EXCEPT ![i] = ItemRow]
  BY <1>1, <1>2 DEF WriteChecklist
<1>4. Turn(w, AuditPC) /\ worker'[w].pc = "idle"
  BY <1>1, <1>3, DoneTurn, IdleQuery
<1>5. item \in [Items -> ChecklistItem \cup {None}]
  BY DEF AuditInv, AuditTypeOK
<1>6. ItemRow \in ChecklistItem /\ ItemRow # None
  <2>1. ItemRow \in ChecklistItem
    BY DEF ItemRow, ChecklistItem, AuditChecklistItemStatus
  <2> QED
    BY <2>1, AuditRowsAssumption
<1>7. item' \in [Items -> ChecklistItem \cup {None}] /\ \A i \in Items : item'[i] = item[i] \/ item'[i] = ItemRow
  BY <1>2, <1>3, <1>5, <1>6
<1>8. AuditKept(AuditNow, AuditNow')
  BY <1>3, <1>6, <1>7 DEF AuditKept, AuditNow
<1>9. \A i \in Items : (item[i] # None => (item[i].done <=> item[i].status = "COMPLETED"))
        => (item'[i] # None => (item'[i].done <=> item'[i].status = "COMPLETED"))
  BY <1>7 DEF ItemRow
<1>10. AuditTypeOK' /\ Founded' /\ AuditSteps' /\ (scene.serial => AuditDated')
  BY <1>3, <1>7, <1>9 DEF AuditInv, AuditTypeOK, Founded, AuditSteps, AuditDated
<1>11. \A f \in Findings : Answered(f)'
  BY <1>3, <1>4, AnsweredSame
<1> QED
  BY <1>4, <1>8, <1>10, <1>11, AuditWrite

LEMMA LoadItemInv ==
  ASSUME DeskInv, AuditInv, NEW w \in Workers, LoadItem(w)
  PROVE  Turn(w, AuditPC) /\ AuditInv'
<1>1. PICK i \in Items, s \in AuditChecklistItemStatus : item[i] # None /\ Serve(w, "item", "update", i, s, item[i])
  BY DEF LoadItem
<1>2. Turn(w, AuditPC) /\ worker'[w] = [pc |-> "item", op |-> "update", id |-> i, args |-> s, seen |-> item[i]]
  BY <1>1, ServeTurn DEF LoadItem, Asked, AuditPC
<1>3. item[i] \in ChecklistItem /\ UNCHANGED auditVars
  BY <1>1 DEF LoadItem, AuditInv, AuditTypeOK
<1>4. AuditLoaded(worker'[w], AuditNow) /\ AuditFresh(worker'[w], AuditNow) /\ \A r : SawWaiting(worker'[w], r)
  BY <1>1, <1>2, <1>3 DEF AuditLoaded, EngagementLoaded, FindingLoaded, AuditFresh, AuditNow, OnEngagement, OnFinding,
    SawWaiting
<1> QED
  BY <1>2, <1>3, <1>4, AuditRead

LEMMA UpdateItemInv ==
  ASSUME DeskInv, AuditInv, NEW w \in Workers, UpdateItem(w)
  PROVE  Turn(w, AuditPC) /\ AuditInv'
<1>1. PICK q : q = worker[w]
  OBVIOUS
<1>2. /\ q.pc = "item" /\ Done(w) /\ UNCHANGED <<engagement, staff, finding, response, review, signoffs>>
      /\ item' = [item EXCEPT ![q.id].status = Column(q.args, q.seen.status, @),
                              ![q.id].done   = Completion(q, @)]
  BY <1>1 DEF UpdateItem
<1>3. Turn(w, AuditPC) /\ worker'[w].pc = "idle"
  BY <1>1, <1>2, DoneTurn, IdleQuery
<1>4. /\ q.id \in Items /\ item[q.id] # None /\ q.args \in AuditChecklistItemStatus /\ q.seen \in ChecklistItem
      /\ scene.serial => q.seen = item[q.id]
  BY <1>1, <1>2 DEF AuditInv, AuditLoaded, FindingLoaded, AuditFresh, AuditNow
<1>5. PICK row : row = item[q.id]
  OBVIOUS
<1>6. item \in [Items -> ChecklistItem \cup {None}] /\ row \in ChecklistItem
  BY <1>4, <1>5 DEF AuditInv, AuditTypeOK
<1>7. PICK new : new = [status |-> Column(q.args, q.seen.status, row.status), done |-> Completion(q, row.done)]
  OBVIOUS
<1>8. new \in ChecklistItem /\ new # None
  <2>1. Column(q.args, q.seen.status, row.status) \in AuditChecklistItemStatus
    BY <1>4, <1>6 DEF Column, ChecklistItem
  <2>2. Completion(q, row.done) \in BOOLEAN
    BY <1>4, <1>6 DEF Completion, Column, ChecklistItem
  <2> QED
    BY <1>7, <2>1, <2>2, AuditRowsAssumption DEF ChecklistItem
<1>9. item' = [item EXCEPT ![q.id] = new]
  <2>1. row = [status |-> row.status, done |-> row.done]
    BY <1>6 DEF ChecklistItem
  <2>2. PICK s, d : s = new.status /\ d = new.done
    OBVIOUS
  <2>3. item' = [item EXCEPT ![q.id] = [row EXCEPT !.status = s, !.done = d]]
    BY <1>2, <1>4, <1>5, <1>6, <1>7, <2>2, Zenon
  <2>4. [row EXCEPT !.status = s, !.done = d] = new
    BY <1>7, <2>1, <2>2
  <2> QED
    BY <2>3, <2>4
<1>10. AuditKept(AuditNow, AuditNow')
  BY <1>2, <1>6, <1>8, <1>9 DEF AuditKept, AuditNow
<1>11. item' \in [Items -> ChecklistItem \cup {None}]
  BY <1>6, <1>8, <1>9
<1>12. AuditTypeOK' /\ Founded' /\ AuditSteps'
  BY <1>2, <1>11 DEF AuditInv, AuditTypeOK, Founded, AuditSteps
<1>13. ASSUME scene.serial PROVE AuditDated'
  <2>1. row.done <=> row.status = "COMPLETED"
    BY <1>4, <1>5, <1>13 DEF AuditInv, AuditDated
  <2>2. new.done <=> new.status = "COMPLETED"
    BY <1>4, <1>5, <1>6, <1>7, <1>13, <2>1 DEF Completion, Column, ChecklistItem
  <2> QED
    BY <1>2, <1>6, <1>9, <1>13, <2>2 DEF AuditInv, AuditDated
<1>14. \A f \in Findings : Answered(f)'
  BY <1>2, <1>3, AnsweredSame
<1> QED
  BY <1>3, <1>10, <1>12, <1>13, <1>14, AuditWrite

LEMMA StartReviewInv ==
  ASSUME DeskInv, AuditInv, NEW w \in Workers, StartReview(w)
  PROVE  Turn(w, AuditPC) /\ AuditInv'
<1>1. PICK r \in Reviews : review[r] = None /\ review' = [review EXCEPT ![r] = ReviewRow]
  BY DEF StartReview
<1>2. UNCHANGED <<engagement, staff, item, finding, response, signoffs>> /\ UNCHANGED deskVars /\ Free(w)
  BY DEF StartReview, Asked
<1>3. Turn(w, AuditPC) /\ worker'[w].pc = "idle"
  BY <1>2, StayTurn
<1>4. ReviewRow \in AuditReview /\ ReviewRow # None /\ ReviewRow.done = FALSE /\ ReviewRow.status = "IN_PROGRESS"
  <2>1. ReviewRow \in AuditReview /\ ReviewRow.done = FALSE /\ ReviewRow.status = "IN_PROGRESS"
    BY DEF ReviewRow, AuditReview
  <2> QED
    BY <2>1, AuditRowsAssumption
<1> HIDE DEF ReviewRow
<1>5. AuditKept(AuditNow, AuditNow')
  BY <1>1, <1>2, <1>4 DEF AuditKept, AuditNow, AuditInv, AuditTypeOK
<1>6. AuditTypeOK' /\ Founded' /\ AuditSteps' /\ (scene.serial => AuditDated')
  BY <1>1, <1>2, <1>4 DEF AuditInv, AuditTypeOK, Founded, AuditSteps, AuditDated
<1>7. \A f \in Findings : Answered(f)'
  BY <1>2, <1>3, AnsweredSame
<1> QED
  BY <1>3, <1>5, <1>6, <1>7, AuditWrite

LEMMA LoadReviewInv ==
  ASSUME DeskInv, AuditInv, NEW w \in Workers, LoadReview(w)
  PROVE  Turn(w, AuditPC) /\ AuditInv'
<1>1. PICK r \in Reviews, op \in {"complete", "return"} :
        Free(w) /\ review[r] # None /\ review[r].status = "IN_PROGRESS" /\ Serve(w, "end", op, r, None, review[r])
  BY DEF LoadReview, Asked
<1>2. Turn(w, AuditPC) /\ worker'[w] = [pc |-> "end", op |-> op, id |-> r, args |-> None, seen |-> review[r]]
  BY <1>1, ServeTurn DEF AuditPC
<1>3. AuditLoaded(worker'[w], AuditNow) /\ AuditFresh(worker'[w], AuditNow) /\ \A s : SawWaiting(worker'[w], s)
  BY <1>1, <1>2 DEF AuditLoaded, EngagementLoaded, FindingLoaded, AuditFresh, AuditNow, OnEngagement, OnFinding, SawWaiting
<1> QED
  BY <1>2, <1>3, AuditRead DEF LoadReview

LEMMA EndReviewInv ==
  ASSUME DeskInv, AuditInv, NEW w \in Workers, EndReview(w)
  PROVE  Turn(w, AuditPC) /\ AuditInv'
<1>1. PICK q : q = worker[w]
  OBVIOUS
<1>2. PICK s \in {"COMPLETED", "RETURNED"} : s = IF q.op = "complete" THEN "COMPLETED" ELSE "RETURNED"
  OBVIOUS
<1>3. /\ q.pc = "end" /\ Done(w) /\ UNCHANGED <<engagement, staff, item, finding, response, signoffs>>
      /\ review' = [review EXCEPT ![q.id].status = s, ![q.id].done = @ \/ q.op = "complete"]
  BY <1>1, <1>2 DEF EndReview
<1>4. Turn(w, AuditPC) /\ worker'[w].pc = "idle"
  BY <1>1, <1>3, DoneTurn, IdleQuery
<1>5. /\ q.id \in Reviews /\ review[q.id] # None /\ q.seen.status = "IN_PROGRESS"
      /\ scene.serial => q.seen = review[q.id]
  BY <1>1, <1>3 DEF AuditInv, AuditLoaded, FindingLoaded, AuditFresh, AuditNow
<1>6. PICK row : row = review[q.id]
  OBVIOUS
<1>7. review \in [Reviews -> AuditReview \cup {None}] /\ row \in AuditReview
  BY <1>5, <1>6 DEF AuditInv, AuditTypeOK
<1>8. PICK d \in BOOLEAN : d = (row.done \/ q.op = "complete")
  OBVIOUS
<1>9. PICK new : new = [status |-> s, done |-> d]
  OBVIOUS
<1>10. new \in AuditReview /\ new # None
  <2>1. new \in AuditReview
    BY <1>9 DEF AuditReview
  <2> QED
    BY <2>1, AuditRowsAssumption
<1>11. review' = [review EXCEPT ![q.id] = new]
  <2>1. review' = [review EXCEPT ![q.id] = [row EXCEPT !.status = s, !.done = d]]
    BY <1>3, <1>5, <1>6, <1>7, <1>8, Zenon
  <2>2. row = [status |-> row.status, done |-> row.done]
    BY <1>7 DEF AuditReview
  <2>3. PICK moved : moved = [row EXCEPT !.status = s]
    OBVIOUS
  <2>4. moved = [status |-> s, done |-> row.done]
    BY <2>2, <2>3
  <2>5. [moved EXCEPT !.done = d] = [status |-> s, done |-> d]
    BY <2>4
  <2> QED
    BY <1>9, <2>1, <2>3, <2>5
<1>12. AuditKept(AuditNow, AuditNow')
  BY <1>3, <1>7, <1>10, <1>11 DEF AuditKept, AuditNow
<1>13. review' \in [Reviews -> AuditReview \cup {None}]
  BY <1>7, <1>10, <1>11
<1>14. AuditTypeOK' /\ Founded' /\ AuditSteps'
  BY <1>3, <1>13 DEF AuditInv, AuditTypeOK, Founded, AuditSteps
<1>15. ASSUME scene.serial PROVE AuditDated'
  <2>1. ~row.done
    BY <1>5, <1>6, <1>15 DEF AuditInv, AuditDated
  <2>2. new.done <=> new.status = "COMPLETED"
    BY <1>2, <1>8, <1>9, <2>1
  <2> QED
    BY <1>3, <1>7, <1>11, <1>15, <2>2 DEF AuditInv, AuditDated
<1>16. \A f \in Findings : Answered(f)'
  BY <1>3, <1>4, AnsweredSame
<1> QED
  BY <1>4, <1>12, <1>14, <1>15, <1>16, AuditWrite

LEMMA AskFindingInv ==
  ASSUME DeskInv, AuditInv, NEW w \in Workers, AskFinding(w)
  PROVE  Turn(w, AuditPC) /\ AuditInv'
<1>1. PICK heavy, assigned \in BOOLEAN : Serve(w, "new", "create", None, FindingRow(heavy, assigned), Codes)
  BY DEF AskFinding
<1>2. PICK row : row = FindingRow(heavy, assigned)
  OBVIOUS
<1>3. /\ Turn(w, AuditPC)
      /\ worker'[w] = [pc |-> "new", op |-> "create", id |-> None, args |-> row, seen |-> Codes]
  <2> HIDE DEF Codes, FindingRow
  <2> QED
    BY <1>1, <1>2, ServeTurn DEF AskFinding, Asked, AuditPC
<1>4. AuditLoaded(worker'[w], AuditNow) /\ AuditFresh(worker'[w], AuditNow) /\ \A r : SawWaiting(worker'[w], r)
  BY <1>2, <1>3 DEF AuditLoaded, EngagementLoaded, FindingLoaded, AuditFresh, OnEngagement, OnFinding, SawWaiting
<1> QED
  BY <1>3, <1>4, AuditRead DEF AskFinding

LEMMA LoadFindingInv ==
  ASSUME DeskInv, AuditInv, NEW w \in Workers, LoadFinding(w)
  PROVE  Turn(w, AuditPC) /\ AuditInv'
<1>1. PICK f \in Findings, op \in {m[2] : m \in FindingMoves} \ ReviewOps :
        /\ Free(w) /\ finding[f] # None /\ Allows(FindingMoves, finding[f].status, op)
        /\ Serve(w, "finding", op, f, None, finding[f])
  BY DEF LoadFinding, Asked
<1>2. Turn(w, AuditPC) /\ worker'[w] = [pc |-> "finding", op |-> op, id |-> f, args |-> None, seen |-> finding[f]]
  BY <1>1, ServeTurn DEF AuditPC
<1>3. finding[f] \in AuditFinding
  BY <1>1 DEF AuditInv, AuditTypeOK
<1>4. AuditLoaded(worker'[w], AuditNow) /\ AuditFresh(worker'[w], AuditNow) /\ \A r : SawWaiting(worker'[w], r)
  BY <1>1, <1>2, <1>3 DEF AuditLoaded, EngagementLoaded, FindingLoaded, AuditFresh, AuditNow, OnEngagement, OnFinding,
    SawWaiting
<1> QED
  BY <1>2, <1>4, AuditRead DEF LoadFinding

LEMMA LoadForUpdateInv ==
  ASSUME DeskInv, AuditInv, NEW w \in Workers, LoadForUpdate(w)
  PROVE  Turn(w, AuditPC) /\ AuditInv'
<1>1. PICK f \in Findings, heavy \in BOOLEAN :
        Free(w) /\ finding[f] # None /\ Serve(w, "severity", "update", f, heavy, finding[f])
  BY DEF LoadForUpdate, Asked
<1>2. Turn(w, AuditPC) /\ worker'[w] = [pc |-> "severity", op |-> "update", id |-> f, args |-> heavy, seen |-> finding[f]]
  BY <1>1, ServeTurn DEF AuditPC
<1>3. finding[f] \in AuditFinding
  BY <1>1 DEF AuditInv, AuditTypeOK
<1>4. AuditLoaded(worker'[w], AuditNow) /\ AuditFresh(worker'[w], AuditNow) /\ \A r : SawWaiting(worker'[w], r)
  BY <1>1, <1>2, <1>3 DEF AuditLoaded, EngagementLoaded, FindingLoaded, AuditFresh, AuditNow, OnEngagement, OnFinding,
    SawWaiting
<1> QED
  BY <1>2, <1>4, AuditRead DEF LoadForUpdate

(* A review of a response loads the finding before the response, and so has   *)
(* seen it waiting if it waits now.                                           *)
LEMMA LoadForReviewInv ==
  ASSUME DeskInv, AuditInv, NEW w \in Workers, LoadForReview(w)
  PROVE  Turn(w, AuditPC) /\ AuditInv'
<1>1. PICK f \in Findings, r \in Responses, op \in ReviewOps :
        Free(w) /\ response[r] # None /\ response[r].of = f /\ Serve(w, "response", op, f, r, finding[f])
  BY DEF LoadForReview, Asked
<1>2. Turn(w, AuditPC) /\ worker'[w] = [pc |-> "response", op |-> op, id |-> f, args |-> r, seen |-> finding[f]]
  BY <1>1, ServeTurn DEF AuditPC
<1>3. finding[f] \in AuditFinding /\ finding[f] # None
  BY <1>1 DEF AuditInv, AuditTypeOK, Founded
<1>4. AuditLoaded(worker'[w], AuditNow) /\ AuditFresh(worker'[w], AuditNow)
  BY <1>1, <1>2, <1>3 DEF AuditLoaded, EngagementLoaded, FindingLoaded, AuditFresh, AuditNow, OnEngagement, OnFinding
<1>5. \A s \in Responses : Submitted(s, response[s].of) /\ finding[response[s].of].status = "RESPONSE_SUBMITTED"
        => SawWaiting(worker'[w], s)
  BY <1>1, <1>2 DEF SawWaiting
<1> QED
  BY <1>2, <1>4, <1>5, AuditRead DEF LoadForReview

LEMMA LoadResponseInv ==
  ASSUME DeskInv, AuditInv, NEW w \in Workers, LoadResponse(w)
  PROVE  Turn(w, AuditPC) /\ AuditInv'
<1>1. GoOn(w, "review") /\ worker[w].pc = "response" /\ UNCHANGED auditVars
  BY DEF LoadResponse
<1>2. Turn(w, AuditPC) /\ worker'[w] = [worker[w] EXCEPT !.pc = "review"]
  BY <1>1, GoOnTurn DEF AuditPC
<1>3. PICK q : q = worker[w]
  OBVIOUS
<1>4. PICK p : p = [q EXCEPT !.pc = "review"]
  OBVIOUS
<1>5. IsQuery(q) /\ AuditLoaded(q, AuditNow) /\ (scene.serial => AuditFresh(q, AuditNow))
  BY <1>3 DEF DeskInv, AuditInv
<1>6. p.pc = "review" /\ p.op = q.op /\ p.id = q.id /\ p.args = q.args /\ p.seen = q.seen
  BY <1>4, <1>5 DEF IsQuery
<1>7. AuditLoaded(p, AuditNow) /\ (scene.serial => AuditFresh(p, AuditNow))
  BY <1>1, <1>3, <1>5, <1>6 DEF AuditLoaded, EngagementLoaded, FindingLoaded, AuditFresh, OnEngagement, OnFinding, AuditNow
<1>8. \A r : SawWaiting(q, r) => SawWaiting(p, r)
  BY <1>1, <1>3, <1>6 DEF SawWaiting
<1> QED
  BY <1>1, <1>2, <1>3, <1>4, <1>7, <1>8, AuditRead

(* What a transition makes of a finding.                                      *)
LEMMA MovedRow ==
  ASSUME NEW q, NEW row \in AuditFinding, Allows(FindingMoves, q.seen.status, q.op)
  PROVE  LET new == Moved(q, row) IN
         /\ new \in AuditFinding
         /\ new.status = Target(FindingMoves, q.seen.status, q.op)
         /\ new.assigned <=> row.assigned \/ q.op = "assign"
         /\ new.resolved <=> (row.resolved \/ q.op \in {"resolve", "accept_response"}) /\ q.op # "reopen"
         /\ new.closed <=> (row.closed \/ q.op = "close") /\ q.op # "reopen"
<1>1. PICK to : to = Target(FindingMoves, q.seen.status, q.op)
  OBVIOUS
<1>2. to \in AuditFindingStatus
  BY <1>1, FindingTarget
<1>3. PICK a \in BOOLEAN : a = (row.assigned \/ q.op = "assign")
  OBVIOUS
<1>4. PICK r \in BOOLEAN : r = ((row.resolved \/ q.op \in {"resolve", "accept_response"}) /\ q.op # "reopen")
  OBVIOUS
<1>5. PICK c \in BOOLEAN : c = ((row.closed \/ q.op = "close") /\ q.op # "reopen")
  OBVIOUS
<1>6. /\ row = [status |-> row.status, heavy |-> row.heavy, assigned |-> row.assigned, resolved |-> row.resolved,
                closed |-> row.closed]
      /\ row.heavy \in BOOLEAN
  BY DEF AuditFinding
<1>7. Moved(q, row) = [row EXCEPT !.status = to, !.assigned = a, !.resolved = r, !.closed = c]
  BY <1>1, <1>3, <1>4, <1>5, Zenon DEF Moved
<1>8. [row EXCEPT !.status = to, !.assigned = a, !.resolved = r, !.closed = c]
        = [status |-> to, heavy |-> row.heavy, assigned |-> a, resolved |-> r, closed |-> c]
  <2>1. PICK r1 : r1 = [row EXCEPT !.status = to]
    OBVIOUS
  <2>2. r1 = [status |-> to, heavy |-> row.heavy, assigned |-> row.assigned, resolved |-> row.resolved,
              closed |-> row.closed]
    BY <1>6, <2>1
  <2>3. PICK r2 : r2 = [r1 EXCEPT !.assigned = a]
    OBVIOUS
  <2>4. r2 = [status |-> to, heavy |-> row.heavy, assigned |-> a, resolved |-> row.resolved, closed |-> row.closed]
    BY <2>2, <2>3
  <2>5. PICK r3 : r3 = [r2 EXCEPT !.resolved = r]
    OBVIOUS
  <2>6. r3 = [status |-> to, heavy |-> row.heavy, assigned |-> a, resolved |-> r, closed |-> row.closed]
    BY <2>4, <2>5
  <2>7. [r3 EXCEPT !.closed = c] = [status |-> to, heavy |-> row.heavy, assigned |-> a, resolved |-> r, closed |-> c]
    BY <2>6
  <2> QED
    BY <2>1, <2>3, <2>5, <2>7
<1>9. PICK new : new = [status |-> to, heavy |-> row.heavy, assigned |-> a, resolved |-> r, closed |-> c]
  OBVIOUS
<1>10. new \in AuditFinding /\ new.status = to /\ new.assigned = a /\ new.resolved = r /\ new.closed = c
  BY <1>2, <1>6, <1>9 DEF AuditFinding
<1>11. Moved(q, row) = new
  BY <1>7, <1>8, <1>9
<1> HIDE DEF Moved
<1> QED
  BY <1>1, <1>3, <1>4, <1>5, <1>10, <1>11

(* Nothing else waits for a review after a finding was written.               *)
LEMMA FindingWritten ==
  ASSUME DeskInv, AuditInv, NEW w \in Workers, NEW pcs, Turn(w, pcs), worker'[w].pc = "idle",
         NEW f \in Findings, NEW row \in AuditFinding, finding' = [finding EXCEPT ![f] = row], UNCHANGED response,
         row.status = "RESPONSE_SUBMITTED" => finding[f] # None /\ finding[f].status = row.status
  PROVE  \A g \in Findings : Answered(g)'
<1> SUFFICES ASSUME NEW g \in Findings PROVE Answered(g)'
  OBVIOUS
<1>1. ASSUME NEW r, NEW v \in Workers, SawWaiting(worker[v], r) PROVE SawWaiting(worker'[v], r)
  BY <1>1, AuditIdle DEF Turn
<1>2. /\ finding \in [Findings -> AuditFinding \cup {None}] /\ Answered(g)
      /\ finding'[g] = IF g = f THEN row ELSE finding[g]
  BY DEF AuditInv, AuditTypeOK
<1>3. finding'[g] # None /\ finding'[g].status = "RESPONSE_SUBMITTED"
        => finding[g] # None /\ finding[g].status = "RESPONSE_SUBMITTED"
  BY <1>2
<1> QED
  BY <1>1, <1>2, <1>3 DEF Answered, Submitted

LEMMA CreateFindingInv ==
  ASSUME DeskInv, AuditInv, NEW w \in Workers, CreateFinding(w)
  PROVE  Turn(w, AuditPC) /\ AuditInv'
<1>1. PICK q : q = worker[w]
  OBVIOUS
<1>2. q.pc = "new" /\ Done(w) /\ UNCHANGED <<engagement, staff, item, response, review, signoffs>>
  BY <1>1 DEF CreateFinding
<1>3. PICK f \in Findings : finding[f] = None /\ finding' = [finding EXCEPT ![f] = q.args]
  BY <1>1 DEF CreateFinding
<1>4. Turn(w, AuditPC) /\ worker'[w].pc = "idle"
  BY <1>1, <1>2, DoneTurn, IdleQuery
<1>5. PICK heavy, assigned \in BOOLEAN : q.args = FindingRow(heavy, assigned)
  BY <1>1, <1>2 DEF AuditInv, AuditLoaded, FindingLoaded
<1>6. PICK row : row = q.args
  OBVIOUS
<1>7. /\ row \in AuditFinding /\ row.status \in {"OPEN", "ASSIGNED"}
      /\ row.status = "ASSIGNED" => row.assigned
      /\ ~row.closed /\ ~row.resolved
  BY <1>5, <1>6 DEF FindingRow, AuditFinding, AuditFindingStatus
<1>8. row # None
  BY <1>7, AuditRowsAssumption
<1>9. finding' = [finding EXCEPT ![f] = row] /\ finding \in [Findings -> AuditFinding \cup {None}]
  BY <1>3, <1>6 DEF AuditInv, AuditTypeOK
<1>10. finding' \in [Findings -> AuditFinding \cup {None}]
  BY <1>7, <1>9
<1>11. AuditKept(AuditNow, AuditNow')
  BY <1>2, <1>8, <1>9 DEF AuditKept, AuditNow
<1>12. \A g \in Findings : Answered(g)'
  BY <1>2, <1>4, <1>7, <1>9, FindingWritten
<1>13. AuditTypeOK' /\ Founded'
  BY <1>2, <1>3, <1>8, <1>9, <1>10 DEF AuditInv, AuditTypeOK, Founded
<1>14. AuditSteps'
  BY <1>2, <1>7, <1>9, <1>12 DEF AuditInv, AuditSteps, Answered, Submitted
<1>15. scene.serial => AuditDated'
  BY <1>2, <1>7, <1>9 DEF AuditInv, AuditDated
<1> QED
  BY <1>4, <1>11, <1>12, <1>13, <1>14, <1>15, AuditWrite

LEMMA UpdateFindingInv ==
  ASSUME DeskInv, AuditInv, NEW w \in Workers, UpdateFinding(w)
  PROVE  Turn(w, AuditPC) /\ AuditInv'
<1>1. PICK q : q = worker[w]
  OBVIOUS
<1>2. /\ q.pc = "severity" /\ Done(w) /\ UNCHANGED <<engagement, staff, item, response, review, signoffs>>
      /\ finding' = [finding EXCEPT ![q.id].heavy = Column(q.args, q.seen.heavy, @)]
  BY <1>1 DEF UpdateFinding
<1>3. Turn(w, AuditPC) /\ worker'[w].pc = "idle"
  BY <1>1, <1>2, DoneTurn, IdleQuery
<1>4. q.id \in Findings /\ finding[q.id] # None /\ q.args \in BOOLEAN
  BY <1>1, <1>2 DEF AuditInv, AuditLoaded, FindingLoaded, AuditNow, OnFinding
<1>5. PICK old : old = finding[q.id]
  OBVIOUS
<1>6. finding \in [Findings -> AuditFinding \cup {None}] /\ old \in AuditFinding
  BY <1>4, <1>5 DEF AuditInv, AuditTypeOK
<1>7. PICK heavy \in BOOLEAN : heavy = Column(q.args, q.seen.heavy, old.heavy)
  BY <1>4, <1>6 DEF Column, AuditFinding
<1>8. PICK row : row = [old EXCEPT !.heavy = heavy]
  OBVIOUS
<1>9. /\ row \in AuditFinding /\ row.status = old.status /\ row.assigned = old.assigned
      /\ row.resolved = old.resolved /\ row.closed = old.closed
  BY <1>6, <1>8 DEF AuditFinding
<1>10. finding' = [finding EXCEPT ![q.id] = row]
  <2> HIDE DEF Column
  <2> QED
    BY <1>2, <1>5, <1>7, <1>8, Zenon
<1>11. row # None
  BY <1>9, AuditRowsAssumption
<1>12. finding' \in [Findings -> AuditFinding \cup {None}]
  BY <1>6, <1>9, <1>10
<1>13. AuditKept(AuditNow, AuditNow')
  BY <1>2, <1>6, <1>10, <1>11 DEF AuditKept, AuditNow
<1>14. \A g \in Findings : Answered(g)'
  BY <1>2, <1>3, <1>4, <1>5, <1>9, <1>10, FindingWritten
<1>15. AuditTypeOK' /\ Founded'
  BY <1>2, <1>6, <1>10, <1>11, <1>12 DEF AuditInv, AuditTypeOK, Founded
<1>16. AuditSteps'
  BY <1>2, <1>4, <1>5, <1>6, <1>9, <1>10, <1>14 DEF AuditInv, AuditSteps, Answered, Submitted
<1>17. scene.serial => AuditDated'
  BY <1>2, <1>4, <1>5, <1>6, <1>9, <1>10 DEF AuditInv, AuditDated
<1> QED
  BY <1>3, <1>13, <1>14, <1>15, <1>16, <1>17, AuditWrite

(* A transition keeps the times noted beside the status of a finding that     *)
(* the request has seen.                                                      *)
Dated(row) ==
  /\ row.closed => row.resolved /\ row.status = "CLOSED"
  /\ row.resolved <=> row.status \in {"RESOLVED", "CLOSED"}

LEMMA MovedDated ==
  ASSUME NEW q, NEW row \in AuditFinding, Allows(FindingMoves, q.seen.status, q.op), q.seen = row, Dated(row)
  PROVE  Dated(Moved(q, row))
<1>1. PICK to : to = Target(FindingMoves, q.seen.status, q.op)
  OBVIOUS
<1>2. /\ to = "CLOSED" <=> q.op = "close"
      /\ to = "RESOLVED" <=> q.op \in {"resolve", "accept_response"}
      /\ q.op = "close" => row.status = "RESOLVED"
      /\ row.status = "RESOLVED" => q.op \in {"close", "reopen"}
      /\ row.status = "CLOSED" => q.op = "reopen"
  BY <1>1, FindingTarget
<1>3. PICK new : new = Moved(q, row)
  OBVIOUS
<1>4. /\ new.status = to
      /\ new.resolved <=> (row.resolved \/ q.op \in {"resolve", "accept_response"}) /\ q.op # "reopen"
      /\ new.closed <=> (row.closed \/ q.op = "close") /\ q.op # "reopen"
  BY <1>1, <1>3, MovedRow
<1>5. Dated(new)
  BY <1>2, <1>4 DEF Dated
<1> QED
  BY <1>3, <1>5

(* What a finding that was moved leaves to show of the other tables.          *)
LEMMA FindingMoved ==
  ASSUME DeskInv, AuditInv, NEW w \in Workers, NEW q, q = worker[w], OnFinding(q),
         Allows(FindingMoves, q.seen.status, q.op), finding' = [finding EXCEPT ![q.id] = Moved(q, @)]
  PROVE  /\ q.id \in Findings /\ finding[q.id] # None
         /\ finding' \in [Findings -> AuditFinding \cup {None}]
         /\ \A f \in Findings : f # q.id => finding'[f] = finding[f]
         /\ finding'[q.id] # None /\ finding'[q.id] \in AuditFinding
         /\ finding'[q.id].status = Target(FindingMoves, q.seen.status, q.op)
         /\ \A f \in Findings : (finding[f] # None /\ finding[f].status = "ASSIGNED" => finding[f].assigned)
              => (finding'[f] # None /\ finding'[f].status = "ASSIGNED" => finding'[f].assigned)
         /\ scene.serial => \A f \in Findings : finding'[f] # None => Dated(finding'[f])
<1>1. q.id \in Findings /\ finding[q.id] # None /\ (scene.serial => q.seen = finding[q.id])
  BY DEF AuditInv, AuditLoaded, FindingLoaded, AuditFresh, AuditNow
<1>2. finding \in [Findings -> AuditFinding \cup {None}]
  BY DEF AuditInv, AuditTypeOK
<1>3. PICK row : row = finding[q.id]
  OBVIOUS
<1>4. PICK new : new = Moved(q, row)
  OBVIOUS
<1>5. finding' = [finding EXCEPT ![q.id] = new]
  <2> HIDE DEF Moved
  <2> QED
    BY <1>3, <1>4
<1>6. row \in AuditFinding
  BY <1>1, <1>2, <1>3
<1>7. /\ new \in AuditFinding
      /\ new.status = Target(FindingMoves, q.seen.status, q.op)
      /\ new.assigned <=> row.assigned \/ q.op = "assign"
  BY <1>4, <1>6, MovedRow
<1>8. new # None
  BY <1>7, AuditRowsAssumption
<1>9. new.status = "ASSIGNED" => new.assigned
  <2>1. PICK to : to = Target(FindingMoves, q.seen.status, q.op)
    OBVIOUS
  <2>2. to = "ASSIGNED" => q.op = "assign"
    <3>1. PICK s, op : s = q.seen.status /\ op = q.op
      OBVIOUS
    <3>2. Allows(FindingMoves, s, op) /\ to = Target(FindingMoves, s, op)
      BY <2>1, <3>1
    <3>3. Target(FindingMoves, s, op) = "ASSIGNED" => op = "assign"
      BY <3>2, FindingTarget, ZenonT(60)
    <3> QED
      BY <3>1, <3>2, <3>3
  <2> QED
    BY <1>7, <2>1, <2>2
<1>10. ASSUME scene.serial, NEW f \in Findings, finding'[f] # None PROVE Dated(finding'[f])
  <2>1. CASE f = q.id
    <3>1. Dated(row)
      BY <1>1, <1>3, <1>10 DEF AuditInv, AuditDated, Dated
    <3>2. Dated(new)
      BY <1>1, <1>3, <1>4, <1>6, <1>10, <3>1, MovedDated
    <3> QED
      BY <1>1, <1>2, <1>5, <2>1, <3>2
  <2>2. CASE f # q.id
    BY <1>2, <1>5, <1>10, <2>2 DEF AuditInv, AuditDated, Dated
  <2> QED
    BY <2>1, <2>2
<1>11. /\ finding' \in [Findings -> AuditFinding \cup {None}] /\ finding'[q.id] = new
       /\ \A f \in Findings : f # q.id => finding'[f] = finding[f]
  BY <1>1, <1>2, <1>5, <1>7
<1> QED
  BY <1>1, <1>7, <1>8, <1>9, <1>10, <1>11

LEMMA MoveFindingInv ==
  ASSUME DeskInv, AuditInv, NEW w \in Workers, MoveFinding(w)
  PROVE  Turn(w, AuditPC) /\ AuditInv'
<1>1. PICK q : q = worker[w]
  OBVIOUS
<1>2. /\ q.pc = "finding" /\ Done(w) /\ UNCHANGED <<engagement, staff, item, review, signoffs>>
      /\ finding' = [finding EXCEPT ![q.id] = Moved(q, @)]
      /\ IF q.op = "submit_response"
         THEN \E r \in Responses : response[r] = None /\ response' = [response EXCEPT ![r] = ResponseRow(q.id)]
         ELSE response' = response
  BY <1>1, Zenon DEF MoveFinding
<1>3. Turn(w, AuditPC) /\ worker'[w].pc = "idle"
  BY <1>1, <1>2, DoneTurn, IdleQuery
<1>4. Allows(FindingMoves, q.seen.status, q.op) /\ OnFinding(q)
  BY <1>1, <1>2 DEF AuditInv, AuditLoaded, FindingLoaded, OnFinding
<1>5. PICK to : to = Target(FindingMoves, q.seen.status, q.op)
  OBVIOUS
<1>6. to = "RESPONSE_SUBMITTED" <=> q.op = "submit_response"
  BY <1>4, <1>5, FindingTarget
<1>7. /\ q.id \in Findings /\ finding[q.id] # None
      /\ finding' \in [Findings -> AuditFinding \cup {None}]
      /\ \A f \in Findings : f # q.id => finding'[f] = finding[f]
      /\ finding'[q.id] # None /\ finding'[q.id] \in AuditFinding
      /\ finding'[q.id].status = to
      /\ \A f \in Findings : (finding[f] # None /\ finding[f].status = "ASSIGNED" => finding[f].assigned)
           => (finding'[f] # None /\ finding'[f].status = "ASSIGNED" => finding'[f].assigned)
      /\ scene.serial => \A f \in Findings : finding'[f] # None => Dated(finding'[f])
  BY <1>1, <1>2, <1>4, <1>5, FindingMoved
<1>8. PICK sub : sub = ResponseRow(q.id)
  OBVIOUS
<1>9. sub \in FindingResponse /\ sub.of = q.id /\ sub.status = "SUBMITTED"
  BY <1>7, <1>8 DEF ResponseRow, FindingResponse
<1>10. sub # None
  BY <1>9, AuditRowsAssumption
<1>11. /\ response \in [Responses -> FindingResponse \cup {None}]
       /\ \/ response' = response /\ q.op # "submit_response"
          \/ \E r \in Responses : response[r] = None /\ response' = [response EXCEPT ![r] = sub]
  BY <1>2, <1>8 DEF AuditInv, AuditTypeOK
<1>12. /\ response' \in [Responses -> FindingResponse \cup {None}]
       /\ \A r \in Responses : response[r] # None => response'[r] = response[r]
       /\ \A r \in Responses : response'[r] = response[r] \/ response'[r] = sub
  BY <1>9, <1>11
<1>13. AuditKept(AuditNow, AuditNow')
  BY <1>2, <1>7, <1>12 DEF AuditKept, AuditNow
<1>14. ASSUME NEW f \in Findings PROVE Answered(f)'
  <2>1. ASSUME NEW r, NEW v \in Workers, SawWaiting(worker[v], r) PROVE SawWaiting(worker'[v], r)
    BY <1>3, <2>1, AuditIdle DEF Turn
  <2>2. CASE f = q.id /\ q.op = "submit_response"
    <3>1. PICK r \in Responses : response[r] = None /\ response' = [response EXCEPT ![r] = sub]
      BY <1>11, <2>2
    <3>2. response'[r] = sub
      BY <1>11, <3>1
    <3>3. \A v \in Workers : SawWaiting(worker[v], r)
      BY <3>1 DEF AuditInv, AuditLoaded, FindingLoaded, AuditNow, SawWaiting
    <3> QED
      BY <1>9, <1>10, <2>1, <2>2, <3>2, <3>3 DEF Answered, Submitted
  <2>3. CASE f = q.id /\ q.op # "submit_response"
    BY <1>6, <1>7, <2>3 DEF Answered
  <2>4. CASE f # q.id
    <3>1. Answered(f) /\ finding'[f] = finding[f]
      BY <1>7, <2>4 DEF AuditInv
    <3>2. \A r \in Responses : Submitted(r, f) => Submitted(r, f)'
      BY <1>12 DEF Submitted
    <3> QED
      BY <2>1, <3>1, <3>2 DEF Answered
  <2> QED
    BY <2>2, <2>3, <2>4
<1>15. AuditTypeOK' /\ Founded'
  BY <1>2, <1>7, <1>9, <1>12 DEF AuditInv, AuditTypeOK, Founded
<1>16. AuditSteps'
  BY <1>2, <1>7, <1>14 DEF AuditInv, AuditSteps, Answered, Submitted
<1>17. scene.serial => AuditDated'
  BY <1>2, <1>7 DEF AuditInv, AuditDated, Dated
<1> QED
  BY <1>3, <1>13, <1>14, <1>15, <1>16, <1>17, AuditWrite

LEMMA ReviewResponseInv ==
  ASSUME DeskInv, AuditInv, NEW w \in Workers, ReviewResponse(w)
  PROVE  Turn(w, AuditPC) /\ AuditInv'
<1>1. PICK q : q = worker[w]
  OBVIOUS
<1>2. PICK s \in {"ACCEPTED", "REJECTED"} : s = IF q.op = "accept_response" THEN "ACCEPTED" ELSE "REJECTED"
  OBVIOUS
<1>3. /\ q.pc = "review" /\ Done(w) /\ UNCHANGED <<engagement, staff, item, review, signoffs>>
      /\ response' = [response EXCEPT ![q.args].status = s]
      /\ IF Allows(FindingMoves, q.seen.status, q.op) THEN finding' = [finding EXCEPT ![q.id] = Moved(q, @)]
         ELSE finding' = finding
  BY <1>1, <1>2, Zenon DEF ReviewResponse
<1>4. Turn(w, AuditPC) /\ worker'[w].pc = "idle"
  BY <1>1, <1>3, DoneTurn, IdleQuery
<1>5. /\ q.op \in ReviewOps /\ q.args \in Responses /\ q.id \in Findings
      /\ response[q.args] # None /\ response[q.args].of = q.id
      /\ OnFinding(q)
  BY <1>1, <1>3 DEF AuditInv, AuditLoaded, FindingLoaded, AuditNow, OnFinding
<1>6. PICK old : old = response[q.args]
  OBVIOUS
<1>7. PICK sub : sub = [old EXCEPT !.status = s]
  OBVIOUS
<1>8. response \in [Responses -> FindingResponse \cup {None}] /\ old \in FindingResponse
  BY <1>5, <1>6 DEF AuditInv, AuditTypeOK
<1>9. sub \in FindingResponse /\ sub.of = q.id /\ sub.status = s
  BY <1>5, <1>6, <1>7, <1>8 DEF FindingResponse
<1>10. sub # None
  BY <1>9, AuditRowsAssumption
<1>11. response' = [response EXCEPT ![q.args] = sub]
  BY <1>3, <1>6, <1>7, Zenon
<1>12. /\ response' \in [Responses -> FindingResponse \cup {None}] /\ response'[q.args] = sub
       /\ \A r \in Responses : r # q.args => response'[r] = response[r]
  BY <1>5, <1>8, <1>9, <1>11
<1>13. PICK to : to = Target(FindingMoves, q.seen.status, q.op)
  OBVIOUS
<1>14. Allows(FindingMoves, q.seen.status, q.op) =>
         /\ finding' \in [Findings -> AuditFinding \cup {None}]
         /\ \A f \in Findings : f # q.id => finding'[f] = finding[f]
         /\ finding'[q.id] # None
         /\ finding'[q.id].status = to /\ to # "RESPONSE_SUBMITTED"
         /\ \A f \in Findings : (finding[f] # None /\ finding[f].status = "ASSIGNED" => finding[f].assigned)
              => (finding'[f] # None /\ finding'[f].status = "ASSIGNED" => finding'[f].assigned)
         /\ scene.serial => \A f \in Findings : finding'[f] # None => Dated(finding'[f])
  <2> SUFFICES ASSUME Allows(FindingMoves, q.seen.status, q.op)
               PROVE  /\ finding' \in [Findings -> AuditFinding \cup {None}]
                      /\ \A f \in Findings : f # q.id => finding'[f] = finding[f]
                      /\ finding'[q.id] # None
                      /\ finding'[q.id].status = to /\ to # "RESPONSE_SUBMITTED"
                      /\ \A f \in Findings : (finding[f] # None /\ finding[f].status = "ASSIGNED" => finding[f].assigned)
                           => (finding'[f] # None /\ finding'[f].status = "ASSIGNED" => finding'[f].assigned)
                      /\ scene.serial => \A f \in Findings : finding'[f] # None => Dated(finding'[f])
    OBVIOUS
  <2>1. to # "RESPONSE_SUBMITTED"
    BY <1>5, <1>13, FindingTarget DEF ReviewOps
  <2> QED
    BY <1>1, <1>3, <1>5, <1>13, <2>1, FindingMoved
<1>15. /\ finding' \in [Findings -> AuditFinding \cup {None}]
       /\ \A f \in Findings : finding[f] # None => finding'[f] # None
       /\ \A f \in Findings : (finding[f] # None /\ finding[f].status = "ASSIGNED" => finding[f].assigned)
              => (finding'[f] # None /\ finding'[f].status = "ASSIGNED" => finding'[f].assigned)
       /\ scene.serial => \A f \in Findings : finding'[f] # None => Dated(finding'[f])
  BY <1>3, <1>14 DEF AuditInv, AuditTypeOK, AuditDated, Dated
<1>16. AuditKept(AuditNow, AuditNow')
  BY <1>3, <1>5, <1>9, <1>10, <1>12, <1>15 DEF AuditKept, AuditNow
<1>17. ASSUME NEW f \in Findings PROVE Answered(f)'
  <2>1. ASSUME NEW r, NEW v \in Workers, SawWaiting(worker[v], r) PROVE SawWaiting(worker'[v], r)
    BY <1>4, <2>1, AuditIdle DEF Turn
  <2>2. CASE finding'[f] # None /\ finding'[f].status = "RESPONSE_SUBMITTED"
    <3>1. finding'[f] = finding[f]
      BY <1>3, <1>14, <2>2
    <3>2. PICK r \in Responses : Submitted(r, f) /\ \A v \in Workers : SawWaiting(worker[v], r)
      BY <2>2, <3>1 DEF AuditInv, Answered
    <3>3. r # q.args
      <4> SUFFICES ASSUME r = q.args PROVE FALSE
        OBVIOUS
      <4>1. q.seen.status = "RESPONSE_SUBMITTED"
        BY <1>1, <1>3, <3>2 DEF SawWaiting
      <4>2. Allows(FindingMoves, q.seen.status, q.op)
        <5>1. /\ <<"RESPONSE_SUBMITTED", "accept_response", "RESOLVED">> \in FindingMoves
              /\ <<"RESPONSE_SUBMITTED", "reject_response", "ACTION_REQUIRED">> \in FindingMoves
          BY DEF FindingMoves
        <5> QED
          BY <1>5, <4>1, <5>1 DEF Allows, ReviewOps
      <4>3. f = q.id
        BY <1>5, <3>2 DEF Submitted
      <4> QED
        BY <1>14, <2>2, <4>2, <4>3
    <3>4. Submitted(r, f)'
      BY <1>12, <3>2, <3>3 DEF Submitted
    <3> QED
      BY <2>1, <3>2, <3>4 DEF Answered
  <2>3. CASE ~(finding'[f] # None /\ finding'[f].status = "RESPONSE_SUBMITTED")
    BY <2>3 DEF Answered
  <2> QED
    BY <2>2, <2>3
<1>18. AuditTypeOK' /\ Founded'
  BY <1>3, <1>5, <1>9, <1>12, <1>15 DEF AuditInv, AuditTypeOK, Founded, FindingResponse
<1>19. AuditSteps'
  BY <1>3, <1>15, <1>17 DEF AuditInv, AuditSteps, Answered, Submitted
<1>20. scene.serial => AuditDated'
  BY <1>3, <1>15 DEF AuditInv, AuditDated, Dated
<1> QED
  BY <1>4, <1>16, <1>17, <1>18, <1>19, <1>20, AuditWrite

LEMMA AuditRequestInv ==
  ASSUME DeskInv, AuditInv, NEW w \in Workers, AuditRequest(w)
  PROVE  Turn(w, AuditPC) /\ AuditInv'
BY CreateEngagementInv, LoadEngagementInv, GateInv, MoveEngagementInv, AskSignOffInv, RecordSignOffInv, AskAssignInv,
   AssignInv, UnassignInv, AskChecklistInv, WriteChecklistInv, LoadItemInv, UpdateItemInv, AskFindingInv,
   CreateFindingInv, LoadFindingInv, LoadForUpdateInv, LoadForReviewInv, LoadResponseInv, MoveFindingInv,
   UpdateFindingInv, ReviewResponseInv, StartReviewInv, LoadReviewInv, EndReviewInv, Zenon DEF AuditRequest

(* Requests of the other desks, and those that give up.                       *)
LEMMA AuditOther ==
  ASSUME AuditInv, NEW w \in Workers, NEW pcs, pcs \subseteq TaxPC \cup ImportPC, Turn(w, pcs), UNCHANGED auditVars
  PROVE  AuditInv'
<1>1. worker'[w].pc = "idle" \/ worker'[w].pc \in TaxPC \cup ImportPC
  BY DEF Turn
<1> QED
  BY <1>1, AuditIdle, AuditRead

LEMMA MaxOfTwo ==
  ASSUME NEW a \in Int, NEW b \in Int
  PROVE  Max({a, b}) = IF a >= b THEN a ELSE b
<1> DEFINE m == IF a >= b THEN a ELSE b
<1>1. m \in {a, b} /\ \A y \in {a, b} : m >= y
  OBVIOUS
<1>2. ASSUME NEW x \in {a, b}, \A y \in {a, b} : x >= y PROVE x = m
  BY <1>2
<1> QED
  BY <1>1, <1>2 DEF Max

LEMMA AtLeastZeroIs == \A a \in Int : AtLeastZero(a) = IF a >= 0 THEN a ELSE 0
BY MaxOfTwo DEF AtLeastZero

(* Rounding to the paisa, and what a session has of a rounded column.         *)
LEMMA RoundedTo == \A n \in Int : RoundMoney(n) \in Int /\ 10 * RoundMoney(n) - n \in -5..5
BY DEF RoundMoney

LEMMA RoundedBack == \A k \in Int : Exact(k) \in Int /\ RoundMoney(Exact(k)) = k
BY DEF RoundMoney, Exact

LEMMA RoundedIs == \A n \in Int : Rounded(n) \in Int /\ RoundMoney(Rounded(n)) = RoundMoney(n)
BY RoundedTo, RoundedBack DEF Rounded

-------------------------------------------------------------------------------
(* Imports.                                                                   *)

(* A job never holds both a row to be committed and a committed one; what its *)
(* rows and the records made of them say together, at any time and when       *)
(* requests are served one at a time; and before the commit.                  *)
Unmixed(rows) == ~ \E i, k \in DOMAIN rows : rows[i] = "VALID" /\ rows[k] = "COMMITTED"
RowsOnce(row, m) ==
  \A i \in DOMAIN row.file :
    /\ IndexKey(row.kind, row.file[i]) # None => m[i] <= 1
    /\ row.kind = "JOURNALS" => Balanced(row.file, Lines(row.file, row.rows, "COMMITTED", row.file[i].number))
KeysApart(row, status) ==
  \A i \in DOMAIN row.file : \A k \in 1..(i - 1) :
    LET key(n) == DuplicateKey(row.kind, row.file[n]) IN
    row.rows[i] = status /\ key(i) # None /\ row.rows[k] = status => key(k) # key(i)
RowsOrderly(row, m) ==
  /\ \A i \in DOMAIN row.file :
       /\ m[i] <= 1
       /\ m[i] = 1 => row.rows[i] = "COMMITTED"
       /\ row.rows[i] = "COMMITTED" => row.status \in Finished /\ (row.kind # "JOURNALS" => m[i] = 1)
  /\ KeysApart(row, "COMMITTED")
Pending(row, m) ==
  /\ \A i \in DOMAIN row.file : m[i] = 0 /\ row.rows[i] # "COMMITTED"
  /\ KeysApart(row, "VALID")

JobSound(row, m)  == m \in [DOMAIN row.file -> Nat] /\ Unmixed(row.rows) /\ RowsOnce(row, m)
JobServed(row, m) == RowsOrderly(row, m) /\ (row.status \notin Finished => Pending(row, m))

(* What a request knows, and what it knows besides when nobody overlaps it.   *)
ImportLoaded(q, jobs) ==
  /\ q.pc \in ImportPC =>
       q.id \in Jobs /\ jobs[q.id] # None /\ q.seen.kind = jobs[q.id].kind /\ q.seen.file = jobs[q.id].file
  /\ q.pc = "records" =>
       /\ q.args \in [DOMAIN q.seen.file -> RowStatus]
       /\ jobs[q.id].rows = q.args \/ jobs[q.id].rows = AfterCommit(q.seen.kind, q.seen.file, q.args)
ImportFresh(q, jobs) ==
  /\ q.pc \in ImportPC => q.seen = jobs[q.id]
  /\ q.pc \in {"rows", "records"} => q.seen.status = "READY"
  /\ q.pc = "records" => q.args = jobs[q.id].rows
  /\ q.pc = "cancel" => q.seen.status \notin Finished

ImportInv ==
  /\ job \in [Jobs -> ImportJob \cup {None}]
  /\ DOMAIN made = Jobs
  /\ \A j \in Jobs : job[j] # None => JobSound(job[j], made[j]) /\ (scene.serial => JobServed(job[j], made[j]))
  /\ \A w \in Workers : ImportLoaded(worker[w], job) /\ (scene.serial => ImportFresh(worker[w], job))

LEMMA JobColumns ==
  ASSUME NEW row \in ImportJob
  PROVE  /\ row.kind \in DOMAIN Files /\ row.file \in Files[row.kind]
         /\ row.status \in Finished \cup {"READY", "CANCELLED"}
         /\ row.rows \in [DOMAIN row.file -> RowStatus]
         /\ row = [kind |-> row.kind, file |-> row.file, status |-> row.status, rows |-> row.rows]
<1>1. PICK kind \in DOMAIN Files :
        \E f \in Files[kind] :
          row \in [kind : {kind}, file : {f}, status : Finished \cup {"READY", "CANCELLED"}, rows : [DOMAIN f -> RowStatus]]
  BY DEF ImportJob
<1>2. PICK f \in Files[kind] :
        row \in [kind : {kind}, file : {f}, status : Finished \cup {"READY", "CANCELLED"}, rows : [DOMAIN f -> RowStatus]]
  BY <1>1
<1> QED
  BY <1>2

(* Lines whose sums agree to the paisa, each rounded on its own.               *)
LEMMA BalancedAgree ==
  ASSUME NEW kind \in DOMAIN Files, NEW file \in Files[kind], NEW lines \in SUBSET DOMAIN file, Balanced(file, lines)
  PROVE  LinesAgree(file, lines)
<1> DEFINE d == SumOver(Debits(file), lines)
           c == SumOver(Credits(file), lines)
           ld == SumOver(LineDebits(file), lines)
           lc == SumOver(LineCredits(file), lines)
           n == Cardinality(lines)
<1>1. IsFiniteSet(lines) /\ n \in Nat
  <2>1. Len(file) \in Nat /\ DOMAIN file = 1..Len(file)
    BY ImportAssumption
  <2>2. IsFiniteSet(DOMAIN file)
    BY <2>1, FS_Interval
  <2> QED
    BY <2>2, FS_Subset, FS_CardinalityType
<1>2. ASSUME NEW i \in lines
      PROVE  /\ Debits(file)[i] \in Int /\ LineDebits(file)[i] \in Int
             /\ Credits(file)[i] \in Int /\ LineCredits(file)[i] \in Int
             /\ 10 * LineDebits(file)[i] - Debits(file)[i] \in -5..5
             /\ 10 * LineCredits(file)[i] - Credits(file)[i] \in -5..5
  <2>1. i \in DOMAIN file /\ file[i].debit \in Int /\ file[i].credit \in Int
    BY ImportAssumption
  <2> QED
    BY <2>1, RoundedTo DEF Debits, Credits, LineDebits, LineCredits
<1>3. d \in Int /\ c \in Int /\ ld \in Int /\ lc \in Int
  BY <1>1, <1>2, SumType
<1>4. 10 * ld - d \in -(5 * n)..(5 * n) /\ 10 * lc - c \in -(5 * n)..(5 * n)
  BY <1>1, <1>2, SumRounded
<1>5. d - c \in -9..9
  <2>1. RoundMoney(d) = RoundMoney(c)
    BY DEF Balanced
  <2> HIDE DEF d, c
  <2> QED
    BY <1>3, <2>1 DEF RoundMoney
<1>6. Surplus(file, lines) = ld - lc
  BY DEF Surplus
<1>7. Surplus(file, lines) \in (0 - n)..n
  <2> HIDE DEF d, c, ld, lc, n
  <2>1. 10 * (ld - lc) <= 10 * n + 9 /\ 10 * (lc - ld) <= 10 * n + 9
    BY <1>1, <1>3, <1>4, <1>5
  <2> QED
    BY <1>1, <1>3, <1>6, <2>1
<1>8. ASSUME InPaise(file, lines) PROVE Surplus(file, lines) = 0
  <2>1. ASSUME NEW i \in lines
        PROVE  10 * LineDebits(file)[i] = Debits(file)[i] /\ 10 * LineCredits(file)[i] = Credits(file)[i]
    <3>1. i \in DOMAIN file /\ file[i].debit \in Int /\ file[i].credit \in Int
      BY ImportAssumption
    <3>2. file[i].debit % 10 = 0 /\ file[i].credit % 10 = 0
      BY <1>8 DEF InPaise
    <3>3. \A x \in Int : x % 10 = 0 => 10 * RoundMoney(x) = x
      BY DEF RoundMoney
    <3> QED
      BY <3>1, <3>2, <3>3 DEF Debits, Credits, LineDebits, LineCredits
  <2>2. ASSUME NEW i \in lines
        PROVE  10 * LineDebits(file)[i] - Debits(file)[i] \in -0..0 /\ 10 * LineCredits(file)[i] - Credits(file)[i] \in -0..0
    BY <1>2, <2>1
  <2>3. 10 * ld - d \in -(0 * n)..(0 * n) /\ 10 * lc - c \in -(0 * n)..(0 * n)
    BY <1>1, <1>2, <2>2, SumRounded
  <2>4. RoundMoney(d) = RoundMoney(c)
    BY DEF Balanced
  <2> HIDE DEF d, c, ld, lc, n
  <2>5. d = 10 * ld /\ c = 10 * lc
    BY <1>1, <1>3, <2>3
  <2>6. ld = lc
    BY <1>3, <2>4, <2>5 DEF RoundMoney
  <2> QED
    BY <1>3, <1>6, <2>6
<1> QED
  BY <1>7, <1>8 DEF LinesAgree

LEMMA ImportInvSound == ImportInv => ImportsSound
<1> SUFFICES ASSUME ImportInv PROVE ImportsSound
  OBVIOUS
<1>1. RecordsOnce
  <2>1. ASSUME NEW j \in Jobs, job[j] # None, NEW i \in DOMAIN job[j].file
        PROVE  /\ IndexKey(job[j].kind, job[j].file[i]) # None => made[j][i] <= 1
               /\ job[j].kind = "JOURNALS" => LinesAgree(job[j].file, Posted(j, i))
    <3>1. RowsOnce(job[j], made[j]) /\ job[j] \in ImportJob
      BY <2>1 DEF ImportInv, JobSound
    <3>2. job[j].kind \in DOMAIN Files /\ job[j].file \in Files[job[j].kind]
      BY <3>1, JobColumns
    <3>3. Posted(j, i) \in SUBSET DOMAIN job[j].file
      BY DEF Posted, Lines
    <3>4. job[j].kind = "JOURNALS" => Balanced(job[j].file, Posted(j, i))
      BY <2>1, <3>1 DEF RowsOnce, Posted
    <3> QED
      BY <2>1, <3>1, <3>2, <3>3, <3>4, BalancedAgree DEF RowsOnce
  <2> QED
    BY <2>1 DEF RecordsOnce
<1>2. ASSUME scene.serial, NEW j \in Jobs, job[j] # None, NEW i \in DOMAIN job[j].file
      PROVE  /\ made[j][i] <= 1
             /\ made[j][i] = 1 => job[j].rows[i] = "COMMITTED"
             /\ job[j].rows[i] = "COMMITTED" =>
                  /\ job[j].status \in Finished
                  /\ job[j].kind # "JOURNALS" => made[j][i] = 1
                  /\ \A k \in 1..(i - 1) :
                       LET key(n) == DuplicateKey(job[j].kind, job[j].file[n]) IN
                       key(i) # None /\ job[j].rows[k] = "COMMITTED" => key(k) # key(i)
  <2>1. RowsOrderly(job[j], made[j])
    BY <1>2 DEF ImportInv, JobServed
  <2> QED
    BY <1>2, <2>1 DEF RowsOrderly, KeysApart
<1> QED
  BY <1>1, <1>2, Zenon DEF ImportsSound, JobsOrderly

LEMMA JobMade ==
  ASSUME NEW kind \in DOMAIN Files, NEW f \in Files[kind], NEW s \in Finished \cup {"READY", "CANCELLED"},
         NEW rows \in [DOMAIN f -> RowStatus]
  PROVE  [kind |-> kind, file |-> f, status |-> s, rows |-> rows] \in ImportJob
<1>1. PICK row : row = [kind |-> kind, file |-> f, status |-> s, rows |-> rows]
  OBVIOUS
<1>2. row \in [kind : {kind}, file : {f}, status : Finished \cup {"READY", "CANCELLED"}, rows : [DOMAIN f -> RowStatus]]
  BY <1>1
<1>3. row \in ImportJob
  BY <1>2 DEF ImportJob
<1> QED
  BY <1>1, <1>3

(* The commit of what a commit has left changes nothing.                      *)
LEMMA CommitRows ==
  ASSUME NEW kind, NEW file, NEW rows \in [DOMAIN file -> RowStatus]
  PROVE  LET after == AfterCommit(kind, file, rows) IN
         /\ after \in [DOMAIN file -> RowStatus]
         /\ \A i \in DOMAIN file : after[i] # "VALID"
         /\ \A i \in DOMAIN file : rows[i] # "VALID" => after[i] = rows[i]
         /\ AfterCommit(kind, file, after) = after
<1>1. PICK after : after = AfterCommit(kind, file, rows)
  OBVIOUS
<1>2. /\ after \in [DOMAIN file -> RowStatus]
      /\ \A i \in DOMAIN file : after[i] # "VALID"
      /\ \A i \in DOMAIN file : rows[i] # "VALID" => after[i] = rows[i]
  <2> HIDE DEF Balances, Reads
  <2> QED
    BY <1>1 DEF AfterCommit, RowStatus
<1>3. AfterCommit(kind, file, after) = after
  <2>1. AfterCommit(kind, file, after) = [i \in DOMAIN after |-> after[i]]
    <3> HIDE DEF Balances, Reads
    <3> QED
      BY <1>2, Zenon DEF AfterCommit
  <2> QED
    BY <1>2, <2>1
<1> QED
  BY <1>1, <1>2, <1>3

LEMMA ImportIdle ==
  ASSUME NEW q, q.pc = "idle" \/ q.pc \in AuditPC \cup TaxPC, NEW jobs
  PROVE  ImportLoaded(q, jobs) /\ ImportFresh(q, jobs)
BY DEF AuditPC, TaxPC, ImportPC, ImportLoaded, ImportFresh

(* Jobs are never deleted; their rows stay or are committed.                  *)
ImportKept(now, then) ==
  \A j \in Jobs : now[j] # None =>
    /\ then[j] # None /\ then[j].kind = now[j].kind /\ then[j].file = now[j].file
    /\ then[j].rows = now[j].rows \/ then[j].rows = AfterCommit(now[j].kind, now[j].file, now[j].rows)

LEMMA ImportLoadedKept ==
  ASSUME NEW q, NEW now, NEW then, ImportKept(now, then), ImportLoaded(q, now)
  PROVE  ImportLoaded(q, then)
<1>1. CASE q.pc = "records"
  <2>1. q.id \in Jobs /\ now[q.id] # None /\ q.seen.kind = now[q.id].kind /\ q.seen.file = now[q.id].file
    BY <1>1 DEF ImportLoaded, ImportPC
  <2>2. /\ then[q.id] # None /\ then[q.id].kind = now[q.id].kind /\ then[q.id].file = now[q.id].file
        /\ then[q.id].rows = now[q.id].rows \/ then[q.id].rows = AfterCommit(q.seen.kind, q.seen.file, now[q.id].rows)
    BY <2>1 DEF ImportKept
  <2>3. q.args \in [DOMAIN q.seen.file -> RowStatus]
    BY <1>1 DEF ImportLoaded
  <2>4. PICK kind, file, args : kind = q.seen.kind /\ file = q.seen.file /\ args = q.args
    OBVIOUS
  <2>5. PICK after : after = AfterCommit(kind, file, args)
    OBVIOUS
  <2>6. AfterCommit(kind, file, after) = after
    BY <2>3, <2>4, <2>5, CommitRows
  <2>7. now[q.id].rows = args \/ now[q.id].rows = after
    BY <1>1, <2>4, <2>5 DEF ImportLoaded
  <2>8. then[q.id].rows = args \/ then[q.id].rows = after
    BY <2>2, <2>4, <2>5, <2>6, <2>7
  <2> QED
    BY <1>1, <2>1, <2>2, <2>3, <2>4, <2>5, <2>8 DEF ImportLoaded
<1>2. CASE q.pc # "records"
  BY <1>2 DEF ImportLoaded, ImportKept
<1> QED
  BY <1>1, <1>2

(* A step that reads.                                                         *)
LEMMA ImportRead ==
  ASSUME ImportInv, NEW w \in Workers, NEW pcs, Turn(w, pcs), UNCHANGED importVars,
         ImportLoaded(worker'[w], job), scene.serial => ImportFresh(worker'[w], job)
  PROVE  ImportInv'
<1>1. job' = job /\ made' = made /\ scene' = scene
  BY DEF importVars, Turn
<1>2. ASSUME NEW v \in Workers PROVE ImportLoaded(worker'[v], job) /\ (scene.serial => ImportFresh(worker'[v], job))
  BY DEF ImportInv, Turn
<1> QED
  BY <1>1, <1>2 DEF ImportInv

(* A step that writes a job ends its request.                                 *)
LEMMA ImportWrite ==
  ASSUME DeskInv, ImportInv, NEW w \in Workers, NEW pcs, Turn(w, pcs), worker'[w].pc = "idle",
         NEW j \in Jobs, NEW row \in ImportJob, NEW m,
         job' = [job EXCEPT ![j] = row],
         made'[j] = m, \A k \in Jobs \ {j} : made'[k] = made[k], DOMAIN made' = Jobs,
         job[j] # None =>
           /\ row.kind = job[j].kind /\ row.file = job[j].file
           /\ row.rows = job[j].rows \/ row.rows = AfterCommit(job[j].kind, job[j].file, job[j].rows),
         JobSound(row, m), scene.serial => JobServed(row, m)
  PROVE  ImportInv'
<1>1. /\ job \in [Jobs -> ImportJob \cup {None}] /\ job'[j] = row
      /\ \A k \in Jobs : k # j => job'[k] = job[k] /\ made'[k] = made[k]
      /\ made'[j] = m /\ DOMAIN made' = Jobs
      /\ job' \in [Jobs -> ImportJob \cup {None}]
  BY DEF ImportInv
<1>2. row # None
  BY ImportJobAssumption
<1>3. ImportKept(job, job')
  <2> SUFFICES ASSUME NEW k \in Jobs, job[k] # None
               PROVE  /\ job'[k] # None /\ job'[k].kind = job[k].kind /\ job'[k].file = job[k].file
                      /\ job'[k].rows = job[k].rows \/ job'[k].rows = AfterCommit(job[k].kind, job[k].file, job[k].rows)
    BY Zenon DEF ImportKept
  <2>1. CASE k = j
    BY <1>1, <1>2, <2>1, Zenon
  <2>2. CASE k # j
    BY <1>1, <2>2, Zenon
  <2> QED
    BY <2>1, <2>2
<1>4. scene' = scene
  BY DEF Turn
<1>5. ASSUME NEW v \in Workers PROVE ImportLoaded(worker'[v], job') /\ (scene.serial => ImportFresh(worker'[v], job'))
  <2>1. CASE v = w
    BY <2>1, ImportIdle
  <2>2. CASE v # w
    <3>1. worker'[v] = worker[v] /\ ImportLoaded(worker[v], job)
      BY <2>2 DEF ImportInv, Turn
    <3>2. ImportLoaded(worker'[v], job')
      BY <1>3, <3>1, ImportLoadedKept
    <3>3. scene.serial => worker'[v].pc = "idle"
      BY <2>2, <3>1 DEF Turn, Alone
    <3> QED
      BY <3>2, <3>3, ImportIdle
  <2> QED
    BY <2>1, <2>2
<1>6. ASSUME NEW k \in Jobs, job'[k] # None
      PROVE  JobSound(job'[k], made'[k]) /\ (scene.serial => JobServed(job'[k], made'[k]))
  BY <1>1, <1>6 DEF ImportInv
<1> QED
  BY <1>1, <1>4, <1>5, <1>6 DEF ImportInv

(* Staging: what a row becomes depends on the rows before it.                 *)
StagedRow(kind, file, status, i) ==
  LET key == DuplicateKey(kind, file[i]) IN
  IF ~IsValid(kind, file[i]) THEN "ERROR"
  ELSE IF key # None /\ (\/ OnRecord(kind, file[i])
                         \/ \E k \in 1..(i - 1) : status[k] = "VALID" /\ DuplicateKey(kind, file[k]) = key)
  THEN "DUPLICATE"
  ELSE "VALID"
StagedTo(kind, file, f, n) == f = [i \in 1..n |-> StagedRow(kind, file, f, i)]

LEMMA StagedRowSame ==
  ASSUME NEW kind, NEW file, NEW f, NEW g, NEW i, \A k \in 1..(i - 1) : f[k] = g[k]
  PROVE  StagedRow(kind, file, f, i) = StagedRow(kind, file, g, i)
<1>1. (\E k \in 1..(i - 1) : f[k] = "VALID" /\ DuplicateKey(kind, file[k]) = DuplicateKey(kind, file[i]))
        <=> (\E k \in 1..(i - 1) : g[k] = "VALID" /\ DuplicateKey(kind, file[k]) = DuplicateKey(kind, file[i]))
  <2> HIDE DEF DuplicateKey
  <2> QED
    OBVIOUS
<1> HIDE DEF DuplicateKey, IsValid, OnRecord
<1> QED
  BY <1>1, Zenon DEF StagedRow

LEMMA StagedExists ==
  ASSUME NEW kind, NEW file, NEW n \in Nat
  PROVE  \E f : StagedTo(kind, file, f, n)
<1> DEFINE Bad == {T \in SUBSET (1..n) : \E m \in Nat : T = 1..m /\ ~ \E f : StagedTo(kind, file, f, m)}
<1> SUFFICES ASSUME Bad # {} PROVE FALSE
  BY Zenon
<1>1. PICK T \in Bad : \A U \in Bad : U \subseteq T => U = T
  <2>1. IsFiniteSet(1..n) /\ Bad \subseteq SUBSET (1..n)
    BY FS_Interval
  <2>2. PICK bad : bad = Bad
    OBVIOUS
  <2> HIDE DEF Bad
  <2>3. PICK S : S = 1..n
    OBVIOUS
  <2>4. IsFiniteSet(S) /\ bad \subseteq SUBSET S /\ bad # {}
    BY <2>1, <2>2, <2>3
  <2>5. \E T \in bad : \A U \in bad : U \subseteq T => U = T
    BY <2>4, MinimalSubset
  <2> QED
    BY <2>2, <2>5
<1>2. PICK m \in Nat : T = 1..m /\ ~ \E f : StagedTo(kind, file, f, m)
  BY <1>1
<1>3. m # 0
  <2> SUFFICES ASSUME m = 0 PROVE \E f : StagedTo(kind, file, f, m)
    BY <1>2
  <2> DEFINE f == [i \in 1..0 |-> "VALID"]
  <2>1. f = [i \in 1..0 |-> StagedRow(kind, file, f, i)]
    <3>1. 1..0 = {}
      OBVIOUS
    <3> QED
      BY <3>1
  <2> HIDE DEF f
  <2> QED
    BY <2>1, Zenon DEF StagedTo
<1>4. m - 1 \in Nat /\ 1..(m - 1) \subseteq 1..m /\ 1..(m - 1) # 1..m
  BY <1>3
<1>5. 1..(m - 1) \notin Bad
  BY <1>1, <1>2, <1>4
<1>6. PICK f : StagedTo(kind, file, f, m - 1)
  BY <1>1, <1>2, <1>4, <1>5
<1> DEFINE last == StagedRow(kind, file, f, m)
           g == [i \in 1..m |-> IF i = m THEN last ELSE f[i]]
<1> HIDE DEF last
<1>7. ASSUME NEW i \in 1..m PROVE g[i] = StagedRow(kind, file, g, i)
  <2>1. \A k \in 1..(i - 1) : f[k] = g[k]
    BY <1>4
  <2>2. StagedRow(kind, file, f, i) = StagedRow(kind, file, g, i)
    BY <2>1, StagedRowSame, SMTT(30)
  <2>3. CASE i = m
    BY <2>2, <2>3 DEF last
  <2>4. CASE i # m
    <3>1. i \in 1..(m - 1) /\ g[i] = f[i]
      BY <1>4, <2>4
    <3>2. f[i] = StagedRow(kind, file, f, i)
      BY <1>6, <3>1 DEF StagedTo
    <3> QED
      BY <2>2, <3>1, <3>2
  <2> QED
    BY <2>3, <2>4
<1>8. g = [i \in 1..m |-> g[i]]
  OBVIOUS
<1> HIDE DEF g
<1>9. StagedTo(kind, file, g, m)
  BY <1>7, <1>8 DEF StagedTo
<1> QED
  BY <1>2, <1>9

LEMMA StagedByRow ==
  ASSUME NEW kind, NEW file, NEW n \in Nat, DOMAIN file = 1..n
  PROVE  LET rows == Staged(kind, file) IN \A i \in 1..n : rows[i] = StagedRow(kind, file, rows, i)
<1> DEFINE f == CHOOSE s : s = [i \in DOMAIN file |-> StagedRow(kind, file, s, i)]
<1>1. Staged(kind, file) = [i \in DOMAIN file |-> f[i]]
  <2> HIDE DEF DuplicateKey, IsValid, OnRecord
  <2> QED
    BY Zenon DEF Staged, StagedRow
<1>2. f = [i \in 1..n |-> StagedRow(kind, file, f, i)]
  <2>1. PICK s : StagedTo(kind, file, s, n)
    BY StagedExists
  <2>2. s = [i \in DOMAIN file |-> StagedRow(kind, file, s, i)]
    BY <2>1, Zenon DEF StagedTo
  <2>3. f = [i \in DOMAIN file |-> StagedRow(kind, file, f, i)]
    BY <2>2, Zenon
  <2> QED
    BY <2>3, Zenon
<1> HIDE DEF f
<1>3. PICK rows : rows = Staged(kind, file)
  OBVIOUS
<1>4. \A i \in 1..n : rows[i] = f[i] /\ f[i] = StagedRow(kind, file, f, i)
  BY <1>1, <1>2, <1>3
<1>5. ASSUME NEW i \in 1..n PROVE rows[i] = StagedRow(kind, file, rows, i)
  <2>1. \A k \in 1..(i - 1) : f[k] = rows[k]
    BY <1>4
  <2> QED
    BY <1>4, <2>1, StagedRowSame
<1> QED
  BY <1>3, <1>5, Zenon

(* Two valid rows of a file have different keys.                              *)
LEMMA StagedRows ==
  ASSUME NEW kind, NEW file, NEW n \in Nat, DOMAIN file = 1..n
  PROVE  LET rows == Staged(kind, file) IN
         /\ rows \in [DOMAIN file -> {"ERROR", "DUPLICATE", "VALID"}]
         /\ \A i \in 1..n : \A k \in 1..(i - 1) :
              rows[i] = "VALID" /\ DuplicateKey(kind, file[i]) # None /\ rows[k] = "VALID"
              => DuplicateKey(kind, file[k]) # DuplicateKey(kind, file[i])
<1>1. PICK rows : rows = Staged(kind, file)
  OBVIOUS
<1>2. rows = [i \in 1..n |-> rows[i]]
  <2> DEFINE f == CHOOSE s : s = [i \in DOMAIN file |-> StagedRow(kind, file, s, i)]
  <2>1. Staged(kind, file) = [i \in DOMAIN file |-> f[i]]
    <3> HIDE DEF DuplicateKey, IsValid, OnRecord
    <3> QED
      BY Zenon DEF Staged, StagedRow
  <2> HIDE DEF f
  <2> QED
    BY <1>1, <2>1
<1>3. \A i \in 1..n : rows[i] = StagedRow(kind, file, rows, i)
  BY <1>1, StagedByRow, Zenon
<1> HIDE DEF DuplicateKey, IsValid, OnRecord, Staged
<1>4. ASSUME NEW i \in 1..n PROVE rows[i] \in {"ERROR", "DUPLICATE", "VALID"}
  BY <1>3 DEF StagedRow
<1>5. ASSUME NEW i \in 1..n, NEW k \in 1..(i - 1), rows[i] = "VALID", DuplicateKey(kind, file[i]) # None, rows[k] = "VALID"
      PROVE  DuplicateKey(kind, file[k]) # DuplicateKey(kind, file[i])
  BY <1>3, <1>5 DEF StagedRow
<1> QED
  BY <1>1, <1>2, <1>4, <1>5

(* The pass of create_job over a file of any length, without the recursion: a *)
(* row that reads well is a duplicate if it is on record already, or if an    *)
(* earlier one that reads well and is not on record has its key.              *)
THEOREM StagedKeepsTheFirst ==
  ASSUME NEW kind, NEW file, NEW n \in Nat, DOMAIN file = 1..n, NEW i \in 1..n
  PROVE  LET key(k) == DuplicateKey(kind, file[k])
             fit(k) == IsValid(kind, file[k]) /\ ~OnRecord(kind, file[k])
         IN Staged(kind, file)[i] =
              IF ~IsValid(kind, file[i]) THEN "ERROR"
              ELSE IF key(i) # None /\ (~fit(i) \/ \E k \in 1..(i - 1) : fit(k) /\ key(k) = key(i)) THEN "DUPLICATE"
              ELSE "VALID"
<1> DEFINE key(k) == DuplicateKey(kind, file[k])
           good(k) == IsValid(kind, file[k])
           old(k)  == OnRecord(kind, file[k])
<1>1. PICK rows : rows = Staged(kind, file)
  OBVIOUS
<1>2. ASSUME NEW k \in 1..n
      PROVE  rows[k] = IF ~good(k) THEN "ERROR"
                       ELSE IF key(k) # None /\ (old(k) \/ \E j \in 1..(k - 1) : rows[j] = "VALID" /\ key(j) = key(k))
                       THEN "DUPLICATE" ELSE "VALID"
  <2>1. rows[k] = StagedRow(kind, file, rows, k)
    BY <1>1, StagedByRow, Zenon
  <2> HIDE DEF DuplicateKey, IsValid, OnRecord
  <2> QED
    BY <2>1, Zenon DEF StagedRow
<1> HIDE DEF key, good, old
<1>3. ASSUME key(i) # None
      PROVE  (\E k \in 1..(i - 1) : rows[k] = "VALID" /\ key(k) = key(i))
               <=> (\E k \in 1..(i - 1) : good(k) /\ ~old(k) /\ key(k) = key(i))
  <2>1. ASSUME NEW k \in 1..(i - 1), rows[k] = "VALID", key(k) = key(i) PROVE good(k) /\ ~old(k)
    <3>1. k \in 1..n
      OBVIOUS
    <3> QED
      BY <1>2, <1>3, <2>1, <3>1
  <2>2. ASSUME NEW k \in 1..(i - 1), good(k), ~old(k), key(k) = key(i)
        PROVE  \E j \in 1..(i - 1) : rows[j] = "VALID" /\ key(j) = key(i)
    <3>1. k \in 1..n /\ 1..(k - 1) \subseteq 1..(i - 1)
      OBVIOUS
    <3>2. rows[k] = "VALID" \/ \E j \in 1..(k - 1) : rows[j] = "VALID" /\ key(j) = key(k)
      BY <1>2, <2>2, <3>1
    <3> QED
      BY <2>2, <3>1, <3>2
  <2> QED
    BY <2>1, <2>2
<1>4. rows[i] = IF ~good(i) THEN "ERROR"
                ELSE IF key(i) # None /\ (~(good(i) /\ ~old(i)) \/ \E k \in 1..(i - 1) : (good(k) /\ ~old(k)) /\ key(k) = key(i))
                THEN "DUPLICATE" ELSE "VALID"
  BY <1>2, <1>3
<1> QED
  BY <1>1, <1>4, Zenon DEF key, good, old

LEMMA ImportInitInv == Init => ImportInv
<1> SUFFICES ASSUME Init PROVE ImportInv
  OBVIOUS
<1> USE DEF Init, ImportInit, DeskInit
<1>1. \A w \in Workers : ImportLoaded(worker[w], job) /\ ImportFresh(worker[w], job)
  BY ImportIdle, IdleQuery
<1> QED
  BY <1>1, ImportJobAssumption DEF ImportInv

LEMMA CreateJobInv ==
  ASSUME DeskInv, ImportInv, NEW w \in Workers, CreateJob(w)
  PROVE  Turn(w, ImportPC) /\ ImportInv'
<1>1. Turn(w, ImportPC) /\ worker'[w].pc = "idle"
  BY StayTurn DEF CreateJob, Asked
<1>2. PICK j \in Jobs, kind \in DOMAIN Files \cap scene.kinds :
        \E f \in Files[kind] :
          job[j] = None /\ job' = [job EXCEPT ![j] = JobRow(kind, f)] /\ made' = [made EXCEPT ![j] = [i \in DOMAIN f |-> 0]]
  BY DEF CreateJob
<1>3. PICK f \in Files[kind] :
        job[j] = None /\ job' = [job EXCEPT ![j] = JobRow(kind, f)] /\ made' = [made EXCEPT ![j] = [i \in DOMAIN f |-> 0]]
  BY <1>2
<1>4. PICK rows : rows = Staged(kind, f)
  OBVIOUS
<1>5. PICK n \in Nat : DOMAIN f = 1..n
  BY ImportAssumption
<1>6. /\ rows \in [DOMAIN f -> {"ERROR", "DUPLICATE", "VALID"}]
      /\ \A i \in 1..n : \A k \in 1..(i - 1) :
           rows[i] = "VALID" /\ DuplicateKey(kind, f[i]) # None /\ rows[k] = "VALID"
           => DuplicateKey(kind, f[k]) # DuplicateKey(kind, f[i])
  <2> HIDE DEF Staged, DuplicateKey
  <2> QED
    BY <1>4, <1>5, StagedRows
<1>7. PICK row : row = [kind |-> kind, file |-> f, status |-> "READY", rows |-> rows]
  OBVIOUS
<1>8. PICK m : m = [i \in DOMAIN f |-> 0]
  OBVIOUS
<1>9. job' = [job EXCEPT ![j] = row] /\ made' = [made EXCEPT ![j] = m]
  <2>1. JobRow(kind, f) = row
    BY <1>4, <1>7, Zenon DEF JobRow
  <2> QED
    BY <1>3, <1>8, <2>1
<1>10. row \in ImportJob
  <2>1. rows \in [DOMAIN f -> RowStatus]
    BY <1>6 DEF RowStatus
  <2> QED
    BY <1>7, <2>1, JobMade
<1>11. row.kind = kind /\ row.file = f /\ row.status = "READY" /\ row.rows = rows
  BY <1>7
<1>12. \A i \in DOMAIN f : rows[i] # "COMMITTED" /\ m[i] = 0
  BY <1>6, <1>8
<1>13. RowsOnce(row, m)
  <2>1. ASSUME NEW number PROVE Balanced(f, Lines(f, rows, "COMMITTED", number))
    <3>1. Lines(f, rows, "COMMITTED", number) = {}
      BY <1>12 DEF Lines
    <3> QED
      BY <3>1, SumEmpty, Zenon DEF Balanced
  <2> QED
    BY <1>11, <1>12, <2>1 DEF RowsOnce
<1>14. JobSound(row, m)
  <2>1. m \in [DOMAIN f -> Nat]
    BY <1>8
  <2>2. Unmixed(rows)
    BY <1>6, <1>12 DEF Unmixed
  <2> QED
    BY <1>11, <1>13, <2>1, <2>2 DEF JobSound
<1>15. Pending(row, m) /\ RowsOrderly(row, m)
  <2>1. KeysApart(row, "VALID")
    <3> HIDE DEF DuplicateKey
    <3> QED
      BY <1>5, <1>6, <1>11 DEF KeysApart
  <2>2. KeysApart(row, "COMMITTED")
    BY <1>11, <1>12 DEF KeysApart
  <2> QED
    BY <1>11, <1>12, <2>1, <2>2 DEF Pending, RowsOrderly
<1>16. JobServed(row, m)
  BY <1>15 DEF JobServed
<1> QED
  <2>1. made'[j] = m /\ (\A k \in Jobs \ {j} : made'[k] = made[k]) /\ DOMAIN made' = Jobs
    BY <1>9 DEF ImportInv
  <2> QED
    BY <1>1, <1>3, <1>9, <1>10, <1>14, <1>16, <2>1, ImportWrite

LEMMA AskImportInv ==
  ASSUME DeskInv, ImportInv, NEW w \in Workers, AskCommit(w) \/ AskCancel(w)
  PROVE  Turn(w, ImportPC) /\ ImportInv'
<1>1. PICK j \in Jobs, pc \in {"rows", "cancel"}, op \in {"commit", "cancel"} :
        /\ Free(w) /\ UNCHANGED importVars /\ job[j] # None
        /\ IF pc = "rows" THEN job[j].status = "READY" ELSE job[j].status \notin Finished
        /\ Serve(w, pc, op, j, None, job[j])
  <2>1. CASE AskCommit(w)
    BY <2>1 DEF AskCommit, Asked
  <2>2. CASE AskCancel(w)
    BY <2>2 DEF AskCancel, Asked
  <2> QED
    BY <2>1, <2>2
<1>2. Turn(w, ImportPC) /\ worker'[w] = [pc |-> pc, op |-> op, id |-> j, args |-> None, seen |-> job[j]]
  BY <1>1, ServeTurn DEF ImportPC
<1>3. ImportLoaded(worker'[w], job) /\ ImportFresh(worker'[w], job)
  BY <1>1, <1>2 DEF ImportLoaded, ImportFresh
<1> QED
  BY <1>1, <1>2, <1>3, ImportRead

LEMMA ReadRowsInv ==
  ASSUME DeskInv, ImportInv, NEW w \in Workers, ReadRows(w)
  PROVE  Turn(w, ImportPC) /\ ImportInv'
<1>1. PICK q : q = worker[w]
  OBVIOUS
<1>2. PICK rows : rows = job[q.id].rows
  OBVIOUS
<1>3. PICK p : p = [worker[w] EXCEPT !.pc = "records", !.args = rows]
  OBVIOUS
<1>4. q.pc = "rows" /\ UNCHANGED importVars /\ Carries(w, p)
  BY <1>1, <1>2, <1>3, Zenon DEF ReadRows, Carries
<1>5. IsQuery(q) /\ ImportLoaded(q, job) /\ (scene.serial => ImportFresh(q, job))
  BY <1>1 DEF DeskInv, ImportInv
<1>6. /\ Turn(w, ImportPC) /\ worker'[w] = p
      /\ p.pc = "records" /\ p.op = q.op /\ p.id = q.id /\ p.args = rows /\ p.seen = q.seen
  <2>1. /\ IsQuery(p)
        /\ p.pc = "records" /\ p.op = q.op /\ p.id = q.id /\ p.args = rows /\ p.seen = q.seen
    BY <1>1, <1>3, <1>5 DEF IsQuery
  <2> QED
    BY <1>1, <1>4, <2>1, CarryTurn DEF ImportPC
<1>7. q.id \in Jobs /\ job[q.id] # None /\ q.seen.kind = job[q.id].kind /\ q.seen.file = job[q.id].file
  BY <1>4, <1>5 DEF ImportLoaded, ImportPC
<1>8. rows \in [DOMAIN q.seen.file -> RowStatus]
  <2>1. job[q.id] \in ImportJob
    BY <1>7 DEF ImportInv
  <2> QED
    BY <1>2, <1>7, <2>1, JobColumns
<1>9. ImportLoaded(p, job) /\ (scene.serial => ImportFresh(p, job))
  BY <1>2, <1>4, <1>5, <1>6, <1>7, <1>8 DEF ImportLoaded, ImportFresh, ImportPC
<1> QED
  BY <1>4, <1>6, <1>9, ImportRead

(* What a commit leaves of the rows, another commit of the job may have been  *)
(* there before: the same.                                                    *)
LEMMA CommittedRows ==
  ASSUME NEW kind, NEW file, NEW args \in [DOMAIN file -> RowStatus], NEW after, after = AfterCommit(kind, file, args),
         NEW now, now = args \/ now = after
  PROVE  [i \in DOMAIN file |-> Column(after[i], args[i], now[i])] = after
<1>1. after \in [DOMAIN file -> RowStatus]
  BY CommitRows
<1>2. \A i \in DOMAIN file : Column(after[i], args[i], now[i]) = after[i]
  BY <1>1 DEF Column
<1>3. after = [i \in DOMAIN file |-> after[i]]
  BY <1>1
<1> HIDE DEF Column
<1> QED
  BY <1>2, <1>3

(* A journal that is made has the lines that were valid, and they balance.    *)
LEMMA CommittedBalance ==
  ASSUME NEW file, NEW rows \in [DOMAIN file -> RowStatus], Unmixed(rows),
         NEW number, Balanced(file, Lines(file, rows, "COMMITTED", number))
  PROVE  Balanced(file, Lines(file, AfterCommit("JOURNALS", file, rows), "COMMITTED", number))
<1>1. PICK after : after = AfterCommit("JOURNALS", file, rows)
  OBVIOUS
<1>2. CASE \E k \in DOMAIN file : rows[k] = "COMMITTED"
  <2>1. \A i \in DOMAIN file : after[i] = rows[i]
    BY <1>1, <1>2, CommitRows DEF Unmixed
  <2>2. Lines(file, after, "COMMITTED", number) = Lines(file, rows, "COMMITTED", number)
    BY <2>1 DEF Lines
  <2> QED
    BY <1>1, <2>2
<1>3. CASE ~ \E k \in DOMAIN file : rows[k] = "COMMITTED"
  <2>1. \A i \in DOMAIN file :
          after[i] = "COMMITTED" <=> rows[i] = "VALID" /\ Balances(file, rows, file[i].number)
    <3> HIDE DEF Balances, Reads
    <3> QED
      BY <1>1, <1>3 DEF AfterCommit, RowStatus
  <2>2. CASE Balances(file, rows, number)
    <3>1. Lines(file, after, "COMMITTED", number) = Lines(file, rows, "VALID", number)
      <4> HIDE DEF Balances
      <4> QED
        BY <2>1, <2>2 DEF Lines
    <3> QED
      BY <1>1, <2>2, <3>1 DEF Balances
  <2>3. CASE ~Balances(file, rows, number)
    <3>1. Lines(file, after, "COMMITTED", number) = {}
      <4> HIDE DEF Balances
      <4> QED
        BY <2>1, <2>3 DEF Lines
    <3> QED
      BY <1>1, <3>1, SumEmpty, Zenon DEF Balanced
  <2> QED
    BY <2>2, <2>3
<1> QED
  BY <1>2, <1>3

LEMMA WriteRecordsInv ==
  ASSUME DeskInv, ImportInv, NEW w \in Workers, WriteRecords(w)
  PROVE  Turn(w, ImportPC) /\ ImportInv'
<1>1. PICK q : q = worker[w]
  OBVIOUS
<1>2. PICK kind, file, args, j : kind = q.seen.kind /\ file = q.seen.file /\ args = q.args /\ j = q.id
  OBVIOUS
<1>3. PICK after : after = AfterCommit(kind, file, args)
  OBVIOUS
<1>4. PICK new : new = {i \in DOMAIN file : Makes(kind, file, args, i)}
  OBVIOUS
<1>5. PICK row, m : row = job[j] /\ m = made[j]
  OBVIOUS
<1>6. PICK rows : rows = [i \in DOMAIN file |-> Column(after[i], args[i], row.rows[i])]
  OBVIOUS
<1>7. PICK s \in Finished : s = IF \E i \in DOMAIN file : after[i] = "ERROR" THEN "COMPLETED_WITH_ERRORS" ELSE "COMPLETED"
  BY DEF Finished
<1>8. PICK n : n = [i \in DOMAIN file |-> m[i] + (IF i \in new THEN 1 ELSE 0)]
  OBVIOUS
<1>9. /\ q.pc = "records" /\ Done(w)
      /\ \A i \in new : IndexKey(kind, file[i]) # None =>
           \A rec \in Records(Table(kind)) : IndexKey(kind, RowOf(rec)) # IndexKey(kind, file[i])
      /\ job' = [job EXCEPT ![j].rows = rows, ![j].status = s]
      /\ made' = [made EXCEPT ![j] = n]
  <2> HIDE DEF AfterCommit, Makes, IndexKey, Records, Table, RowOf, Column, Done
  <2> QED
    BY <1>1, <1>2, <1>3, <1>4, <1>5, <1>6, <1>7, <1>8, Zenon DEF WriteRecords
<1>10. Turn(w, ImportPC) /\ worker'[w].pc = "idle"
  BY <1>1, <1>9, DoneTurn, IdleQuery
<1>11. /\ j \in Jobs /\ row # None /\ row \in ImportJob /\ row.kind = kind /\ row.file = file
       /\ args \in [DOMAIN file -> RowStatus]
       /\ row.rows = args \/ row.rows = after
       /\ JobSound(row, m) /\ (scene.serial => JobServed(row, m) /\ row.rows = args /\ row.status = "READY")
  <2>1. ImportLoaded(q, job) /\ (scene.serial => ImportFresh(q, job))
    BY <1>1 DEF ImportInv
  <2>2. j \in Jobs /\ row # None /\ row.kind = kind /\ row.file = file
    BY <1>2, <1>5, <1>9, <2>1 DEF ImportLoaded, ImportPC
  <2>3. args \in [DOMAIN file -> RowStatus] /\ (row.rows = args \/ row.rows = after)
    BY <1>2, <1>3, <1>5, <1>9, <2>1 DEF ImportLoaded
  <2>4. scene.serial => row.rows = args /\ row.status = "READY"
    BY <1>2, <1>5, <1>9, <2>1 DEF ImportFresh, ImportPC
  <2> QED
    BY <1>5, <2>2, <2>3, <2>4 DEF ImportInv
<1>12. PICK f \in Files[kind] : f = file
  BY <1>11, JobColumns
<1>13. /\ kind \in DOMAIN Files /\ file \in Files[kind]
       /\ row = [kind |-> kind, file |-> file, status |-> row.status, rows |-> row.rows]
  BY <1>11, JobColumns
<1>14. after \in [DOMAIN file -> RowStatus] /\ rows = after
  BY <1>3, <1>6, <1>11, CommitRows, CommittedRows
<1>15. PICK then : then = [kind |-> kind, file |-> file, status |-> s, rows |-> rows]
  OBVIOUS
<1>16. then \in ImportJob
  BY <1>13, <1>14, <1>15, JobMade
<1>17. then.kind = kind /\ then.file = file /\ then.status = s /\ then.rows = after
  BY <1>14, <1>15
<1>18. job' = [job EXCEPT ![j] = then]
  <2>1. job' = [job EXCEPT ![j] = [row EXCEPT !.rows = rows, !.status = s]]
    BY <1>5, <1>9, Zenon
  <2>2. PICK half : half = [row EXCEPT !.rows = rows]
    OBVIOUS
  <2>3. half = [kind |-> kind, file |-> file, status |-> row.status, rows |-> rows]
    BY <1>13, <2>2
  <2>4. [half EXCEPT !.status = s] = [kind |-> kind, file |-> file, status |-> s, rows |-> rows]
    BY <2>3
  <2> QED
    BY <1>15, <2>1, <2>2, <2>4
<1>19. job[j] # None =>
         /\ then.kind = job[j].kind /\ then.file = job[j].file
         /\ then.rows = job[j].rows \/ then.rows = AfterCommit(job[j].kind, job[j].file, job[j].rows)
  BY <1>3, <1>5, <1>11, <1>17, CommitRows
<1>20. /\ m \in [DOMAIN file -> Nat] /\ n \in [DOMAIN file -> Nat]
       /\ \A i \in DOMAIN file : n[i] = IF i \in new THEN m[i] + 1 ELSE m[i]
  BY <1>8, <1>11 DEF JobSound
<1>21. Unmixed(after)
  BY <1>3, <1>11, CommitRows DEF Unmixed
<1>22. ASSUME NEW i \in DOMAIN file, IndexKey(kind, file[i]) # None PROVE n[i] <= 1
  <2>1. m[i] <= 1
    BY <1>11, <1>22 DEF JobSound, RowsOnce
  <2>2. ASSUME i \in new PROVE m[i] = 0
    <3> SUFFICES ASSUME m[i] # 0 PROVE FALSE
      OBVIOUS
    <3>1. m[i] > 0
      BY <1>20
    <3>2. <<j, i>> \in Records(Table(kind))
      <4>1. j \in {k \in Jobs : job[k] # None /\ Table(job[k].kind) = Table(kind)}
        BY <1>5, <1>11, Zenon
      <4>2. i \in {x \in DOMAIN made[j] : made[j][x] > 0}
        BY <1>5, <1>20, <3>1
      <4>3. <<j, i>> \in {<<j, x>> : x \in {y \in DOMAIN made[j] : made[j][y] > 0}}
        BY <4>2, Zenon
      <4> QED
        BY <4>1, <4>3, Zenon DEF Records
    <3>3. RowOf(<<j, i>>) = file[i]
      BY <1>5, <1>11 DEF RowOf
    <3> HIDE DEF IndexKey, Records, RowOf, Table
    <3> QED
      BY <1>9, <1>22, <2>2, <3>2, <3>3
  <2> QED
    BY <1>20, <2>1, <2>2
<1>23. RowsOnce(then, n)
  <2>1. ASSUME kind = "JOURNALS", NEW i \in DOMAIN file
        PROVE  Balanced(file, Lines(file, after, "COMMITTED", file[i].number))
    <3>1. Balanced(file, Lines(file, row.rows, "COMMITTED", file[i].number)) /\ Unmixed(row.rows)
      BY <1>11, <2>1 DEF JobSound, RowsOnce
    <3> HIDE DEF Balanced, Lines, Unmixed
    <3>2. CASE row.rows = args
      BY <1>3, <1>11, <2>1, <3>1, <3>2, CommittedBalance
    <3>3. CASE row.rows = after
      BY <3>1, <3>3
    <3> QED
      BY <1>11, <3>2, <3>3
  <2> HIDE DEF Balanced, Lines, IndexKey
  <2> QED
    BY <1>17, <1>22, <2>1 DEF RowsOnce
<1>24. JobSound(then, n)
  BY <1>17, <1>20, <1>21, <1>23 DEF JobSound
<1>25. ASSUME scene.serial PROVE JobServed(then, n)
  <2>1. /\ Pending(row, m) /\ row.rows = args
        /\ \A i \in DOMAIN file : m[i] = 0 /\ args[i] # "COMMITTED"
    BY <1>11, <1>25 DEF JobServed, Finished, Pending
  <2>2. ASSUME NEW i \in DOMAIN file, after[i] = "COMMITTED" PROVE args[i] = "VALID"
    BY <1>3, <1>11, <2>1, <2>2, CommitRows
  <2>3. ASSUME NEW i \in DOMAIN file
        PROVE  /\ n[i] <= 1
               /\ n[i] = 1 => after[i] = "COMMITTED"
               /\ after[i] = "COMMITTED" => s \in Finished /\ (kind # "JOURNALS" => n[i] = 1)
    <3>1. i \in new => after[i] = "COMMITTED"
      BY <1>3, <1>4 DEF Makes
    <3>2. after[i] = "COMMITTED" /\ kind # "JOURNALS" => i \in new
      BY <1>3, <1>4, <2>2 DEF Makes
    <3> QED
      BY <1>20, <2>1, <3>1, <3>2
  <2>4. KeysApart(then, "COMMITTED")
    <3>1. PICK len \in Nat : DOMAIN file = 1..len
      BY <1>13, ImportAssumption
    <3>2. \A i \in DOMAIN file : \A k \in 1..(i - 1) : k \in DOMAIN file
      BY <3>1
    <3>3. KeysApart(row, "VALID")
      BY <2>1 DEF Pending
    <3> HIDE DEF DuplicateKey
    <3> QED
      BY <1>11, <1>17, <2>1, <2>2, <3>2, <3>3 DEF KeysApart
  <2>5. RowsOrderly(then, n)
    BY <1>17, <2>3, <2>4 DEF RowsOrderly
  <2> QED
    BY <1>17, <2>5 DEF JobServed
<1>26. made'[j] = n /\ (\A k \in Jobs \ {j} : made'[k] = made[k]) /\ DOMAIN made' = Jobs
  BY <1>9, <1>11 DEF ImportInv
<1> QED
  BY <1>10, <1>11, <1>16, <1>18, <1>19, <1>24, <1>25, <1>26, ImportWrite

LEMMA WriteCancelInv ==
  ASSUME DeskInv, ImportInv, NEW w \in Workers, WriteCancel(w)
  PROVE  Turn(w, ImportPC) /\ ImportInv'
<1>1. PICK q : q = worker[w]
  OBVIOUS
<1>2. PICK j, row, m : j = q.id /\ row = job[j] /\ m = made[j]
  OBVIOUS
<1>3. PICK s : s = Column("CANCELLED", q.seen.status, row.status)
  OBVIOUS
<1>4. q.pc = "cancel" /\ Done(w) /\ job' = [job EXCEPT ![j].status = s] /\ UNCHANGED made
  BY <1>1, <1>2, <1>3, Zenon DEF WriteCancel
<1>5. Turn(w, ImportPC) /\ worker'[w].pc = "idle"
  BY <1>1, <1>4, DoneTurn, IdleQuery
<1>6. ImportLoaded(q, job) /\ (scene.serial => ImportFresh(q, job))
  BY <1>1 DEF ImportInv
<1>7. j \in Jobs /\ row # None /\ row \in ImportJob /\ JobSound(row, m)
  BY <1>2, <1>4, <1>6 DEF ImportInv, ImportLoaded, ImportPC
<1>8. /\ row.kind \in DOMAIN Files /\ row.file \in Files[row.kind]
      /\ row.status \in Finished \cup {"READY", "CANCELLED"}
      /\ row.rows \in [DOMAIN row.file -> RowStatus]
      /\ row = [kind |-> row.kind, file |-> row.file, status |-> row.status, rows |-> row.rows]
  BY <1>7, JobColumns
<1>9. s \in Finished \cup {"READY", "CANCELLED"}
  BY <1>3, <1>8 DEF Column
<1>10. PICK then : then = [kind |-> row.kind, file |-> row.file, status |-> s, rows |-> row.rows]
  OBVIOUS
<1>11. then \in ImportJob
  BY <1>8, <1>9, <1>10, JobMade
<1>12. then.kind = row.kind /\ then.file = row.file /\ then.status = s /\ then.rows = row.rows
  BY <1>10
<1>13. job' = [job EXCEPT ![j] = then]
  <2>1. job' = [job EXCEPT ![j] = [row EXCEPT !.status = s]]
    BY <1>2, <1>4, Zenon
  <2>2. [row EXCEPT !.status = s] = then
    BY <1>8, <1>10
  <2> QED
    BY <2>1, <2>2
<1>14. made'[j] = m /\ (\A k \in Jobs \ {j} : made'[k] = made[k]) /\ DOMAIN made' = Jobs
  BY <1>2, <1>4, <1>7 DEF ImportInv
<1>15. JobSound(then, m)
  BY <1>7, <1>12 DEF JobSound, RowsOnce
<1>16. ASSUME scene.serial PROVE JobServed(then, m)
  <2>1. JobServed(row, m) /\ row.status \notin Finished
    BY <1>2, <1>4, <1>6, <1>7, <1>16 DEF ImportInv, ImportFresh, ImportPC
  <2>2. Pending(row, m)
    BY <2>1 DEF JobServed
  <2>3. KeysApart(then, "VALID")
    BY <1>12, <2>2 DEF Pending, KeysApart
  <2>4. \A i \in DOMAIN then.file : m[i] = 0 /\ then.rows[i] # "COMMITTED"
    BY <1>12, <2>2 DEF Pending
  <2>5. KeysApart(then, "COMMITTED")
    BY <2>4 DEF KeysApart
  <2> QED
    BY <2>3, <2>4, <2>5 DEF JobServed, RowsOrderly, Pending
<1> QED
  BY <1>2, <1>5, <1>7, <1>11, <1>12, <1>13, <1>14, <1>15, <1>16, ImportWrite

LEMMA ImportRequestInv ==
  ASSUME DeskInv, ImportInv, NEW w \in Workers, ImportRequest(w)
  PROVE  Turn(w, ImportPC) /\ ImportInv'
BY CreateJobInv, AskImportInv, ReadRowsInv, WriteRecordsInv, WriteCancelInv, Zenon DEF ImportRequest

LEMMA ImportOther ==
  ASSUME ImportInv, NEW w \in Workers, NEW pcs, pcs \subseteq AuditPC \cup TaxPC, Turn(w, pcs), UNCHANGED importVars
  PROVE  ImportInv'
<1>1. worker'[w].pc = "idle" \/ worker'[w].pc \in AuditPC \cup TaxPC
  BY DEF Turn
<1> QED
  BY <1>1, ImportIdle, ImportRead

-------------------------------------------------------------------------------
(* Income tax.                                                                *)

(* Snapshots are only appended.                                               *)
IsSeq(s) == \E n \in Nat : DOMAIN s = 1..n /\ s = [i \in 1..n |-> s[i]]

LEMMA AppendSeq ==
  ASSUME NEW s, IsSeq(s), NEW x
  PROVE  IsSeq(Append(s, x)) /\ Last(Append(s, x)) = x /\ Append(s, x) # <<>> /\ IsPrefix(s, Append(s, x))
<1>1. PICK n \in Nat : DOMAIN s = 1..n /\ s = [i \in 1..n |-> s[i]]
  BY DEF IsSeq
<1>2. PICK S : S = {s[i] : i \in 1..n} \cup {x}
  OBVIOUS
<1>3. s \in Seq(S) /\ x \in S
  <2>1. s \in [1..n -> S]
    BY <1>1, <1>2
  <2> QED
    BY <1>2, <2>1
<1>4. PICK t : t = Append(s, x)
  OBVIOUS
<1>5. t \in Seq(S) /\ Len(t) = Len(s) + 1 /\ t[Len(t)] = x /\ \A i \in 1..Len(s) : t[i] = s[i]
  BY <1>3, <1>4
<1>6. IsSeq(t)
  BY <1>5 DEF IsSeq
<1>7. IsPrefix(s, t)
  <2>1. s = SubSeq(t, 1, Len(s))
    BY <1>3, <1>5
  <2> QED
    BY <1>3, <1>5, <2>1 DEF IsPrefix
<1>8. t # <<>>
  BY <1>3, <1>5
<1> QED
  BY <1>4, <1>5, <1>6, <1>7, <1>8 DEF Last

LEMMA OwnPrefix ==
  ASSUME NEW s, IsSeq(s)
  PROVE  IsPrefix(s, s)
<1>1. PICK n \in Nat : DOMAIN s = 1..n /\ s = [i \in 1..n |-> s[i]]
  BY DEF IsSeq
<1>2. PICK S : S = {s[i] : i \in 1..n}
  OBVIOUS
<1>3. s \in Seq(S)
  <2>1. s \in [1..n -> S]
    BY <1>1, <1>2
  <2> QED
    BY <1>2, <2>1
<1>4. s = SubSeq(s, 1, Len(s))
  BY <1>3
<1> QED
  BY <1>3, <1>4 DEF IsPrefix

LEMMA ComputationTarget ==
  ASSUME NEW s, NEW op, Allows(ComputationMoves, s, op)
  PROVE  LET to == Target(ComputationMoves, s, op) IN
         /\ to # "DRAFT"
         /\ s = "DRAFT" => to = "CANCELLED"
         /\ s = "APPROVED" => to = "LOCKED"
         /\ s \notin {"LOCKED", "CANCELLED"}
<1> DEFINE m == CHOOSE x \in ComputationMoves : x[1] = s /\ x[2] = op
<1>1. m \in ComputationMoves /\ m[1] = s /\ m[2] = op
  BY DEF Allows
<1>2. Target(ComputationMoves, s, op) = m[3]
  BY DEF Target
<1> HIDE DEF m
<1> QED
  BY <1>1, <1>2 DEF ComputationMoves

(* A computation whose figures are those of its newest snapshot.              *)
IsComputation(row) == DOMAIN row = {"status", "regime", "fig"}
Recorded(c) ==
  /\ IsComputation(comp[c])
  /\ comp[c].fig = IF snap[c] = <<>> THEN [n \in FigureNames |-> 0] ELSE Last(snap[c])
RecordedRows == {c \in Computations : Recorded(c)}

(* The columns of a head, each with a value of its kind.                      *)
Shaped(head, g) == g = [c \in Columns[head] |-> g[c]] /\ \A c \in Columns[head] \ NotMoney : g[c] \in Int

LEMMA ShapedStored ==
  ASSUME NEW head \in Heads, NEW g, Shaped(head, g)
  PROVE  /\ Shaped(head, Stored(g)) /\ Shaped(head, Loaded(Stored(g)))
         /\ \A c \in Columns[head] : IF c \in NotMoney THEN Loaded(Stored(g))[c] = g[c]
                                     ELSE Loaded(Stored(g))[c] = 10 * RoundMoney(g[c])
<1> DEFINE s == Stored(g)
           h == Loaded(s)
<1>1. DOMAIN g = Columns[head]
  BY DEF Shaped
<1>2. DOMAIN s = Columns[head] /\ \A c \in Columns[head] : s[c] = IF c \in NotMoney THEN g[c] ELSE RoundMoney(g[c])
  BY <1>1 DEF Stored
<1>3. DOMAIN h = Columns[head] /\ \A c \in Columns[head] : h[c] = IF c \in NotMoney THEN s[c] ELSE Exact(s[c])
  BY <1>2 DEF Loaded
<1>4. s = [c \in Columns[head] |-> s[c]] /\ h = [c \in Columns[head] |-> h[c]]
  BY <1>1 DEF Stored, Loaded
<1>5. \A c \in Columns[head] \ NotMoney : s[c] \in Int /\ h[c] \in Int
  BY <1>2, <1>3, RoundedTo, RoundedBack DEF Shaped
<1> HIDE DEF s, h
<1>6. Shaped(head, s) /\ Shaped(head, h)
  BY <1>4, <1>5 DEF Shaped
<1>7. \A c \in Columns[head] : IF c \in NotMoney THEN h[c] = g[c] ELSE h[c] = 10 * RoundMoney(g[c])
  BY <1>2, <1>3 DEF Exact
<1> QED
  BY <1>6, <1>7 DEF s, h

(* An amount and the same amount as a column gives it back.                   *)
Near(a, b) == a \in Int /\ b \in Int /\ b - a \in -5..5

LEMMA NearStored ==
  ASSUME NEW head \in Heads, NEW g, Shaped(head, g), NEW c \in Columns[head] \ NotMoney
  PROVE  Near(g[c], Loaded(Stored(g))[c])
BY ShapedStored, RoundedTo DEF Shaped, Near

LEMMA HouseClose ==
  ASSUME NEW n \in Int, NEW m \in Int, n >= 0, m >= 0, m - n \in -10..10, RoundMoney(m) * 10 = m,
         NEW x \in Int, NEW y \in Int, RoundMoney(y) * 10 = y, Near(x, y), NEW let,
         NEW a, a = RoundMoney(n) - (IF let THEN Percent(RoundMoney(n), 30) ELSE 0),
         NEW b, b = RoundMoney(m) - (IF let THEN Percent(RoundMoney(m), 30) ELSE 0)
  PROVE  RoundMoney(Exact(a) - x) - RoundMoney(Exact(b) - y) \in -2..2
<1>1. PICK k, l : k = RoundMoney(n) /\ l = RoundMoney(m)
  OBVIOUS
<1>2. k \in Int /\ l \in Int /\ k - l \in -1..1
  <2>1. k \in Int /\ l \in Int /\ 10 * k - n \in -5..5 /\ l * 10 = m
    BY <1>1, RoundedTo
  <2> QED
    BY <2>1
<1>3. a \in Int /\ b \in Int /\ a - b \in -1..1
  BY <1>1, <1>2 DEF Percent, Round
<1>4. Exact(a) - x \in Int /\ Exact(b) - y \in Int
      /\ (Exact(a) - x) - (Exact(b) - y) \in -15..15
  BY <1>3 DEF Exact, Near
<1>5. PICK z \in Int : y = 10 * z
  <2>1. RoundMoney(y) \in Int
    BY RoundedTo
  <2>2. y = 10 * RoundMoney(y)
    BY <2>1
  <2> QED
    BY <2>1, <2>2
<1>6. RoundMoney(Exact(b) - y) = b - z
  BY <1>3, <1>5 DEF Exact, RoundMoney
<1>7. Exact(b) - y = 10 * (b - z)
  BY <1>3, <1>5 DEF Exact
<1>8. RoundMoney(Exact(a) - x) \in Int /\ 10 * RoundMoney(Exact(a) - x) - (Exact(a) - x) \in -5..5
  BY <1>4, RoundedTo
<1>9. PICK p, u : p = RoundMoney(Exact(a) - x) /\ u = Exact(a) - x
  OBVIOUS
<1>10. p \in Int /\ u \in Int /\ 10 * p - u \in -5..5 /\ u - 10 * (b - z) \in -15..15
  BY <1>4, <1>7, <1>8, <1>9
<1>11. p - (b - z) \in -2..2
  BY <1>3, <1>5, <1>10
<1> QED
  BY <1>6, <1>9, <1>11

(* The other heads: a sum of columns, and the same sum of what they hold.     *)
LEMMA SumClose ==
  ASSUME NEW a \in Int, NEW b \in Int, NEW k \in Int, b = 10 * k
  PROVE  /\ b - a \in -10..10 => RoundMoney(a) - RoundMoney(b) \in -1..1
         /\ b - a \in -20..20 => RoundMoney(a) - RoundMoney(b) \in -2..2
         /\ b - a \in -30..30 => RoundMoney(a) - RoundMoney(b) \in -3..3
<1>1. RoundMoney(b) = k
  BY RoundedBack DEF Exact
<1>2. PICK p : p = RoundMoney(a)
  OBVIOUS
<1>3. p \in Int /\ 10 * p - a \in -5..5
  BY <1>2, RoundedTo
<1> QED
  BY <1>1, <1>2, <1>3

(* What was computed before the columns were rounded is near to what they     *)
(* give.                                                                      *)
LEMMA DeriveClose ==
  ASSUME NEW head \in Heads, NEW g, Shaped(head, g), NEW h, h = Loaded(Stored(g))
  PROVE  /\ RoundMoney(Derive(head, g)) \in Int
         /\ RoundMoney(Derive(head, g)) - RoundMoney(Derive(head, h)) \in (0 - Slack[head])..Slack[head]
<1>1. ASSUME NEW c \in Columns[head] \ NotMoney
      PROVE  Near(g[c], h[c]) /\ RoundMoney(g[c]) \in Int /\ h[c] = 10 * RoundMoney(g[c])
  <2>1. g[c] \in Int /\ c \in Columns[head] /\ c \notin NotMoney
    BY <1>1 DEF Shaped
  <2> QED
    BY <2>1, NearStored, ShapedStored, RoundedTo
<1>2. \A c \in Columns[head] \cap NotMoney : h[c] = g[c]
  BY ShapedStored
<1> USE DEF Columns, NotMoney
<1>3. CASE head = "salary"
  <2> DEFINE sum(r) == r.gross + r.allowances + r.perquisites + r.profit - r.standard - r.professional
             a == AtLeastZero(sum(g))
             b == AtLeastZero(sum(h))
             all(r) == RoundMoney(r.gross) + RoundMoney(r.allowances) + RoundMoney(r.perquisites)
                       + RoundMoney(r.profit) - RoundMoney(r.standard) - RoundMoney(r.professional)
  <2>1. /\ sum(g) \in Int /\ sum(h) \in Int /\ sum(h) - sum(g) \in -30..30
        /\ all(g) \in Int /\ sum(h) = 10 * all(g)
    <3>1. ASSUME NEW c \in {"gross", "allowances", "perquisites", "profit", "standard", "professional"}
          PROVE  Near(g[c], h[c]) /\ RoundMoney(g[c]) \in Int /\ h[c] = 10 * RoundMoney(g[c])
      BY <1>1, <1>3
    <3> HIDE DEF Columns, NotMoney
    <3>2. /\ Near(g.gross, h.gross) /\ RoundMoney(g.gross) \in Int /\ h.gross = 10 * RoundMoney(g.gross)
          /\ Near(g.allowances, h.allowances) /\ RoundMoney(g.allowances) \in Int
          /\ h.allowances = 10 * RoundMoney(g.allowances)
          /\ Near(g.perquisites, h.perquisites) /\ RoundMoney(g.perquisites) \in Int
          /\ h.perquisites = 10 * RoundMoney(g.perquisites)
          /\ Near(g.profit, h.profit) /\ RoundMoney(g.profit) \in Int /\ h.profit = 10 * RoundMoney(g.profit)
          /\ Near(g.standard, h.standard) /\ RoundMoney(g.standard) \in Int /\ h.standard = 10 * RoundMoney(g.standard)
          /\ Near(g.professional, h.professional) /\ RoundMoney(g.professional) \in Int
          /\ h.professional = 10 * RoundMoney(g.professional)
      BY <3>1
    <3> QED
      BY <3>2 DEF Near
  <2> HIDE DEF sum, all
  <2>2. PICK k \in Int : b = 10 * k
    BY <2>1, AtLeastZeroIs
  <2>3. a \in Int /\ b \in Int /\ b - a \in -30..30
    BY <2>1, AtLeastZeroIs
  <2>4. RoundMoney(a) - RoundMoney(b) \in -3..3
    <3> HIDE DEF a, b
    <3> QED
      BY <2>2, <2>3, SumClose
  <2>5. Derive(head, g) = Rounded(a) /\ Derive(head, h) = Rounded(b)
    BY <1>3 DEF Derive, SalaryTaxable, sum
  <2> HIDE DEF a, b
  <2> QED
    BY <1>3, <2>3, <2>4, <2>5, RoundedIs, RoundedTo DEF Slack
<1>4. CASE head = "house"
  <2> DEFINE n == AtLeastZero(g.rent - g.municipal)
             m == AtLeastZero(h.rent - h.municipal)
             a == RoundMoney(n) - (IF g.letOut THEN Percent(RoundMoney(n), 30) ELSE 0)
             b == RoundMoney(m) - (IF g.letOut THEN Percent(RoundMoney(m), 30) ELSE 0)
  <2>1. n \in Int /\ m \in Int /\ n >= 0 /\ m >= 0 /\ m - n \in -10..10
    BY <1>1, <1>4, AtLeastZeroIs DEF Near
  <2>2. PICK k \in Int : m = 10 * k
    BY <1>1, <1>4, AtLeastZeroIs
  <2>3. RoundMoney(m) * 10 = m
    <3> HIDE DEF m
    <3>1. RoundMoney(Exact(k)) = k /\ m = Exact(k)
      BY <2>2, RoundedBack DEF Exact
    <3> QED
      BY <2>2, <3>1
  <2>4. Near(g.interest, h.interest) /\ RoundMoney(h.interest) * 10 = h.interest
    BY <1>1, <1>4, RoundedBack DEF Exact
  <2>5. Derive(head, g) = Rounded(Exact(a) - g.interest) /\ Derive(head, h) = Rounded(Exact(b) - h.interest)
    BY <1>2, <1>4 DEF Derive, HouseIncome
  <2>6. a \in Int /\ b \in Int /\ g.interest \in Int /\ h.interest \in Int
    <3>1. RoundMoney(n) \in Int /\ RoundMoney(m) \in Int
      <4> HIDE DEF n, m
      <4> QED
        BY <2>1, RoundedTo
    <3> HIDE DEF n, m
    <3> QED
      BY <2>4, <3>1 DEF Near, Percent, Round
  <2>7. RoundMoney(Exact(a) - g.interest) - RoundMoney(Exact(b) - h.interest) \in -2..2
    <3> HIDE DEF n, m
    <3> QED
      BY <2>1, <2>3, <2>4, <2>6, HouseClose
  <2>8. Exact(a) - g.interest \in Int /\ Exact(b) - h.interest \in Int
    <3> HIDE DEF a, b
    <3> QED
      BY <2>6 DEF Exact
  <2> HIDE DEF a, b
  <2> QED
    BY <1>4, <2>5, <2>7, <2>8, RoundedIs, RoundedTo DEF Slack
<1>5. CASE head = "other"
  <2>1. /\ g.gross - g.tds \in Int /\ h.gross - h.tds \in Int /\ (h.gross - h.tds) - (g.gross - g.tds) \in -10..10
        /\ RoundMoney(g.gross) - RoundMoney(g.tds) \in Int
        /\ h.gross - h.tds = 10 * (RoundMoney(g.gross) - RoundMoney(g.tds))
    BY <1>1, <1>5 DEF Near
  <2>2. RoundMoney(g.gross - g.tds) - RoundMoney(h.gross - h.tds) \in -1..1
    BY <2>1, SumClose
  <2> QED
    BY <1>5, <2>1, <2>2, RoundedIs, RoundedTo DEF Slack, Derive, OtherNet
<1>6. CASE head = "gains"
  <2> DEFINE cost(r) == IF g.byIndex THEN r.indexed ELSE r.purchase + r.improvement
             gain(r) == r.sale - r.transfer - cost(r)
             whole == RoundMoney(g.sale) - RoundMoney(g.transfer)
                      - (IF g.byIndex THEN RoundMoney(g.indexed)
                         ELSE RoundMoney(g.purchase) + RoundMoney(g.improvement))
  <2>1. /\ gain(g) \in Int /\ gain(h) \in Int /\ gain(h) - gain(g) \in -20..20
        /\ whole \in Int /\ gain(h) = 10 * whole
    BY <1>1, <1>6 DEF Near
  <2>2. Derive(head, g) = Rounded(gain(g)) /\ Derive(head, h) = Rounded(gain(h))
    BY <1>2, <1>6 DEF Derive, GainAmount
  <2> HIDE DEF gain, whole
  <2>3. RoundMoney(gain(g)) - RoundMoney(gain(h)) \in -2..2
    BY <2>1, SumClose
  <2> QED
    BY <1>6, <2>1, <2>2, <2>3, RoundedIs, RoundedTo DEF Slack
<1>7. CASE head = "deduction"
  <2>1. g.claimed \in Int /\ h.claimed \in Int /\ RoundMoney(h.claimed) = RoundMoney(g.claimed)
    BY <1>1, <1>7, RoundedBack DEF Near, Exact
  <2> QED
    BY <1>7, <2>1, RoundedIs, RoundedTo DEF Slack, Derive
<1>8. CASE head = "loss"
  <2>1. /\ g.amount - g.setoff \in Int /\ h.amount - h.setoff \in Int
        /\ (h.amount - h.setoff) - (g.amount - g.setoff) \in -10..10
        /\ RoundMoney(g.amount) - RoundMoney(g.setoff) \in Int
        /\ h.amount - h.setoff = 10 * (RoundMoney(g.amount) - RoundMoney(g.setoff))
    BY <1>1, <1>8 DEF Near
  <2>2. RoundMoney(g.amount - g.setoff) - RoundMoney(h.amount - h.setoff) \in -1..1
    BY <2>1, SumClose
  <2> QED
    BY <1>8, <2>1, <2>2, RoundedTo DEF Slack, Derive, CarriedForward
<1>9. CASE head = "adjustment"
  <2>1. /\ g.tax - g.book \in Int /\ h.tax - h.book \in Int /\ (h.tax - h.book) - (g.tax - g.book) \in -10..10
        /\ RoundMoney(g.tax) - RoundMoney(g.book) \in Int
        /\ h.tax - h.book = 10 * (RoundMoney(g.tax) - RoundMoney(g.book))
    BY <1>1, <1>9 DEF Near
  <2>2. RoundMoney(g.tax - g.book) - RoundMoney(h.tax - h.book) \in -1..1
    BY <2>1, SumClose
  <2> QED
    BY <1>9, <2>1, <2>2, RoundedIs, RoundedTo DEF Slack, Derive, Difference
<1>10. CASE head \in {"exempt", "credit", "advance", "self"}
  BY <1>10, RoundedTo DEF Slack, Derive
<1> QED
  BY <1>3, <1>4, <1>5, <1>6, <1>7, <1>8, <1>9, <1>10 DEF Heads

(* What is recorded has the columns of its head; a row that was not deleted   *)
(* holds what follows from them.                                              *)
Formed(head, g) == Shaped(head, g) /\ (head = "loss" => SetOff(g))
EntrySound(row) ==
  \/ row = [head |-> "deleted"]
  \/ /\ DOMAIN row = {"head", "given", "derived"} /\ row.head \in Heads
     /\ Formed(row.head, row.given) /\ row.derived \in Int /\ Follows(row)

LEMMA EntryMade ==
  ASSUME NEW head \in Heads, NEW g, Shaped(head, g), head = "loss" => SetOff(Stored(g)),
         NEW row, DOMAIN row = {"head", "given", "derived"}, row.head = head,
         row.given = Stored(g), row.derived = RoundMoney(Derive(head, g))
  PROVE  EntrySound(row)
<1>1. Formed(head, row.given)
  BY ShapedStored DEF Formed
<1>2. row.derived \in Int /\ row.derived - RoundMoney(Derive(head, Loaded(row.given))) \in (0 - Slack[head])..Slack[head]
  BY DeriveClose
<1>3. Follows(row)
  BY <1>2 DEF Follows
<1> QED
  BY <1>1, <1>2, <1>3 DEF EntrySound

(* What a request knows, and what it knows besides when nobody overlaps it.   *)
OnComputation(q) == q.pc \in {"income", "rest", "credits", "figures", "move"}
TaxLoaded(q, kept) == (OnComputation(q) => q.id \in kept) /\ (q.pc = "entry" => q.id \in Entries)
TaxFresh(q, comps, entries) ==
  /\ OnComputation(q) => comps[q.id] # None /\ q.seen = comps[q.id]
  /\ q.pc \in {"income", "rest", "credits", "figures"} => q.seen.status \in Calculable
  /\ q.pc = "move" => Allows(ComputationMoves, q.seen.status, q.op)
  /\ q.pc = "computation" => \A c \in Computations : ~(comps[c] # None /\ comps[c].status # "CANCELLED")
  /\ q.pc = "entry" => /\ q.id \in Entries /\ entries[q.id] # None /\ q.seen = entries[q.id]
                       /\ q.seen.head \in Heads /\ Shaped(q.seen.head, q.args)
                       /\ q.seen.head = "loss" => SetOff(Stored(q.args))

TaxTables ==
  /\ DOMAIN comp = Computations /\ DOMAIN snap = Computations /\ DOMAIN entry = Entries
  /\ \A c \in Computations : IsSeq(snap[c]) /\ (comp[c] # None => Recorded(c))
TaxServed ==
  /\ \A c, d \in Active : c = d
  /\ \A c \in Active : comp[c].status # "DRAFT" => snap[c] # <<>>
  /\ \A e \in Entries : entry[e] # None => EntrySound(entry[e])

TaxInv ==
  /\ TaxTables
  /\ \A w \in Workers : TaxLoaded(worker[w], RecordedRows)
  /\ scene.serial => TaxServed /\ \A w \in Workers : TaxFresh(worker[w], comp, entry)

LEMMA TaxInvSound == TaxInv => TaxSound
<1> SUFFICES ASSUME TaxInv PROVE TaxSound
  OBVIOUS
<1>1. SnapshotsKept
  BY DEF TaxInv, TaxTables, Recorded, SnapshotsKept
<1>2. ASSUME scene.serial PROVE TaxOrderly
  <2>1. TaxServed
    BY <1>2 DEF TaxInv
  <2>2. Cardinality(Active) <= 1
    <3>1. PICK S : S = Active
      OBVIOUS
    <3>2. CASE S = {}
      BY <3>1, <3>2, FS_EmptySet
    <3>3. CASE S # {}
      <4>1. PICK c \in S : TRUE
        BY <3>3
      <4>2. S = {c}
        BY <2>1, <3>1, <4>1 DEF TaxServed
      <4> QED
        BY <3>1, <4>2, FS_Singleton
    <3> QED
      BY <3>2, <3>3
  <2>3. ASSUME NEW head \in Heads, NEW e \in Rows(head) PROVE Follows(entry[e])
    <3>1. e \in Entries /\ entry[e] # None /\ entry[e].head = head
      BY <2>3 DEF Rows
    <3>2. head # "deleted"
      BY <2>3 DEF Heads, Columns
    <3>3. EntrySound(entry[e])
      BY <2>1, <3>1 DEF TaxServed
    <3> HIDE DEF Derive, Follows
    <3> QED
      BY <3>1, <3>2, <3>3 DEF EntrySound
  <2>4. ASSUME NEW e \in Rows("loss") PROVE SetOff(entry[e].given)
    <3>1. e \in Entries /\ entry[e] # None /\ entry[e].head = "loss"
      BY <2>4 DEF Rows
    <3>2. EntrySound(entry[e])
      BY <2>1, <3>1 DEF TaxServed
    <3>3. Formed("loss", entry[e].given)
      <4> HIDE DEF Follows, Formed
      <4> QED
        BY <3>1, <3>2 DEF EntrySound
    <3> QED
      BY <3>3 DEF Formed
  <2> QED
    BY <2>1, <2>2, <2>3, <2>4 DEF TaxServed, TaxOrderly
<1> QED
  BY <1>1, <1>2 DEF TaxSound

LEMMA TaxIdle ==
  ASSUME NEW q, q.pc = "idle" \/ q.pc \in AuditPC \cup ImportPC, NEW kept, NEW comps, NEW entries
  PROVE  TaxLoaded(q, kept) /\ TaxFresh(q, comps, entries)
BY DEF AuditPC, ImportPC, TaxLoaded, TaxFresh, OnComputation

(* A step that reads.                                                         *)
LEMMA TaxRead ==
  ASSUME TaxInv, NEW w \in Workers, NEW pcs, Turn(w, pcs), UNCHANGED <<comp, snap, entry>>,
         TaxLoaded(worker'[w], RecordedRows), scene.serial => TaxFresh(worker'[w], comp, entry)
  PROVE  TaxInv'
<1>1. RecordedRows' = RecordedRows /\ TaxTables'
  BY DEF TaxInv, TaxTables, RecordedRows, Recorded
<1>2. scene.serial => TaxServed'
  BY DEF TaxInv, TaxServed, Active
<1>3. ASSUME NEW v \in Workers
      PROVE  TaxLoaded(worker'[v], RecordedRows) /\ (scene.serial => TaxFresh(worker'[v], comp, entry))
  BY DEF TaxInv, Turn
<1>4. scene' = scene
  BY DEF Turn
<1> QED
  BY <1>1, <1>2, <1>3, <1>4 DEF TaxInv

(* A step that writes ends its request.                                       *)
LEMMA TaxWrite ==
  ASSUME DeskInv, TaxInv, NEW w \in Workers, NEW pcs, Turn(w, pcs), worker'[w].pc = "idle",
         TaxTables', RecordedRows \subseteq RecordedRows', scene.serial => TaxServed'
  PROVE  TaxInv'
<1>1. ASSUME NEW v \in Workers PROVE TaxLoaded(worker'[v], RecordedRows')
  <2>1. CASE v = w
    BY <2>1, TaxIdle
  <2>2. CASE v # w
    <3>1. TaxLoaded(worker[v], RecordedRows) /\ worker'[v] = worker[v]
      BY <2>2 DEF TaxInv, Turn
    <3> QED
      BY <3>1 DEF TaxLoaded
  <2> QED
    BY <2>1, <2>2
<1>2. ASSUME NEW v \in Workers, scene.serial PROVE TaxFresh(worker'[v], comp', entry')
  <2>1. worker'[v].pc = "idle"
    BY <1>2 DEF Turn, Alone
  <2> QED
    BY <2>1, TaxIdle
<1>3. scene' = scene
  BY DEF Turn
<1> QED
  BY <1>1, <1>2, <1>3 DEF TaxInv

LEMMA TaxInitInv == Init => TaxInv
<1> SUFFICES ASSUME Init PROVE TaxInv
  OBVIOUS
<1> USE DEF Init, TaxInit, DeskInit
<1>1. \A w \in Workers : TaxLoaded(worker[w], RecordedRows) /\ TaxFresh(worker[w], comp, entry)
  BY TaxIdle, IdleQuery
<1>2. IsSeq(<<>>)
  BY DEF IsSeq
<1>3. TaxTables /\ TaxServed
  BY <1>2 DEF TaxTables, TaxServed, Active
<1> QED
  BY <1>1, <1>3 DEF TaxInv

(* Requests about the profile, bank accounts, ledgers and the preparation.    *)
LEMMA SettingsInv ==
  ASSUME DeskInv, TaxInv, NEW w \in Workers, SetProfile(w) \/ SetBankAccount(w) \/ Classify(w)
  PROVE  Turn(w, TaxPC) /\ TaxInv'
<1>1. Free(w) /\ UNCHANGED deskVars /\ UNCHANGED <<comp, snap, entry>>
  BY DEF SetProfile, SetBankAccount, Classify, Asked
<1>2. Turn(w, TaxPC) /\ worker'[w].pc = "idle"
  BY <1>1, StayTurn
<1> QED
  BY <1>1, <1>2, TaxIdle, TaxRead

LEMMA PreparationStepInv ==
  ASSUME DeskInv, TaxInv, NEW w \in Workers,
         AskPreparation(w) \/ CreatePreparation(w) \/ LoadPreparation(w) \/ ReadIssues(w) \/ MovePreparation(w)
  PROVE  Turn(w, TaxPC) /\ TaxInv'
<1> DEFINE Pcs == {"preparation", "issues", "status"}
<1>1. UNCHANGED <<comp, snap, entry>>
  BY DEF AskPreparation, CreatePreparation, LoadPreparation, ReadIssues, MovePreparation, taxVars
<1>2. Turn(w, TaxPC) /\ worker'[w].pc \in Pcs \cup {"idle"}
  <2>1. CASE AskPreparation(w)
    <3>0. PICK c \in Computations : \E form : Serve(w, "preparation", "create", c, form, None)
      BY <2>1, Zenon DEF AskPreparation
    <3>1. PICK form : Serve(w, "preparation", "create", c, form, None)
      BY <3>0
    <3>2. Turn(w, TaxPC)
          /\ worker'[w] = [pc |-> "preparation", op |-> "create", id |-> c, args |-> form, seen |-> None]
      BY <2>1, <3>1, ServeTurn DEF TaxPC, AskPreparation, Asked
    <3> QED
      BY <3>2
  <2>2. CASE LoadPreparation(w)
    <3>1. PICK c \in Computations, op \in {"validate"} \cup {m[2] : m \in PreparationMoves} :
            /\ Free(w)
            /\ Serve(w, IF op \in {"validate", "approve"} THEN "issues" ELSE "status", op, c, None, prep[c])
      BY <2>2 DEF LoadPreparation, Asked
    <3>2. PICK pc \in {"issues", "status"} : pc = IF op \in {"validate", "approve"} THEN "issues" ELSE "status"
      OBVIOUS
    <3>3. Turn(w, TaxPC) /\ worker'[w] = [pc |-> pc, op |-> op, id |-> c, args |-> None, seen |-> prep[c]]
      BY <3>1, <3>2, ServeTurn DEF TaxPC
    <3> QED
      BY <3>3
  <2>3. CASE ReadIssues(w)
    <3>1. PICK p : p = [worker[w] EXCEPT !.pc = "status", !.args = hasBank]
      OBVIOUS
    <3>2. worker[w].pc = "issues" /\ Carries(w, p)
      BY <2>3, <3>1, Zenon DEF ReadIssues, Carries
    <3>3. IsQuery(p) /\ p.pc = "status"
      BY <3>1 DEF IsQuery, DeskInv
    <3> QED
      BY <3>2, <3>3, CarryTurn DEF TaxPC
  <2>4. CASE CreatePreparation(w) \/ MovePreparation(w)
    <3>1. worker[w].pc # "idle" /\ Done(w)
      BY <2>4 DEF CreatePreparation, MovePreparation
    <3> QED
      BY <3>1, DoneTurn, IdleQuery
  <2> QED
    BY <2>1, <2>2, <2>3, <2>4
<1>3. TaxLoaded(worker'[w], RecordedRows) /\ TaxFresh(worker'[w], comp, entry)
  BY <1>2 DEF TaxLoaded, TaxFresh, OnComputation
<1> QED
  BY <1>1, <1>2, <1>3, TaxRead

(* What is recorded under a head.                                             *)
LEMMA EntryStep ==
  ASSUME DeskInv, TaxInv, NEW w \in Workers, NEW pcs, Turn(w, pcs), worker'[w].pc = "idle", UNCHANGED <<comp, snap>>,
         NEW e \in Entries, NEW row, entry' = [entry EXCEPT ![e] = row], scene.serial => EntrySound(row)
  PROVE  TaxInv'
<1>1. RecordedRows' = RecordedRows /\ TaxTables'
  BY DEF TaxInv, TaxTables, RecordedRows, Recorded
<1>2. scene.serial => TaxServed'
  BY DEF TaxInv, TaxTables, TaxServed, Active
<1> QED
  BY <1>1, <1>2, TaxWrite

LEMMA EntryRowSound ==
  ASSUME NEW head \in Heads, NEW g \in Payloads[head]
  PROVE  EntrySound(EntryRow(head, g))
<1>1. Shaped(head, g)
  BY TaxAssumption DEF Shaped
<1>2. ASSUME head = "loss" PROVE SetOff(Stored(g))
  <2>1. g.setoff = 0 /\ "setoff" \in DOMAIN g
    BY <1>1, <1>2, TaxAssumption DEF Shaped, Columns
  <2>2. Stored(g).setoff = 0
    BY <2>1 DEF Stored, NotMoney, RoundMoney
  <2> QED
    BY <2>2 DEF SetOff
<1>3. PICK given, d : given = Stored(g) /\ d = RoundMoney(Derive(head, g))
  OBVIOUS
<1>4. PICK row : row = [head |-> head, given |-> given, derived |-> d]
  OBVIOUS
<1>5. EntryRow(head, g) = row
  BY <1>3, <1>4, Zenon DEF EntryRow
<1>6. DOMAIN row = {"head", "given", "derived"} /\ row.head = head /\ row.given = given /\ row.derived = d
  BY <1>4
<1> QED
  BY <1>1, <1>2, <1>3, <1>5, <1>6, EntryMade

LEMMA CreateEntryInv ==
  ASSUME DeskInv, TaxInv, NEW w \in Workers, NEW head \in Heads, CreateEntry(w, head)
  PROVE  Turn(w, TaxPC) /\ TaxInv'
<1>1. Turn(w, TaxPC) /\ worker'[w].pc = "idle" /\ UNCHANGED <<comp, snap>>
  BY StayTurn DEF CreateEntry, Asked
<1>2. PICK e \in Entries, g \in Payloads[head] : entry' = [entry EXCEPT ![e] = EntryRow(head, g)]
  BY Zenon DEF CreateEntry
<1>3. PICK row : row = EntryRow(head, g)
  OBVIOUS
<1>4. EntrySound(row)
  BY <1>3, EntryRowSound
<1>5. entry' = [entry EXCEPT ![e] = row]
  BY <1>2, <1>3, Zenon
<1> QED
  BY <1>1, <1>4, <1>5, EntryStep

LEMMA DeleteEntryInv ==
  ASSUME DeskInv, TaxInv, NEW w \in Workers, NEW head, DeleteEntry(w, head)
  PROVE  Turn(w, TaxPC) /\ TaxInv'
<1>1. Turn(w, TaxPC) /\ worker'[w].pc = "idle" /\ UNCHANGED <<comp, snap>>
  BY StayTurn DEF DeleteEntry, Asked
<1>2. PICK row : row = [head |-> "deleted"]
  OBVIOUS
<1>3. PICK e \in Entries : entry' = [entry EXCEPT ![e] = row]
  BY <1>2, Zenon DEF DeleteEntry, Rows
<1>4. EntrySound(row)
  BY <1>2 DEF EntrySound
<1> QED
  BY <1>1, <1>3, <1>4, EntryStep

LEMMA RevisionFormed ==
  ASSUME NEW head \in Heads, NEW given, Formed(head, given), NEW g \in Revisions(head, Loaded(given))
  PROVE  Shaped(head, g) /\ (head = "loss" => SetOff(Stored(g)))
<1> DEFINE old == Loaded(given)
<1>1. DOMAIN given = Columns[head] /\ DOMAIN old = Columns[head]
  BY DEF Formed, Shaped, Loaded
<1>2. \A c \in Columns[head] \ NotMoney : old[c] \in Int /\ old[c] = 10 * given[c] /\ given[c] \in Int
  BY <1>1 DEF Formed, Shaped, Loaded, Exact
<1> HIDE DEF old
<1>3. CASE head = "loss"
  <2>1. PICK n \in 0..old.amount : g = [old EXCEPT !.setoff = n]
    BY <1>3 DEF Revisions, old
  <2>2. /\ Columns[head] = {"amount", "setoff"} /\ Columns[head] \ NotMoney = {"amount", "setoff"}
    BY <1>3 DEF Columns, NotMoney
  <2>3. old.amount \in Int /\ old.amount = 10 * given.amount /\ given.amount \in Int
    BY <1>2, <2>2
  <2>4. DOMAIN g = {"amount", "setoff"} /\ g.amount = old.amount /\ g.setoff = n /\ n \in Int
    BY <1>1, <2>1, <2>2, <2>3
  <2>5. g = [c \in Columns[head] |-> g[c]]
    BY <1>1, <2>1, <2>2
  <2>6. Shaped(head, g)
    BY <2>2, <2>3, <2>4, <2>5 DEF Shaped
  <2>7. Stored(g).amount = RoundMoney(g.amount) /\ Stored(g).setoff = RoundMoney(n)
    BY <2>4 DEF Stored, NotMoney
  <2>8. RoundMoney(g.amount) = given.amount
    BY <2>3, <2>4, RoundedBack DEF Exact
  <2>9. RoundMoney(n) \in 0..given.amount
    BY <2>1, <2>3 DEF RoundMoney
  <2> QED
    BY <2>3, <2>6, <2>7, <2>8, <2>9 DEF SetOff
<1>4. CASE head # "loss"
  <2>1. PICK p \in Payloads[head], set \in Patched[head] : g = [c \in DOMAIN old |-> IF c \in set THEN p[c] ELSE old[c]]
    BY <1>4 DEF Revisions, old
  <2>2. \A c \in Columns[head] \ NotMoney : p[c] \in Int
    BY TaxAssumption
  <2>3. g = [c \in Columns[head] |-> g[c]]
    BY <1>1, <2>1
  <2>4. \A c \in Columns[head] \ NotMoney : g[c] \in Int
    BY <1>1, <1>2, <2>1, <2>2
  <2> QED
    BY <1>4, <2>3, <2>4 DEF Shaped
<1> QED
  BY <1>3, <1>4

LEMMA AskUpdateInv ==
  ASSUME DeskInv, TaxInv, NEW w \in Workers, NEW head \in Heads, AskUpdate(w, head)
  PROVE  Turn(w, TaxPC) /\ TaxInv'
<1>1. PICK e \in Rows(head) : \E g \in Revisions(head, Loaded(entry[e].given)) : Serve(w, "entry", "update", e, g, entry[e])
  BY Zenon DEF AskUpdate
<1>2. PICK g \in Revisions(head, Loaded(entry[e].given)) : Serve(w, "entry", "update", e, g, entry[e])
  BY <1>1
<1>3. Free(w) /\ UNCHANGED <<comp, snap, entry>>
  BY DEF AskUpdate, Asked, taxVars
<1>4. Turn(w, TaxPC) /\ worker'[w] = [pc |-> "entry", op |-> "update", id |-> e, args |-> g, seen |-> entry[e]]
  BY <1>2, <1>3, ServeTurn DEF TaxPC
<1>5. e \in Entries /\ entry[e] # None /\ entry[e].head = head
  BY DEF Rows
<1>6. ASSUME scene.serial PROVE Shaped(head, g) /\ (head = "loss" => SetOff(Stored(g)))
  <2>1. EntrySound(entry[e])
    BY <1>5, <1>6 DEF TaxInv, TaxServed
  <2>2. Formed(head, entry[e].given)
    <3> HIDE DEF Follows, Formed
    <3> QED
      BY <1>5, <2>1 DEF EntrySound, Heads, Columns
  <2> QED
    BY <2>2, RevisionFormed
<1>7. TaxLoaded(worker'[w], RecordedRows) /\ (scene.serial => TaxFresh(worker'[w], comp, entry))
  BY <1>4, <1>5, <1>6 DEF TaxLoaded, TaxFresh, OnComputation
<1> QED
  BY <1>3, <1>4, <1>7, TaxRead

(* What an update writes when nobody wrote in between.                        *)
LEMMA StoredAlone ==
  ASSUME NEW head \in Heads, NEW old, Shaped(head, old), NEW new, Shaped(head, new)
  PROVE  StoredOver(new, old, old) = Stored(new)
<1>1. DOMAIN old = Columns[head] /\ DOMAIN new = Columns[head]
  BY DEF Shaped
<1>2. ASSUME NEW c \in Columns[head], new[c] = Loaded(old)[c] PROVE old[c] = Stored(new)[c]
  <2>1. CASE c \in NotMoney
    BY <1>1, <1>2, <2>1 DEF Loaded, Stored
  <2>2. CASE c \notin NotMoney
    <3>1. old[c] \in Int /\ new[c] = Exact(old[c]) /\ Stored(new)[c] = RoundMoney(new[c])
      BY <1>1, <1>2, <2>2 DEF Loaded, Stored, Shaped
    <3> QED
      BY <3>1, RoundedBack
  <2> QED
    BY <2>1, <2>2
<1>3. StoredOver(new, old, old) = [c \in Columns[head] |-> IF new[c] = Loaded(old)[c] THEN old[c] ELSE Stored(new)[c]]
  BY <1>1 DEF StoredOver
<1>4. Stored(new) = [c \in Columns[head] |-> Stored(new)[c]]
  BY <1>1 DEF Stored
<1> QED
  BY <1>2, <1>3, <1>4

LEMMA WriteUpdateInv ==
  ASSUME DeskInv, TaxInv, NEW w \in Workers, NEW head \in Heads, WriteUpdate(w, head)
  PROVE  Turn(w, TaxPC) /\ TaxInv'
<1>1. PICK q : q = worker[w]
  OBVIOUS
<1>2. PICK e, old : e = q.id /\ old = entry[e]
  OBVIOUS
<1>3. PICK given : given = StoredOver(q.args, q.seen.given, old.given)
  OBVIOUS
<1>4. PICK derived : derived = IF Derive(head, q.args) = Exact(q.seen.derived) THEN old.derived
                               ELSE RoundMoney(Derive(head, q.args))
  OBVIOUS
<1>5. PICK row : row = [old EXCEPT !.given = given, !.derived = derived]
  OBVIOUS
<1>6. q.pc = "entry" /\ q.seen.head = head /\ Done(w) /\ UNCHANGED <<comp, snap>> /\ entry' = [entry EXCEPT ![e] = row]
  <2> HIDE DEF StoredOver, Derive
  <2> QED
    BY <1>1, <1>2, <1>3, <1>4, <1>5, Zenon DEF WriteUpdate
<1>7. Turn(w, TaxPC) /\ worker'[w].pc = "idle"
  BY <1>1, <1>6, DoneTurn, IdleQuery
<1>8. ASSUME scene.serial PROVE e \in Entries /\ EntrySound(row)
  <2>1. /\ e \in Entries /\ old # None /\ q.seen = old /\ Shaped(head, q.args) /\ EntrySound(old)
        /\ head = "loss" => SetOff(Stored(q.args))
    BY <1>1, <1>2, <1>6, <1>8 DEF TaxInv, TaxFresh, TaxServed
  <2>2. DOMAIN old = {"head", "given", "derived"} /\ old.head = head /\ Formed(head, old.given) /\ old.derived \in Int
    <3> HIDE DEF Follows, Formed
    <3> QED
      BY <1>6, <2>1 DEF EntrySound, Heads, Columns
  <2>3. given = Stored(q.args)
    BY <1>3, <2>1, <2>2, StoredAlone DEF Formed
  <2>4. derived = RoundMoney(Derive(head, q.args))
    BY <1>4, <2>1, <2>2, RoundedBack
  <2>5. DOMAIN row = {"head", "given", "derived"} /\ row.head = head /\ row.given = given /\ row.derived = derived
    BY <1>5, <2>2
  <2> QED
    BY <2>1, <2>3, <2>4, <2>5, EntryMade
<1>9. e \in Entries
  BY <1>1, <1>2, <1>6 DEF TaxInv, TaxLoaded
<1> QED
  BY <1>6, <1>7, <1>8, <1>9, EntryStep

(* A step that writes one computation.                                        *)
LEMMA ComputationStep ==
  ASSUME DeskInv, TaxInv, NEW w \in Workers, NEW pcs, Turn(w, pcs), worker'[w].pc = "idle", UNCHANGED entry,
         NEW c \in Computations, NEW row, NEW s, comp' = [comp EXCEPT ![c] = row],
         snap'[c] = s, \A d \in Computations \ {c} : snap'[d] = snap[d], DOMAIN snap' = Computations,
         IsSeq(s), IsComputation(row), row.fig = IF s = <<>> THEN [n \in FigureNames |-> 0] ELSE Last(s),
         scene.serial /\ row.status # "CANCELLED" => (\A d \in Active : d = c) /\ (row.status # "DRAFT" => s # <<>>)
  PROVE  TaxInv'
<1>1. /\ comp'[c] = row /\ DOMAIN comp' = Computations
      /\ \A d \in Computations : d # c => comp'[d] = comp[d] /\ snap'[d] = snap[d]
  BY DEF TaxInv, TaxTables
<1>2. Recorded(c)'
  BY <1>1 DEF Recorded
<1>3. ASSUME NEW d \in Computations, Recorded(d) PROVE Recorded(d)'
  <2>1. CASE d = c
    BY <1>2, <2>1
  <2>2. CASE d # c
    BY <1>1, <1>3, <2>2 DEF Recorded
  <2> QED
    BY <2>1, <2>2
<1>4. RecordedRows \subseteq RecordedRows'
  BY <1>3 DEF RecordedRows
<1>5. TaxTables'
  <2>1. ASSUME NEW d \in Computations PROVE IsSeq(snap'[d]) /\ (comp'[d] # None => Recorded(d)')
    <3>1. CASE d = c
      BY <1>2, <3>1
    <3>2. CASE d # c
      BY <1>1, <1>3, <3>2 DEF TaxInv, TaxTables
    <3> QED
      BY <3>1, <3>2
  <2> QED
    BY <1>1, <2>1 DEF TaxInv, TaxTables
<1>6. ASSUME scene.serial PROVE TaxServed'
  <2>1. TaxServed
    BY <1>6 DEF TaxInv
  <2>2. \A d \in Active' : d \in Computations /\ (d # c => d \in Active)
    BY <1>1 DEF Active
  <2>3. c \in Active' => row.status # "CANCELLED"
    BY <1>1 DEF Active
  <2>4. \A d, e \in Active' : d = e
    BY <1>6, <2>1, <2>2, <2>3 DEF TaxServed
  <2>5. \A d \in Active' : comp'[d].status # "DRAFT" => snap'[d] # <<>>
    BY <1>1, <1>6, <2>1, <2>2, <2>3 DEF TaxServed
  <2> QED
    BY <2>1, <2>4, <2>5 DEF TaxServed
<1> QED
  BY <1>4, <1>5, <1>6, TaxWrite

LEMMA CreateComputationInv ==
  ASSUME DeskInv, TaxInv, NEW w \in Workers, CreateComputation(w)
  PROVE  Turn(w, TaxPC) /\ TaxInv'
<1>1. PICK c \in Computations :
        comp[c] = None /\ snap[c] = <<>> /\ comp' = [comp EXCEPT ![c] = ComputationRow(worker[w].args)]
  BY DEF CreateComputation
<1>2. worker[w].pc = "computation" /\ Done(w) /\ UNCHANGED <<entry, snap>>
  BY DEF CreateComputation
<1>3. Turn(w, TaxPC) /\ worker'[w].pc = "idle"
  BY <1>2, DoneTurn, IdleQuery
<1>4. PICK row : row = ComputationRow(worker[w].args)
  OBVIOUS
<1>5. IsComputation(row) /\ row.fig = [n \in FigureNames |-> 0] /\ row.status = "DRAFT"
  BY <1>4 DEF ComputationRow, IsComputation
<1>6. comp' = [comp EXCEPT ![c] = row]
  BY <1>1, <1>4, Zenon
<1>7. scene.serial => \A d \in Active : d = c
  BY <1>2 DEF TaxInv, TaxFresh, Active
<1>8. snap'[c] = <<>> /\ (\A d \in Computations \ {c} : snap'[d] = snap[d]) /\ DOMAIN snap' = Computations
  BY <1>1, <1>2 DEF TaxInv, TaxTables
<1>9. IsSeq(<<>>)
  BY DEF IsSeq
<1> QED
  BY <1>2, <1>3, <1>5, <1>6, <1>7, <1>8, <1>9, ComputationStep

LEMMA WriteFiguresInv ==
  ASSUME DeskInv, TaxInv, NEW w \in Workers, WriteFigures(w)
  PROVE  Turn(w, TaxPC) /\ TaxInv'
<1>1. PICK q : q = worker[w]
  OBVIOUS
<1>2. PICK c, old : c = q.id /\ old = comp[c]
  OBVIOUS
<1>3. PICK figures, status : figures = Written(Figures(q.args), q.seen.fig, old.fig)
                             /\ status = Column(Outcome(q.args), q.seen.status, old.status)
  OBVIOUS
<1>4. PICK row : row = [old EXCEPT !.fig = figures, !.status = status]
  OBVIOUS
<1>5. PICK s : s = Append(snap[c], row.fig)
  OBVIOUS
<1>6. /\ q.pc = "figures" /\ Done(w) /\ UNCHANGED entry
      /\ comp' = [comp EXCEPT ![c] = row] /\ snap' = [snap EXCEPT ![c] = s]
  <2> HIDE DEF Written, Column, Figures, Outcome
  <2> QED
    BY <1>1, <1>2, <1>3, <1>4, <1>5, Zenon DEF WriteFigures
<1>7. Turn(w, TaxPC) /\ worker'[w].pc = "idle"
  BY <1>1, <1>6, DoneTurn, IdleQuery
<1>8. c \in Computations /\ IsComputation(old)
  BY <1>1, <1>2, <1>6 DEF TaxInv, TaxLoaded, OnComputation, RecordedRows, Recorded
<1>9. IsComputation(row)
  BY <1>4, <1>8 DEF IsComputation
<1>10. IsSeq(s) /\ Last(s) = row.fig /\ s # <<>>
  <2>1. PICK t : t = snap[c]
    OBVIOUS
  <2>2. IsSeq(t)
    BY <1>8, <2>1 DEF TaxInv, TaxTables
  <2> QED
    BY <1>5, <2>1, <2>2, AppendSeq
<1>11. scene.serial => \A d \in Active : d = c
  <2> SUFFICES ASSUME scene.serial PROVE \A d \in Active : d = c
    OBVIOUS
  <2>1. TaxFresh(q, comp, entry) /\ TaxServed
    BY <1>1 DEF TaxInv
  <2>2. c \in Active
    BY <1>2, <1>6, <1>8, <2>1 DEF TaxFresh, OnComputation, Active, Calculable
  <2> QED
    BY <2>1, <2>2 DEF TaxServed
<1>12. snap'[c] = s /\ (\A d \in Computations \ {c} : snap'[d] = snap[d]) /\ DOMAIN snap' = Computations
  BY <1>6, <1>8 DEF TaxInv, TaxTables
<1> QED
  BY <1>6, <1>7, <1>8, <1>9, <1>10, <1>11, <1>12, ComputationStep

LEMMA MoveComputationInv ==
  ASSUME DeskInv, TaxInv, NEW w \in Workers, MoveComputation(w)
  PROVE  Turn(w, TaxPC) /\ TaxInv'
<1>1. PICK q : q = worker[w]
  OBVIOUS
<1>2. PICK c, old : c = q.id /\ old = comp[c]
  OBVIOUS
<1>3. PICK to : to = Target(ComputationMoves, q.seen.status, q.op)
  OBVIOUS
<1>4. PICK row : row = [old EXCEPT !.status = to]
  OBVIOUS
<1>5. q.pc = "move" /\ Done(w) /\ UNCHANGED <<entry, snap>> /\ comp' = [comp EXCEPT ![c] = row]
  BY <1>1, <1>2, <1>3, <1>4, Zenon DEF MoveComputation
<1>6. Turn(w, TaxPC) /\ worker'[w].pc = "idle"
  BY <1>1, <1>5, DoneTurn, IdleQuery
<1>7. c \in Computations /\ Recorded(c)
  BY <1>1, <1>2, <1>5 DEF TaxInv, TaxLoaded, OnComputation, RecordedRows
<1>8. IsComputation(row) /\ row.fig = old.fig /\ row.status = to
  BY <1>2, <1>4, <1>7 DEF IsComputation, Recorded
<1>9. ASSUME scene.serial, to # "CANCELLED" PROVE (\A d \in Active : d = c) /\ snap[c] # <<>>
  <2>1. TaxFresh(q, comp, entry) /\ TaxServed
    BY <1>1, <1>9 DEF TaxInv
  <2>2. old # None /\ q.seen = old /\ Allows(ComputationMoves, old.status, q.op)
    BY <1>2, <1>5, <2>1 DEF TaxFresh, OnComputation
  <2>3. PICK st, op : st = old.status /\ op = q.op
    OBVIOUS
  <2>4. to = Target(ComputationMoves, st, op) /\ Allows(ComputationMoves, st, op)
    BY <1>3, <2>2, <2>3
  <2>5. (st = "DRAFT" => to = "CANCELLED") /\ st \notin {"LOCKED", "CANCELLED"}
    BY <2>4, ComputationTarget
  <2>6. c \in Active /\ st # "DRAFT"
    BY <1>2, <1>7, <1>9, <2>2, <2>3, <2>5 DEF Active
  <2> QED
    BY <1>2, <2>1, <2>3, <2>6 DEF TaxServed
<1>10. snap'[c] = snap[c] /\ (\A d \in Computations \ {c} : snap'[d] = snap[d]) /\ DOMAIN snap' = Computations
  BY <1>5 DEF TaxInv, TaxTables
<1>11. IsSeq(snap[c])
  BY <1>7 DEF TaxInv, TaxTables
<1>12. PICK s : s = snap[c]
  OBVIOUS
<1>13. row.fig = IF s = <<>> THEN [n \in FigureNames |-> 0] ELSE Last(s)
  BY <1>2, <1>7, <1>8, <1>12 DEF Recorded
<1> QED
  BY <1>5, <1>6, <1>7, <1>8, <1>9, <1>10, <1>11, <1>12, <1>13, ComputationStep

LEMMA AskComputationInv ==
  ASSUME DeskInv, TaxInv, NEW w \in Workers, AskComputation(w)
  PROVE  Turn(w, TaxPC) /\ TaxInv'
<1>1. PICK regime : Serve(w, "computation", "create", None, regime, None)
  BY Zenon DEF AskComputation
<1>2. Free(w) /\ Active = {} /\ UNCHANGED <<comp, snap, entry>>
  BY DEF AskComputation, Asked, taxVars
<1>3. /\ Turn(w, TaxPC)
      /\ worker'[w] = [pc |-> "computation", op |-> "create", id |-> None, args |-> regime, seen |-> None]
  BY <1>1, <1>2, ServeTurn DEF TaxPC
<1>4. TaxLoaded(worker'[w], RecordedRows) /\ TaxFresh(worker'[w], comp, entry)
  BY <1>2, <1>3 DEF TaxLoaded, TaxFresh, OnComputation, Active
<1> QED
  BY <1>2, <1>3, <1>4, TaxRead

LEMMA AskCalculateInv ==
  ASSUME DeskInv, TaxInv, NEW w \in Workers, AskCalculate(w)
  PROVE  Turn(w, TaxPC) /\ TaxInv'
<1>1. PICK c \in Computations :
        \E args : /\ comp[c] # None /\ comp[c].status \in Calculable
                  /\ Serve(w, "income", "calculate", c, args, comp[c])
  BY Zenon DEF AskCalculate
<1>2. PICK args : Serve(w, "income", "calculate", c, args, comp[c])
  BY <1>1
<1>3. Free(w) /\ UNCHANGED <<comp, snap, entry>>
  BY DEF AskCalculate, Asked, taxVars
<1>4. Turn(w, TaxPC) /\ worker'[w] = [pc |-> "income", op |-> "calculate", id |-> c, args |-> args, seen |-> comp[c]]
  BY <1>2, <1>3, ServeTurn DEF TaxPC
<1>5. c \in RecordedRows
  BY <1>1 DEF TaxInv, TaxTables, RecordedRows
<1>6. TaxLoaded(worker'[w], RecordedRows) /\ TaxFresh(worker'[w], comp, entry)
  BY <1>1, <1>4, <1>5 DEF TaxLoaded, TaxFresh, OnComputation
<1> QED
  BY <1>3, <1>4, <1>6, TaxRead

(* The SELECTs of a calculation.                                              *)
LEMMA CarryInv ==
  ASSUME DeskInv, TaxInv, NEW w \in Workers, worker[w].pc \in {"income", "rest", "credits"},
         NEW pc \in {"rest", "credits", "figures"}, NEW read, Carry(w, pc, read)
  PROVE  Turn(w, TaxPC) /\ TaxInv'
<1>1. PICK q : q = worker[w]
  OBVIOUS
<1>2. PICK args : args = Adding(read, q.args)
  OBVIOUS
<1>3. PICK p : p = [worker[w] EXCEPT !.pc = pc, !.args = args]
  OBVIOUS
<1>4. Carries(w, p) /\ UNCHANGED <<comp, snap, entry>>
  <2>1. worker' = [worker EXCEPT ![w] = p]
    BY <1>1, <1>2, <1>3, Zenon DEF Carry
  <2> QED
    BY <2>1 DEF Carry, Carries, taxVars
<1>5. IsQuery(q) /\ TaxLoaded(q, RecordedRows) /\ (scene.serial => TaxFresh(q, comp, entry))
  BY <1>1 DEF DeskInv, TaxInv
<1>6. IsQuery(p) /\ p.pc = pc /\ p.op = q.op /\ p.id = q.id /\ p.seen = q.seen
  BY <1>1, <1>3, <1>5 DEF IsQuery
<1>7. Turn(w, TaxPC) /\ worker'[w] = p
  BY <1>4, <1>6, CarryTurn DEF TaxPC
<1>8. TaxLoaded(p, RecordedRows) /\ (scene.serial => TaxFresh(p, comp, entry))
  BY <1>1, <1>5, <1>6 DEF TaxLoaded, TaxFresh, OnComputation
<1> QED
  BY <1>4, <1>7, <1>8, TaxRead

LEMMA CalculationReads ==
  ASSUME DeskInv, TaxInv, NEW w \in Workers, ReadIncome(w) \/ ReadRest(w) \/ ReadCredits(w)
  PROVE  Turn(w, TaxPC) /\ TaxInv'
<1>1. CASE ReadIncome(w)
  <2>1. worker[w].pc = "income"
    BY <1>1 DEF ReadIncome
  <2>2. \E read : Carry(w, "rest", read)
    BY <1>1, Zenon DEF ReadIncome
  <2>3. PICK read : Carry(w, "rest", read)
    BY <2>2, Zenon
  <2> QED
    BY <2>1, <2>3, CarryInv
<1>2. CASE ReadRest(w)
  <2>1. worker[w].pc = "rest"
    BY <1>2 DEF ReadRest
  <2>2. \E read : Carry(w, "credits", read)
    BY <1>2, Zenon DEF ReadRest
  <2>3. PICK read : Carry(w, "credits", read)
    BY <2>2, Zenon
  <2> QED
    BY <2>1, <2>3, CarryInv
<1>3. CASE ReadCredits(w)
  <2>1. worker[w].pc = "credits"
    BY <1>3 DEF ReadCredits
  <2>2. \E read : Carry(w, "figures", read)
    BY <1>3, Zenon DEF ReadCredits
  <2>3. PICK read : Carry(w, "figures", read)
    BY <2>2, Zenon
  <2> QED
    BY <2>1, <2>3, CarryInv
<1> QED
  BY <1>1, <1>2, <1>3

LEMMA LoadComputationInv ==
  ASSUME DeskInv, TaxInv, NEW w \in Workers, LoadComputation(w)
  PROVE  Turn(w, TaxPC) /\ TaxInv'
<1>1. PICK c \in Computations, op \in {m[2] : m \in ComputationMoves} :
        /\ Free(w) /\ comp[c] # None /\ Allows(ComputationMoves, comp[c].status, op)
        /\ Serve(w, "move", op, c, None, comp[c])
  BY DEF LoadComputation, Asked
<1>2. UNCHANGED <<comp, snap, entry>>
  BY DEF LoadComputation, taxVars
<1>3. Turn(w, TaxPC) /\ worker'[w] = [pc |-> "move", op |-> op, id |-> c, args |-> None, seen |-> comp[c]]
  BY <1>1, ServeTurn DEF TaxPC
<1>4. c \in RecordedRows
  BY <1>1 DEF TaxInv, TaxTables, RecordedRows
<1>5. TaxLoaded(worker'[w], RecordedRows) /\ TaxFresh(worker'[w], comp, entry)
  BY <1>1, <1>3, <1>4 DEF TaxLoaded, TaxFresh, OnComputation
<1> QED
  BY <1>2, <1>3, <1>5, TaxRead

LEMMA HeadRequestInv ==
  ASSUME DeskInv, TaxInv, NEW w \in Workers,
         NEW head \in Heads, CreateEntry(w, head) \/ Edit(w, head) \/ DeleteEntry(w, head)
  PROVE  Turn(w, TaxPC) /\ TaxInv'
BY CreateEntryInv, AskUpdateInv, WriteUpdateInv, DeleteEntryInv DEF Edit

LEMMA TaxRequestInv ==
  ASSUME DeskInv, TaxInv, NEW w \in Workers, TaxRequest(w)
  PROVE  Turn(w, TaxPC) /\ TaxInv'
<1>1. CASE \E head \in Heads : CreateEntry(w, head) \/ Edit(w, head) \/ DeleteEntry(w, head)
  <2>1. PICK head \in Heads : CreateEntry(w, head) \/ Edit(w, head) \/ DeleteEntry(w, head)
    BY <1>1
  <2> QED
    BY <2>1, HeadRequestInv, Zenon
<1>2. CASE \/ SetProfile(w) \/ SetBankAccount(w) \/ Classify(w)
           \/ AskComputation(w) \/ CreateComputation(w) \/ AskCalculate(w) \/ ReadIncome(w) \/ ReadRest(w)
           \/ ReadCredits(w) \/ WriteFigures(w) \/ LoadComputation(w) \/ MoveComputation(w)
           \/ AskPreparation(w) \/ CreatePreparation(w) \/ LoadPreparation(w) \/ ReadIssues(w) \/ MovePreparation(w)
  BY <1>2, SettingsInv, PreparationStepInv, AskComputationInv, CreateComputationInv, AskCalculateInv, CalculationReads,
     WriteFiguresInv, LoadComputationInv, MoveComputationInv, Zenon
<1>3. {"salary", "house", "other", "gains", "deduction", "exempt", "credit", "advance", "self", "loss", "adjustment"}
        \subseteq Heads
  BY DEF Heads, Columns
<1> QED
  BY <1>1, <1>2, <1>3 DEF TaxRequest, Salary, HouseProperty, OtherIncome, CapitalGain, Deduction, Loss, Adjustment,
    ExemptIncome, TaxCredit, AdvanceTax, SelfAssessmentTax

LEMMA TaxOther ==
  ASSUME TaxInv, NEW w \in Workers, NEW pcs, pcs \subseteq AuditPC \cup ImportPC, Turn(w, pcs), UNCHANGED taxVars
  PROVE  TaxInv'
<1>1. worker'[w].pc = "idle" \/ worker'[w].pc \in AuditPC \cup ImportPC
  BY DEF Turn
<1>2. UNCHANGED <<comp, snap, entry>>
  BY DEF taxVars
<1> QED
  BY <1>1, <1>2, TaxIdle, TaxRead

-------------------------------------------------------------------------------
(* The desks side by side.                                                    *)

Inv == DeskInv /\ AuditInv /\ TaxInv /\ ImportInv

LEMMA InitInv == Init => Inv
<1> SUFFICES ASSUME Init PROVE Inv
  OBVIOUS
<1>1. DeskInv
  BY IdleQuery DEF Init, DeskInit, DeskInv
<1> QED
  BY <1>1, AuditInitInv, TaxInitInv, ImportInitInv DEF Inv

(* A request that fails or is given up is rolled back.                        *)
LEMMA GiveUpInv ==
  ASSUME Inv, NEW w \in Workers, GiveUp(w)
  PROVE  Turn(w, {}) /\ AuditInv' /\ TaxInv' /\ ImportInv'
<1>1. Turn(w, {})
  BY DoneTurn DEF GiveUp, Abandon, Inv
<1>2. UNCHANGED auditVars /\ UNCHANGED taxVars /\ UNCHANGED importVars
  BY DEF GiveUp
<1> QED
  BY <1>1, <1>2, AuditOther, TaxOther, ImportOther DEF Inv

LEMMA RequestInv ==
  ASSUME Inv, NEW w \in Workers,
         \/ AuditRequest(w) /\ UNCHANGED <<taxVars, importVars>>
         \/ TaxRequest(w) /\ UNCHANGED <<auditVars, importVars>>
         \/ ImportRequest(w) /\ UNCHANGED <<auditVars, taxVars>>
         \/ GiveUp(w)
  PROVE  Inv'
<1> USE DEF Inv
<1>1. CASE AuditRequest(w) /\ UNCHANGED <<taxVars, importVars>>
  <2>1. Turn(w, AuditPC) /\ AuditInv'
    BY <1>1, AuditRequestInv
  <2>2. TaxInv' /\ ImportInv'
    BY <1>1, <2>1, TaxOther, ImportOther
  <2> QED
    BY <2>1, <2>2, TurnInv
<1>2. CASE TaxRequest(w) /\ UNCHANGED <<auditVars, importVars>>
  <2>1. Turn(w, TaxPC) /\ TaxInv'
    BY <1>2, TaxRequestInv
  <2>2. AuditInv' /\ ImportInv'
    BY <1>2, <2>1, AuditOther, ImportOther
  <2> QED
    BY <2>1, <2>2, TurnInv
<1>3. CASE ImportRequest(w) /\ UNCHANGED <<auditVars, taxVars>>
  <2>1. Turn(w, ImportPC) /\ ImportInv'
    BY <1>3, ImportRequestInv
  <2>2. AuditInv' /\ TaxInv'
    BY <1>3, <2>1, AuditOther, TaxOther
  <2> QED
    BY <2>1, <2>2, TurnInv
<1>4. CASE GiveUp(w)
  BY <1>4, GiveUpInv, TurnInv
<1> QED
  BY <1>1, <1>2, <1>3, <1>4

LEMMA StutterInv == Inv /\ UNCHANGED vars => Inv'
<1> SUFFICES ASSUME Inv, UNCHANGED vars PROVE Inv'
  OBVIOUS
<1> USE DEF vars, Inv
<1>1. DeskInv'
  BY DEF deskVars, DeskInv
<1>2. AuditInv'
  BY DEF deskVars, auditVars, AuditInv, AuditTypeOK, Founded, AuditSteps, Answered, Submitted, AuditNow, AuditDated
<1>3. TaxInv'
  BY DEF deskVars, taxVars, TaxInv, TaxTables, RecordedRows, Recorded, TaxServed, Active
<1>4. ImportInv'
  BY DEF deskVars, importVars, ImportInv
<1> QED
  BY <1>1, <1>2, <1>3, <1>4

LEMMA Invariance == Spec => []Inv
<1>1. Inv /\ [Next]_vars => Inv'
  <2>1. Inv /\ Next => Inv'
    BY RequestInv, Zenon DEF Next
  <2> QED
    BY <2>1, StutterInv
<1> QED
  BY <1>1, InitInv, PTL DEF Spec

(* Whatever requests overlap, an engagement is signed off, closed or locked   *)
(* only with the lead auditor's sign-off on record, and a finding that waits  *)
(* for a review has a response to review; served one at a time, every status  *)
(* agrees with the times noted beside it (the gates of                        *)
(* AuditEngagementService and AuditFindingService).                           *)
THEOREM AuditAlwaysSound == Spec => []AuditSound
<1>1. Inv => AuditSound
  BY DEF Inv, AuditInv, AuditSound
<1> QED
  BY <1>1, Invariance, PTL

(* The newest snapshot is what the row of its computation says, whatever      *)
(* requests overlap; served one at a time, one computation is active, none is *)
(* submitted before it was calculated, and every derived column follows from  *)
(* the others (IncomeTaxComputationService and the services of the heads).    *)
THEOREM TaxAlwaysSound == Spec => []TaxSound
<1>1. Inv => TaxSound
  BY TaxInvSound DEF Inv
<1> QED
  BY <1>1, Invariance, PTL

(* No row of a kind with a unique index becomes two records and the journals  *)
(* that an import makes balance, whatever commits overlap; served one at a    *)
(* time, a row becomes a record once, of rows staged as valid                 *)
(* (ImportService.commit).                                                    *)
THEOREM ImportsAlwaysSound == Spec => []ImportsSound
<1>1. Inv => ImportsSound
  BY ImportInvSound DEF Inv
<1> QED
  BY <1>1, Invariance, PTL

-------------------------------------------------------------------------------
(* What a step leaves of a decision.                                          *)

LEMMA EngagementWriters ==
  ASSUME NEW w \in Workers, AuditRequest(w)
  PROVE  CreateEngagement(w) \/ MoveEngagement(w) \/ Assign(w) \/ engagement' = engagement
<1>1. ASSUME \/ LoadEngagement(w) \/ GateFindings(w) \/ GateItems(w) \/ GateSignOffs(w) \/ AskSignOff(w)
             \/ RecordSignOff(w) \/ AskAssign(w) \/ Unassign(w)
      PROVE  engagement' = engagement
  BY <1>1 DEF LoadEngagement, GateFindings, GateItems, GateSignOffs, AskSignOff, RecordSignOff, AskAssign, Unassign,
    auditVars
<1>2. ASSUME \/ AskChecklist(w) \/ WriteChecklist(w) \/ LoadItem(w) \/ UpdateItem(w) \/ StartReview(w)
             \/ LoadReview(w) \/ EndReview(w)
      PROVE  engagement' = engagement
  BY <1>2 DEF AskChecklist, WriteChecklist, LoadItem, UpdateItem, StartReview, LoadReview, EndReview, auditVars
<1>3. ASSUME \/ AskFinding(w) \/ CreateFinding(w) \/ LoadFinding(w) \/ LoadForUpdate(w) \/ LoadForReview(w)
             \/ LoadResponse(w) \/ MoveFinding(w) \/ UpdateFinding(w) \/ ReviewResponse(w)
      PROVE  engagement' = engagement
  BY <1>3 DEF AskFinding, CreateFinding, LoadFinding, LoadForUpdate, LoadForReview, LoadResponse, MoveFinding,
    UpdateFinding, ReviewResponse, auditVars
<1> QED
  BY <1>1, <1>2, <1>3, Zenon DEF AuditRequest

LEMMA FindingWriters ==
  ASSUME NEW w \in Workers, AuditRequest(w)
  PROVE  \/ CreateFinding(w) \/ MoveFinding(w) \/ UpdateFinding(w) \/ ReviewResponse(w)
         \/ finding' = finding
<1>1. ASSUME \/ CreateEngagement(w) \/ LoadEngagement(w) \/ GateFindings(w) \/ GateItems(w) \/ GateSignOffs(w)
             \/ MoveEngagement(w) \/ AskSignOff(w) \/ RecordSignOff(w) \/ AskAssign(w) \/ Assign(w) \/ Unassign(w)
      PROVE  finding' = finding
  BY <1>1 DEF CreateEngagement, LoadEngagement, GateFindings, GateItems, GateSignOffs, MoveEngagement, AskSignOff,
    RecordSignOff, AskAssign, Assign, Unassign, auditVars
<1>2. ASSUME \/ AskChecklist(w) \/ WriteChecklist(w) \/ LoadItem(w) \/ UpdateItem(w) \/ StartReview(w)
             \/ LoadReview(w) \/ EndReview(w)
      PROVE  finding' = finding
  BY <1>2 DEF AskChecklist, WriteChecklist, LoadItem, UpdateItem, StartReview, LoadReview, EndReview, auditVars
<1>3. ASSUME AskFinding(w) \/ LoadFinding(w) \/ LoadForUpdate(w) \/ LoadForReview(w) \/ LoadResponse(w)
      PROVE  finding' = finding
  BY <1>3 DEF AskFinding, LoadFinding, LoadForUpdate, LoadForReview, LoadResponse, auditVars
<1> QED
  BY <1>1, <1>2, <1>3, Zenon DEF AuditRequest

LEMMA EngagementDecided ==
  ASSUME DeskInv, AuditInv, scene.serial, NEW w \in Workers, AuditRequest(w)
  PROVE  EngagementStands
<1>1. PICK q : q = worker[w]
  OBVIOUS
<1>2. AuditLoaded(q, AuditNow) /\ AuditFresh(q, AuditNow) /\ engagement \in AuditEngagement \cup {None}
  BY <1>1 DEF AuditInv, AuditTypeOK
<1>3. CASE MoveEngagement(w)
  <2>1. PICK to : to = Target(EngagementMoves, q.seen.status, q.op)
    OBVIOUS
  <2>2. q.pc = "engagement"
        /\ engagement' = IF q.op = "lock" THEN [engagement EXCEPT !.locked = TRUE]
                         ELSE [engagement EXCEPT !.status = to]
    BY <1>1, <1>3, <2>1 DEF MoveEngagement
  <2>3. /\ engagement # None /\ q.seen = engagement
        /\ q.op # "lock" => Allows(EngagementMoves, q.seen.status, q.op)
    BY <1>2, <2>2 DEF AuditLoaded, EngagementLoaded, AuditFresh, AuditNow, OnEngagement
  <2>4. q.op # "lock" => q.seen.status \notin {"CLOSED", "CANCELLED"}
    BY <2>3, EngagementTarget
  <2> QED
    BY <1>2, <2>2, <2>3, <2>4 DEF EngagementStands, AuditEngagement
<1>4. CASE Assign(w)
  <2>1. /\ q.pc = "assign"
        /\ engagement' = IF q.seen.status = "OPEN" THEN [engagement EXCEPT !.status = "ASSIGNED"] ELSE engagement
    BY <1>1, <1>4 DEF Assign
  <2>2. engagement # None /\ q.seen = engagement
    BY <1>2, <2>1 DEF AuditLoaded, EngagementLoaded, AuditFresh, AuditNow, OnEngagement
  <2> QED
    BY <1>2, <2>1, <2>2 DEF EngagementStands, AuditEngagement
<1>5. CASE CreateEngagement(w)
  BY <1>5 DEF CreateEngagement, EngagementStands
<1>6. CASE engagement' = engagement
  BY <1>6 DEF EngagementStands
<1> QED
  BY <1>3, <1>4, <1>5, <1>6, EngagementWriters

LEMMA FindingsDecided ==
  ASSUME DeskInv, AuditInv, scene.serial, NEW w \in Workers, AuditRequest(w)
  PROVE  FindingsStand
<1>1. PICK q : q = worker[w]
  OBVIOUS
<1>2. /\ AuditLoaded(q, AuditNow) /\ AuditFresh(q, AuditNow)
      /\ finding \in [Findings -> AuditFinding \cup {None}]
  BY <1>1 DEF AuditInv, AuditTypeOK
<1>3. ASSUME OnFinding(q), Allows(FindingMoves, q.seen.status, q.op), finding' = [finding EXCEPT ![q.id] = Moved(q, @)]
      PROVE  FindingsStand
  <2>1. PICK to : to = Target(FindingMoves, q.seen.status, q.op)
    OBVIOUS
  <2>2. /\ \A f \in Findings : f # q.id => finding'[f] = finding[f]
        /\ finding'[q.id].status = to
    BY <1>1, <1>3, <2>1, FindingMoved
  <2>3. q.seen = finding[q.id]
    BY <1>2, <1>3 DEF AuditFresh, AuditNow
  <2>4. q.seen.status = "CLOSED" => to = "REOPENED"
    BY <1>3, <2>1, FindingTarget
  <2> QED
    BY <2>2, <2>3, <2>4 DEF FindingsStand
<1>4. CASE MoveFinding(w)
  <2>1. q.pc = "finding" /\ finding' = [finding EXCEPT ![q.id] = Moved(q, @)]
    BY <1>1, <1>4, Zenon DEF MoveFinding
  <2>2. Allows(FindingMoves, q.seen.status, q.op) /\ OnFinding(q)
    BY <1>2, <2>1 DEF AuditLoaded, FindingLoaded, OnFinding
  <2> QED
    BY <1>3, <2>1, <2>2
<1>5. CASE ReviewResponse(w)
  <2>1. q.pc = "review" /\ IF Allows(FindingMoves, q.seen.status, q.op) THEN finding' = [finding EXCEPT ![q.id] = Moved(q, @)]
                           ELSE finding' = finding
    BY <1>1, <1>5, Zenon DEF ReviewResponse
  <2>2. CASE Allows(FindingMoves, q.seen.status, q.op)
    BY <1>3, <2>1, <2>2 DEF OnFinding
  <2>3. CASE ~Allows(FindingMoves, q.seen.status, q.op)
    BY <2>1, <2>3 DEF FindingsStand
  <2> QED
    BY <2>2, <2>3
<1>6. CASE UpdateFinding(w)
  <2>1. finding' = [finding EXCEPT ![q.id].heavy = Column(q.args, q.seen.heavy, @)]
    BY <1>1, <1>6 DEF UpdateFinding
  <2>2. PICK old, new : old = finding[q.id] /\ new = Column(q.args, q.seen.heavy, old.heavy)
    OBVIOUS
  <2>3. PICK row : row = [old EXCEPT !.heavy = new]
    OBVIOUS
  <2>4. finding' = [finding EXCEPT ![q.id] = row]
    BY <2>1, <2>2, <2>3, Zenon
  <2>5. old \in AuditFinding => row.status = old.status
    BY <2>3 DEF AuditFinding
  <2> QED
    BY <1>2, <2>2, <2>4, <2>5 DEF FindingsStand
<1>7. CASE CreateFinding(w)
  <2>1. PICK f \in Findings : finding[f] = None /\ finding' = [finding EXCEPT ![f] = worker[w].args]
    BY <1>7 DEF CreateFinding
  <2> QED
    BY <1>2, <2>1 DEF FindingsStand
<1>8. CASE finding' = finding
  BY <1>8 DEF FindingsStand
<1> QED
  BY <1>4, <1>5, <1>6, <1>7, <1>8, FindingWriters

(* Only a calculation adds to the snapshots of a computation.                 *)
SnapshotsGrow == \A c \in Computations : IsPrefix(snap[c], snap'[c])

LEMMA ComputationWriters ==
  ASSUME NEW w \in Workers, TaxRequest(w)
  PROVE  CreateComputation(w) \/ WriteFigures(w) \/ MoveComputation(w) \/ UNCHANGED <<comp, snap>>
<1>1. ASSUME NEW head, CreateEntry(w, head) \/ Edit(w, head) \/ DeleteEntry(w, head)
      PROVE  UNCHANGED <<comp, snap>>
  BY <1>1 DEF CreateEntry, Edit, AskUpdate, WriteUpdate, DeleteEntry, taxVars
<1>2. ASSUME \/ Salary(w) \/ HouseProperty(w) \/ OtherIncome(w) \/ CapitalGain(w) \/ Deduction(w) \/ Loss(w)
             \/ Adjustment(w) \/ ExemptIncome(w) \/ TaxCredit(w) \/ AdvanceTax(w) \/ SelfAssessmentTax(w)
      PROVE  UNCHANGED <<comp, snap>>
  <2>1. PICK head : CreateEntry(w, head) \/ Edit(w, head) \/ DeleteEntry(w, head)
    BY <1>2, Zenon DEF Salary, HouseProperty, OtherIncome, CapitalGain, Deduction, Loss, Adjustment, ExemptIncome,
      TaxCredit, AdvanceTax, SelfAssessmentTax
  <2> QED
    BY <1>1, <2>1
<1>3. ASSUME \/ SetProfile(w) \/ SetBankAccount(w) \/ Classify(w)
             \/ AskComputation(w) \/ AskCalculate(w) \/ ReadIncome(w) \/ ReadRest(w)
             \/ ReadCredits(w) \/ LoadComputation(w)
             \/ AskPreparation(w) \/ CreatePreparation(w) \/ LoadPreparation(w) \/ ReadIssues(w) \/ MovePreparation(w)
      PROVE  UNCHANGED <<comp, snap>>
  BY <1>3 DEF SetProfile, SetBankAccount, Classify, AskComputation, AskCalculate, ReadIncome, ReadRest, ReadCredits,
    LoadComputation, AskPreparation, CreatePreparation, LoadPreparation, ReadIssues, MovePreparation, Carry, taxVars
<1> QED
  BY <1>2, <1>3, Zenon DEF TaxRequest

LEMMA SnapshotsSame ==
  ASSUME TaxInv, UNCHANGED snap
  PROVE  SnapshotsGrow
<1> SUFFICES ASSUME NEW c \in Computations PROVE IsPrefix(snap[c], snap'[c])
  BY DEF SnapshotsGrow
<1>1. PICK s : s = snap[c]
  OBVIOUS
<1>2. IsSeq(s)
  BY <1>1 DEF TaxInv, TaxTables
<1> QED
  BY <1>1, <1>2, OwnPrefix

(* A column that is written keeps the figures of the rows of other requests.  *)
LEMMA ComputationDecided ==
  ASSUME DeskInv, TaxInv, NEW w \in Workers, TaxRequest(w)
  PROVE  SnapshotsGrow /\ (scene.serial => ComputationsStand)
<1>1. PICK q : q = worker[w]
  OBVIOUS
<1>2. TaxLoaded(q, RecordedRows) /\ (scene.serial => TaxFresh(q, comp, entry)) /\ TaxTables
  BY <1>1 DEF TaxInv
<1>3. PICK c, old : c = q.id /\ old = comp[c]
  OBVIOUS
<1>4. CASE WriteFigures(w)
  <2>1. PICK figures, status : figures = Written(Figures(q.args), q.seen.fig, old.fig)
                               /\ status = Column(Outcome(q.args), q.seen.status, old.status)
    OBVIOUS
  <2>2. PICK row : row = [old EXCEPT !.fig = figures, !.status = status]
    OBVIOUS
  <2>3. PICK s, t : s = snap[c] /\ t = Append(s, row.fig)
    OBVIOUS
  <2>4. q.pc = "figures" /\ comp' = [comp EXCEPT ![c] = row] /\ snap' = [snap EXCEPT ![c] = t]
    <3> HIDE DEF Written, Column, Figures, Outcome
    <3> QED
      BY <1>1, <1>3, <1>4, <2>1, <2>2, <2>3, Zenon DEF WriteFigures
  <2>5. c \in Computations /\ (scene.serial => old.status \in Calculable)
    BY <1>2, <1>3, <2>4 DEF TaxLoaded, TaxFresh, OnComputation, RecordedRows
  <2>6. IsPrefix(s, t)
    <3>1. IsSeq(s)
      BY <1>2, <2>3, <2>5 DEF TaxTables
    <3>2. PICK x : x = row.fig
      OBVIOUS
    <3> QED
      BY <2>3, <3>1, <3>2, AppendSeq
  <2>7. SnapshotsGrow
    <3> SUFFICES ASSUME NEW d \in Computations PROVE IsPrefix(snap[d], snap'[d])
      BY DEF SnapshotsGrow
    <3>1. CASE d = c
      BY <1>2, <2>3, <2>4, <2>5, <2>6, <3>1 DEF TaxTables
    <3>2. CASE d # c
      <4>1. PICK r : r = snap[d]
        OBVIOUS
      <4>2. IsSeq(r) /\ snap'[d] = r
        BY <1>2, <2>4, <3>2, <4>1 DEF TaxTables
      <4> QED
        BY <4>1, <4>2, OwnPrefix
    <3> QED
      BY <3>1, <3>2
  <2>8. scene.serial => ComputationsStand
    BY <1>2, <1>3, <2>4, <2>5 DEF TaxTables, ComputationsStand, Calculable
  <2> QED
    BY <2>7, <2>8
<1>5. CASE MoveComputation(w)
  <2>1. PICK to : to = Target(ComputationMoves, q.seen.status, q.op)
    OBVIOUS
  <2>2. PICK row : row = [old EXCEPT !.status = to]
    OBVIOUS
  <2>3. q.pc = "move" /\ UNCHANGED snap /\ comp' = [comp EXCEPT ![c] = row]
    BY <1>1, <1>3, <1>5, <2>1, <2>2, Zenon DEF MoveComputation
  <2>4. c \in Computations /\ Recorded(c)
    BY <1>2, <1>3, <2>3 DEF TaxLoaded, OnComputation, RecordedRows
  <2>5. row.fig = old.fig /\ row.status = to
    BY <1>3, <2>2, <2>4 DEF IsComputation, Recorded
  <2>6. ASSUME scene.serial PROVE (old.status = "APPROVED" => to = "LOCKED") /\ old.status \notin {"LOCKED", "CANCELLED"}
    <3>1. q.seen = old /\ Allows(ComputationMoves, q.seen.status, q.op)
      BY <1>2, <1>3, <2>3, <2>6 DEF TaxFresh, OnComputation
    <3>2. PICK st, op : st = old.status /\ op = q.op
      OBVIOUS
    <3>3. to = Target(ComputationMoves, st, op) /\ Allows(ComputationMoves, st, op)
      BY <2>1, <3>1, <3>2
    <3> QED
      BY <3>2, <3>3, ComputationTarget
  <2>7. scene.serial => ComputationsStand
    BY <1>2, <1>3, <2>3, <2>4, <2>5, <2>6 DEF TaxTables, ComputationsStand
  <2> QED
    BY <2>3, <2>7, SnapshotsSame
<1>6. CASE CreateComputation(w)
  <2>1. PICK d \in Computations : comp[d] = None /\ comp' = [comp EXCEPT ![d] = ComputationRow(worker[w].args)]
    BY <1>6 DEF CreateComputation
  <2>2. UNCHANGED snap
    BY <1>6 DEF CreateComputation
  <2>3. ComputationsStand
    BY <1>2, <2>1 DEF TaxTables, ComputationsStand
  <2> QED
    BY <2>2, <2>3, SnapshotsSame
<1>7. CASE UNCHANGED <<comp, snap>>
  BY <1>7, SnapshotsSame DEF ComputationsStand
<1> QED
  BY <1>4, <1>5, <1>6, <1>7, ComputationWriters

LEMMA ImportDecided ==
  ASSUME DeskInv, ImportInv, scene.serial, NEW w \in Workers, ImportRequest(w)
  PROVE  ImportsStand
<1>1. PICK q : q = worker[w]
  OBVIOUS
<1>2. ImportLoaded(q, job) /\ ImportFresh(q, job) /\ job \in [Jobs -> ImportJob \cup {None}]
  BY <1>1 DEF ImportInv
<1>3. PICK j, row : j = q.id /\ row = job[j]
  OBVIOUS
<1>4. CASE WriteRecords(w)
  <2>1. q.pc = "records" /\ \A k \in Jobs : k # j => job'[k] = job[k]
    <3>1. PICK rows, s : job' = [job EXCEPT ![j].rows = rows, ![j].status = s]
      <4> HIDE DEF Column, AfterCommit
      <4> QED
        BY <1>1, <1>3, <1>4, Zenon DEF WriteRecords
    <3> QED
      BY <1>1, <1>2, <1>4, <3>1 DEF WriteRecords
  <2>2. row.status = "READY"
    BY <1>2, <1>3, <2>1 DEF ImportFresh, ImportPC
  <2> QED
    BY <1>3, <2>1, <2>2, SMTT(30) DEF ImportsStand, Finished
<1>5. CASE WriteCancel(w)
  <2>1. PICK s : s = Column("CANCELLED", q.seen.status, row.status)
    OBVIOUS
  <2>2. q.pc = "cancel" /\ job' = [job EXCEPT ![j].status = s]
    BY <1>1, <1>3, <1>5, <2>1, Zenon DEF WriteCancel
  <2>3. j \in Jobs /\ row # None /\ row \in ImportJob /\ q.seen = row /\ row.status \notin Finished
    BY <1>2, <1>3, <2>2 DEF ImportLoaded, ImportFresh, ImportPC
  <2>4. row.status = "CANCELLED" => s = row.status
    BY <2>1 DEF Column
  <2>5. row = [kind |-> row.kind, file |-> row.file, status |-> row.status, rows |-> row.rows]
    BY <2>3, JobColumns
  <2>6. row.status = "CANCELLED" => [row EXCEPT !.status = s] = row
    BY <2>4, <2>5
  <2>7. job' = [job EXCEPT ![j] = [row EXCEPT !.status = s]]
    BY <1>3, <2>2, Zenon
  <2> QED
    BY <1>2, <1>3, <2>3, <2>6, <2>7 DEF ImportsStand
<1>6. CASE CreateJob(w)
  <2>1. PICK k \in Jobs : \E new : job[k] = None /\ job' = [job EXCEPT ![k] = new]
    BY <1>6, Zenon DEF CreateJob
  <2> QED
    BY <1>2, <2>1 DEF ImportsStand
<1>7. CASE AskCommit(w) \/ ReadRows(w) \/ AskCancel(w)
  BY <1>7 DEF AskCommit, ReadRows, AskCancel, importVars, ImportsStand
<1> QED
  BY <1>4, <1>5, <1>6, <1>7, Zenon DEF ImportRequest

LEMMA SceneKept == ASSUME Next, Inv PROVE scene' = scene
<1>1. PICK w \in Workers :
        \/ AuditRequest(w) /\ UNCHANGED <<taxVars, importVars>>
        \/ TaxRequest(w) /\ UNCHANGED <<auditVars, importVars>>
        \/ ImportRequest(w) /\ UNCHANGED <<auditVars, taxVars>>
        \/ GiveUp(w)
  BY Zenon DEF Next
<1>2. \E pcs : Turn(w, pcs)
  BY <1>1, AuditRequestInv, TaxRequestInv, ImportRequestInv, GiveUpInv DEF Inv
<1> QED
  BY <1>2 DEF Turn

(* The SELECTs of a calculation, and the steps that decide about a             *)
(* preparation.                                                               *)
Calculating == {"income", "rest", "credits", "figures"}
OnPreparation == {"issues", "status"}

(* Where a step of an income tax request leaves its worker.                   *)
PreparationStep(w) ==
  AskPreparation(w) \/ CreatePreparation(w) \/ LoadPreparation(w) \/ ReadIssues(w) \/ MovePreparation(w)
CalculationStep(w) == AskCalculate(w) \/ ReadIncome(w) \/ ReadRest(w) \/ ReadCredits(w) \/ WriteFigures(w)

LEMMA TaxPlaces ==
  ASSUME DeskInv, NEW w \in Workers, TaxRequest(w)
  PROVE  \/ PreparationStep(w) \/ CalculationStep(w)
         \/ UNCHANGED <<prep, snap>> /\ worker'[w].pc \in {"idle", "entry", "computation", "move"}
<1> DEFINE Left(pc) == UNCHANGED <<prep, snap>> /\ pc \in {"idle", "entry", "computation", "move"}
<1>1. ASSUME Free(w), UNCHANGED deskVars PROVE worker'[w].pc = "idle"
  BY <1>1 DEF Free, deskVars
<1>2. ASSUME Done(w) PROVE worker'[w].pc = "idle"
  BY <1>2, IdleQuery DEF Done, DeskInv
<1>3. ASSUME NEW pc, NEW op, NEW id, NEW args, NEW seen, Serve(w, pc, op, id, args, seen)
      PROVE  worker'[w].pc = pc
  BY <1>3 DEF Serve, DeskInv
<1>4. ASSUME NEW head, CreateEntry(w, head) \/ Edit(w, head) \/ DeleteEntry(w, head)
      PROVE  Left(worker'[w].pc)
  <2>1. CASE CreateEntry(w, head) \/ DeleteEntry(w, head)
    BY <1>1, <2>1 DEF CreateEntry, DeleteEntry, Asked
  <2>2. CASE AskUpdate(w, head)
    <3>1. \E e, g : Serve(w, "entry", "update", e, g, entry[e])
      BY <2>2, Zenon DEF AskUpdate
    <3> QED
      BY <1>3, <2>2, <3>1 DEF AskUpdate, taxVars
  <2>3. CASE WriteUpdate(w, head)
    BY <1>2, <2>3 DEF WriteUpdate
  <2> QED
    BY <1>4, <2>1, <2>2, <2>3 DEF Edit
<1>5. ASSUME \/ Salary(w) \/ HouseProperty(w) \/ OtherIncome(w) \/ CapitalGain(w) \/ Deduction(w) \/ Loss(w)
             \/ Adjustment(w) \/ ExemptIncome(w) \/ TaxCredit(w) \/ AdvanceTax(w) \/ SelfAssessmentTax(w)
      PROVE  Left(worker'[w].pc)
  <2>1. PICK head : CreateEntry(w, head) \/ Edit(w, head) \/ DeleteEntry(w, head)
    BY <1>5, Zenon DEF Salary, HouseProperty, OtherIncome, CapitalGain, Deduction, Loss, Adjustment, ExemptIncome,
      TaxCredit, AdvanceTax, SelfAssessmentTax
  <2> QED
    BY <1>4, <2>1
<1>6. ASSUME SetProfile(w) \/ SetBankAccount(w) \/ Classify(w)
      PROVE  Left(worker'[w].pc)
  BY <1>1, <1>6 DEF SetProfile, SetBankAccount, Classify, Asked
<1>7. ASSUME CreateComputation(w) \/ MoveComputation(w)
      PROVE  Left(worker'[w].pc)
  BY <1>2, <1>7 DEF CreateComputation, MoveComputation
<1>8. ASSUME AskComputation(w) \/ LoadComputation(w)
      PROVE  Left(worker'[w].pc)
  <2>1. \E pc \in {"computation", "move"} : \E op, id, args, seen : Serve(w, pc, op, id, args, seen)
    BY <1>8, Zenon DEF AskComputation, LoadComputation
  <2> QED
    BY <1>3, <1>8, <2>1 DEF AskComputation, LoadComputation, taxVars
<1> HIDE DEF Left
<1>9. PreparationStep(w) \/ CalculationStep(w) \/ Left(worker'[w].pc)
  BY <1>5, <1>6, <1>7, <1>8, Zenon DEF TaxRequest, PreparationStep, CalculationStep
<1> QED
  BY <1>9 DEF Left

(* A request about a preparation is nowhere in a calculation, and the other   *)
(* way round.                                                                 *)
LEMMA PreparationPlaces ==
  ASSUME Inv, NEW w \in Workers, PreparationStep(w)
  PROVE  UNCHANGED snap /\ worker'[w].pc \in {"idle", "preparation", "issues", "status"}
<1>1. ASSUME Done(w) PROVE worker'[w].pc = "idle"
  BY <1>1, IdleQuery DEF Done, Inv, DeskInv
<1>2. CASE AskPreparation(w) \/ LoadPreparation(w)
  <2>1. \E pc \in {"preparation", "issues", "status"} :
           \E op, id, args, seen : Serve(w, pc, op, id, args, seen)
    <3>1. CASE AskPreparation(w)
      BY <3>1, Zenon DEF AskPreparation
    <3>2. CASE LoadPreparation(w)
      BY <3>2, Zenon DEF LoadPreparation
    <3> QED
      BY <1>2, <3>1, <3>2
  <2> QED
    BY <1>2, <2>1 DEF Serve, Inv, DeskInv, AskPreparation, LoadPreparation, taxVars
<1>3. CASE CreatePreparation(w) \/ MovePreparation(w)
  BY <1>1, <1>3 DEF CreatePreparation, MovePreparation
<1>4. CASE ReadIssues(w)
  <2>1. worker' = [worker EXCEPT ![w].pc = "status", ![w].args = hasBank] /\ UNCHANGED taxVars
    BY <1>4 DEF ReadIssues
  <2> QED
    BY <2>1 DEF Inv, DeskInv, IsQuery, taxVars
<1> QED
  BY <1>2, <1>3, <1>4 DEF PreparationStep

LEMMA CalculationPlaces ==
  ASSUME Inv, NEW w \in Workers, CalculationStep(w)
  PROVE  UNCHANGED prep /\ worker'[w].pc \in Calculating \cup {"idle"}
<1>1. CASE AskCalculate(w)
  <2>1. \E op, id, args, seen : Serve(w, "income", op, id, args, seen)
    BY <1>1, Zenon DEF AskCalculate
  <2> QED
    BY <1>1, <2>1 DEF Serve, Inv, DeskInv, AskCalculate, taxVars, Calculating
<1>2. CASE ReadIncome(w) \/ ReadRest(w) \/ ReadCredits(w)
  <2>1. \E pc \in {"rest", "credits", "figures"} : \E read : Carry(w, pc, read)
    BY <1>2, Zenon DEF ReadIncome, ReadRest, ReadCredits
  <2>2. PICK pc \in {"rest", "credits", "figures"} : \E read : Carry(w, pc, read)
    BY <2>1
  <2>3. PICK read : Carry(w, pc, read)
    BY <2>2
  <2>4. PICK args : worker' = [worker EXCEPT ![w].pc = pc, ![w].args = args]
    BY <2>3 DEF Carry
  <2>5. worker'[w].pc = pc /\ UNCHANGED prep
    BY <2>3, <2>4 DEF Carry, taxVars, Inv, DeskInv, IsQuery
  <2> QED
    BY <2>5 DEF Calculating
<1>3. CASE WriteFigures(w)
  BY <1>3, DoneTurn, IdleQuery DEF WriteFigures, Inv
<1> QED
  BY <1>1, <1>2, <1>3 DEF CalculationStep

(* What a request about a preparation knows when nobody overlaps it.          *)
PreparationFresh(q, preps, bank) ==
  q.pc \in OnPreparation =>
    /\ q.id \in Computations /\ preps[q.id] # None /\ q.seen = preps[q.id]
    /\ q.op # "validate" => Allows(PreparationMoves, q.seen.status, q.op)
    /\ q.pc = "status" /\ q.op = "approve" => bank
IsPreparation(row) == DOMAIN row = {"status", "form"}
PreparationInv ==
  /\ DOMAIN prep = Computations /\ \A c \in Computations : prep[c] # None => IsPreparation(prep[c])
  /\ \A w \in Workers : PreparationFresh(worker[w], prep, hasBank)
SerialPreparations == scene.serial => PreparationInv

(* Where the transitions of a preparation lead.                               *)
LEMMA PreparationTarget ==
  ASSUME NEW s, NEW op, Allows(PreparationMoves, s, op)
  PROVE  LET to == Target(PreparationMoves, s, op) IN
         /\ to = "APPROVED" => op = "approve"
         /\ s \in {"APPROVED", "LOCKED"} => to = "LOCKED"
<1> DEFINE m == CHOOSE x \in PreparationMoves : x[1] = s /\ x[2] = op
<1>1. m \in PreparationMoves /\ m[1] = s /\ m[2] = op
  BY DEF Allows
<1>2. Target(PreparationMoves, s, op) = m[3]
  BY DEF Target
<1> HIDE DEF m
<1> QED
  BY <1>1, <1>2 DEF PreparationMoves

(* A step of a request that is not about a preparation.                       *)
LEMMA PreparationKept ==
  ASSUME scene.serial, PreparationInv, NEW w \in Workers, NEW pcs, Turn(w, pcs), worker'[w].pc \notin OnPreparation,
         DOMAIN prep' = Computations, \A c \in Computations : prep'[c] # None => IsPreparation(prep'[c])
  PROVE  PreparationInv'
<1>1. ASSUME NEW v \in Workers PROVE worker'[v].pc \notin OnPreparation
  BY DEF Turn, Alone, OnPreparation
<1> QED
  BY <1>1 DEF PreparationInv, PreparationFresh, IsPreparation

LEMMA PreparationLeft ==
  ASSUME scene.serial, PreparationInv, NEW w \in Workers, NEW pcs, Turn(w, pcs), worker'[w].pc \notin OnPreparation,
         UNCHANGED prep
  PROVE  PreparationInv' /\ PreparationsStand
<1>1. PreparationInv'
  BY PreparationKept DEF PreparationInv, IsPreparation
<1> QED
  BY <1>1 DEF PreparationsStand

LEMMA PreparationStarted ==
  ASSUME scene.serial, Inv, PreparationInv, NEW w \in Workers, AskPreparation(w) \/ LoadPreparation(w)
  PROVE  PreparationInv' /\ PreparationsStand
<1>1. Turn(w, TaxPC) /\ UNCHANGED taxVars
  BY PreparationStepInv DEF Inv, AskPreparation, LoadPreparation
<1>2. CASE AskPreparation(w)
  <2>1. PICK c \in Computations : \E form : Serve(w, "preparation", "create", c, form, None)
    BY <1>2, Zenon DEF AskPreparation
  <2>2. worker'[w].pc \notin OnPreparation
    BY <2>1 DEF Serve, Inv, DeskInv, OnPreparation
  <2> QED
    BY <1>1, <2>2, PreparationLeft DEF taxVars
<1>3. CASE LoadPreparation(w)
  <2>1. PICK c \in Computations, op \in {"validate"} \cup {m[2] : m \in PreparationMoves} :
          /\ prep[c] # None /\ (op # "validate" => Allows(PreparationMoves, prep[c].status, op))
          /\ Serve(w, IF op \in {"validate", "approve"} THEN "issues" ELSE "status", op, c, None, prep[c])
    BY <1>3 DEF LoadPreparation
  <2>2. PICK pc \in OnPreparation : pc = IF op \in {"validate", "approve"} THEN "issues" ELSE "status"
    BY DEF OnPreparation
  <2>3. worker'[w] = [pc |-> pc, op |-> op, id |-> c, args |-> None, seen |-> prep[c]]
    BY <2>1, <2>2 DEF Serve, Inv, DeskInv
  <2>4. PreparationFresh(worker'[w], prep', hasBank')
    BY <1>1, <2>1, <2>2, <2>3 DEF PreparationFresh, taxVars
  <2>5. ASSUME NEW v \in Workers, v # w PROVE PreparationFresh(worker'[v], prep', hasBank')
    <3>1. worker'[v].pc = "idle"
      BY <1>1, <2>5 DEF Turn, Alone
    <3> QED
      BY <3>1 DEF PreparationFresh, OnPreparation
  <2> QED
    BY <1>1, <2>4, <2>5 DEF PreparationInv, IsPreparation, PreparationsStand, taxVars
<1> QED
  BY <1>2, <1>3

(* What blocks an approval is looked for before it.                           *)
LEMMA PreparationValidated ==
  ASSUME scene.serial, Inv, PreparationInv, NEW w \in Workers, ReadIssues(w)
  PROVE  PreparationInv' /\ PreparationsStand
<1>1. Turn(w, TaxPC) /\ UNCHANGED taxVars
  BY PreparationStepInv DEF Inv, ReadIssues
<1>2. PICK q : q = worker[w]
  OBVIOUS
<1>3. PICK p : p = [q EXCEPT !.pc = "status", !.args = hasBank]
  OBVIOUS
<1>4. q.pc = "issues" /\ (q.op = "approve" => hasBank) /\ worker' = [worker EXCEPT ![w] = p]
  BY <1>2, <1>3, Zenon DEF ReadIssues
<1>5. worker'[w] = p /\ p.id = q.id /\ p.op = q.op /\ p.seen = q.seen
  BY <1>2, <1>3, <1>4 DEF Inv, DeskInv, IsQuery
<1>6. PreparationFresh(worker'[w], prep', hasBank')
  <2>1. PreparationFresh(q, prep, hasBank)
    BY <1>2 DEF PreparationInv
  <2> QED
    BY <1>1, <1>4, <1>5, <2>1 DEF PreparationFresh, OnPreparation, taxVars
<1>7. ASSUME NEW v \in Workers, v # w PROVE PreparationFresh(worker'[v], prep', hasBank')
  <2>1. worker'[v].pc = "idle"
    BY <1>1, <1>7 DEF Turn, Alone
  <2> QED
    BY <2>1 DEF PreparationFresh, OnPreparation
<1> QED
  BY <1>1, <1>6, <1>7 DEF PreparationInv, IsPreparation, PreparationsStand, taxVars

LEMMA PreparationWritten ==
  ASSUME scene.serial, Inv, PreparationInv, NEW w \in Workers, CreatePreparation(w) \/ MovePreparation(w)
  PROVE  PreparationInv' /\ PreparationsStand
<1>1. Turn(w, TaxPC) /\ worker'[w] = Idle
  BY DoneTurn DEF Inv, CreatePreparation, MovePreparation
<1>2. worker'[w].pc \notin OnPreparation
  BY <1>1 DEF Idle, OnPreparation
<1>3. PICK q, c, old : q = worker[w] /\ c = q.id /\ old = prep[c]
  OBVIOUS
<1>4. CASE CreatePreparation(w)
  <2>1. old = None /\ prep' = [prep EXCEPT ![c] = PreparationRow(q.args)]
    BY <1>3, <1>4 DEF CreatePreparation
  <2>2. IsPreparation(PreparationRow(q.args))
    BY DEF IsPreparation, PreparationRow
  <2>3. DOMAIN prep' = Computations /\ \A d \in Computations : prep'[d] # None => IsPreparation(prep'[d])
    BY <2>1, <2>2 DEF PreparationInv
  <2>4. PreparationsStand
    BY <1>3, <2>1 DEF PreparationInv, PreparationsStand
  <2> QED
    BY <1>1, <1>2, <2>3, <2>4, PreparationKept
<1>5. CASE MovePreparation(w)
  <2>1. PICK to : to = Column(NewStatus(q), q.seen.status, old.status)
    OBVIOUS
  <2>2. PICK row : row = [old EXCEPT !.status = to]
    OBVIOUS
  <2>3. q.pc = "status" /\ prep' = [prep EXCEPT ![c] = row]
    BY <1>3, <1>5, <2>1, <2>2, Zenon DEF MovePreparation
  <2>4. /\ c \in Computations /\ old # None /\ q.seen = old /\ IsPreparation(old)
        /\ q.op # "validate" => Allows(PreparationMoves, old.status, q.op)
        /\ q.op = "approve" => hasBank
    BY <1>3, <2>3 DEF PreparationInv, PreparationFresh, OnPreparation
  <2>5. row.status = to /\ IsPreparation(row)
    BY <2>2, <2>4 DEF IsPreparation
  <2>6. to = NewStatus(q)
    BY <2>1, <2>4 DEF Column
  <2>7. DOMAIN prep' = Computations /\ \A d \in Computations : prep'[d] # None => IsPreparation(prep'[d])
    BY <2>3, <2>5 DEF PreparationInv
  <2>8. CASE q.op = "validate"
    <3>1. to \in {"IN_PROGRESS", "VALIDATION_REQUIRED"}
      BY <2>6, <2>8 DEF NewStatus
    <3>2. worker[w] # worker'[w] /\ worker[w].op = "validate" /\ worker[w].id = c
      BY <1>1, <1>3, <2>3, <2>8 DEF Idle
    <3>3. PreparationsStand
      BY <2>3, <2>4, <2>5, <3>1, <3>2 DEF PreparationInv, PreparationsStand
    <3> QED
      BY <1>1, <1>2, <2>7, <3>3, PreparationKept
  <2>9. CASE q.op # "validate"
    <3>1. PICK s, op : s = old.status /\ op = q.op
      OBVIOUS
    <3>2. to = Target(PreparationMoves, s, op) /\ Allows(PreparationMoves, s, op)
      BY <2>4, <2>6, <2>9, <3>1 DEF NewStatus
    <3>3. (to = "APPROVED" => op = "approve") /\ (s \in {"APPROVED", "LOCKED"} => to = "LOCKED")
      BY <3>2, PreparationTarget
    <3>4. PreparationsStand
      BY <1>3, <2>3, <2>4, <2>5, <3>1, <3>3 DEF PreparationInv, PreparationsStand
    <3> QED
      BY <1>1, <1>2, <2>7, <3>4, PreparationKept
  <2> QED
    BY <2>8, <2>9
<1> QED
  BY <1>4, <1>5

LEMMA PreparationDecided ==
  ASSUME scene.serial, Inv, PreparationInv, Next
  PROVE  PreparationInv' /\ PreparationsStand
<1>1. PICK w \in Workers :
        \/ AuditRequest(w) /\ UNCHANGED <<taxVars, importVars>>
        \/ TaxRequest(w) /\ UNCHANGED <<auditVars, importVars>>
        \/ ImportRequest(w) /\ UNCHANGED <<auditVars, taxVars>>
        \/ GiveUp(w)
  BY Zenon DEF Next
<1>2. ASSUME NEW pcs \in {AuditPC, ImportPC, {}}, Turn(w, pcs), UNCHANGED taxVars
      PROVE  PreparationInv' /\ PreparationsStand
  <2>1. worker'[w].pc \notin OnPreparation
    BY <1>2 DEF Turn, AuditPC, ImportPC, OnPreparation
  <2> QED
    BY <1>2, <2>1, PreparationLeft DEF taxVars
<1>3. CASE AuditRequest(w) /\ UNCHANGED <<taxVars, importVars>>
  BY <1>2, <1>3, AuditRequestInv DEF Inv
<1>4. CASE ImportRequest(w) /\ UNCHANGED <<auditVars, taxVars>>
  BY <1>2, <1>4, ImportRequestInv DEF Inv
<1>5. CASE GiveUp(w)
  <2>1. UNCHANGED taxVars
    BY <1>5 DEF GiveUp
  <2> QED
    BY <1>2, <1>5, <2>1, GiveUpInv
<1>6. CASE TaxRequest(w) /\ UNCHANGED <<auditVars, importVars>>
  <2>1. Turn(w, TaxPC)
    BY <1>6, TaxRequestInv DEF Inv
  <2>2. CASE PreparationStep(w)
    BY <2>2, PreparationStarted, PreparationValidated, PreparationWritten DEF PreparationStep
  <2>3. CASE UNCHANGED prep /\ worker'[w].pc \notin OnPreparation
    BY <2>1, <2>3, PreparationLeft
  <2> QED
    BY <1>6, <2>2, <2>3, TaxPlaces, CalculationPlaces DEF Inv, OnPreparation, Calculating
<1> QED
  BY <1>1, <1>3, <1>4, <1>5, <1>6

LEMMA PreparationInvariance == Spec => []SerialPreparations
<1>1. Init => SerialPreparations
  <2> SUFFICES ASSUME Init PROVE PreparationInv
    BY DEF SerialPreparations
  <2>1. \A w \in Workers : worker[w].pc = "idle"
    BY IdleQuery DEF Init, DeskInit
  <2> QED
    BY <2>1 DEF PreparationInv, PreparationFresh, OnPreparation, Init, TaxInit
<1>2. Inv /\ SerialPreparations /\ [Next]_vars => SerialPreparations'
  <2>1. CASE Next
    <3>1. Inv => scene' = scene
      BY <2>1, SceneKept
    <3> QED
      BY <2>1, <3>1, PreparationDecided DEF SerialPreparations
  <2>2. CASE UNCHANGED vars
    BY <2>2 DEF vars, deskVars, taxVars, SerialPreparations, PreparationInv, PreparationFresh, IsPreparation
  <2> QED
    BY <2>1, <2>2
<1> QED
  BY <1>1, <1>2, Invariance, PTL DEF Spec

(* What a calculation has read when nobody overlaps it, by where it is.       *)
ReadSoFar(c) ==
  LET k == RulesNow(c) IN
  [income  |-> [rules |-> k],
   rest    |-> Adding(IncomeNow, [rules |-> k]),
   credits |-> Adding(RestNow(k), Adding(IncomeNow, [rules |-> k])),
   figures |-> YearNow(c)]
Read == [c \in Computations |-> ReadSoFar(c)]
CalculationFresh(q, read) == q.pc \in Calculating => q.id \in Computations /\ q.args = read[q.id][q.pc]
FiguresNamed == \A c \in Computations : comp[c] # None => DOMAIN comp[c].fig = FigureNames
CalculationInv == FiguresNamed /\ \A w \in Workers : CalculationFresh(worker[w], Read)
SerialCalculations == scene.serial => CalculationInv

LEMMA ReadSame == ASSUME UNCHANGED taxVars PROVE UNCHANGED Read
<1>1. profile' = profile /\ treatment' = treatment /\ entry' = entry /\ comp' = comp
  BY DEF taxVars
<1>2. \A head : SumDerived(head)' = SumDerived(head)
  BY <1>1 DEF SumDerived, Rows
<1>3. \A head, column : SumOf(head, column)' = SumOf(head, column)
  BY <1>1 DEF SumOf, Rows
<1>4. BooksNow' = BooksNow
  BY <1>1 DEF BooksNow
<1>5. IncomeNow' = IncomeNow
  BY <1>2, <1>4 DEF IncomeNow
<1>6. CreditsNow' = CreditsNow
  BY <1>3 DEF CreditsNow
<1>7. \A k : RestNow(k)' = RestNow(k)
  BY <1>1, <1>2, <1>3 DEF RestNow, Rows
<1>8. \A c : RulesNow(c)' = RulesNow(c)
  BY <1>1 DEF RulesNow
<1> HIDE DEF IncomeNow, CreditsNow, RestNow, RulesNow
<1> QED
  BY <1>5, <1>6, <1>7, <1>8 DEF Read, ReadSoFar, YearNow

LEMMA ReadAt ==
  ASSUME NEW c \in Computations
  PROVE  LET k == RulesNow(c) IN
         /\ Read[c]["income"] = [rules |-> k]
         /\ Read[c]["rest"] = Adding(IncomeNow, [rules |-> k])
         /\ Read[c]["credits"] = Adding(RestNow(k), Adding(IncomeNow, [rules |-> k]))
         /\ Read[c]["figures"] = YearNow(c)
<1> HIDE DEF YearNow, RulesNow, IncomeNow, RestNow, CreditsNow
<1> QED
  BY DEF Read, ReadSoFar

(* What one SELECT adds to what has been read.                                *)
LEMMA ReadOn ==
  ASSUME NEW c \in Computations
  PROVE  /\ Read[c]["rest"] = Adding(IncomeNow, Read[c]["income"])
         /\ Read[c]["credits"] = Adding(RestNow(Read[c]["rest"].rules), Read[c]["rest"])
         /\ Read[c]["figures"] = Adding(CreditsNow, Read[c]["credits"])
<1>1. PICK k, income : k = RulesNow(c) /\ income = IncomeNow
  OBVIOUS
<1>2. DOMAIN income = {"salary", "house", "business", "review"}
  BY <1>1 DEF IncomeNow
<1>3. Adding(income, [rules |-> k]).rules = k
  BY <1>2 DEF Adding
<1>4. Read[c]["rest"].rules = RulesNow(c)
  <2>1. Read[c]["rest"] = Adding(income, [rules |-> k])
    BY <1>1, ReadAt
  <2> QED
    BY <1>1, <1>3, <2>1
<1> QED
  BY <1>4, ReadAt, Zenon DEF YearNow

(* A step that leaves nobody in the middle of a calculation.                  *)
LEMMA CalculationKept ==
  ASSUME scene.serial, NEW w \in Workers, NEW pcs, Turn(w, pcs), worker'[w].pc \notin Calculating
  PROVE  \A v \in Workers : CalculationFresh(worker'[v], Read')
<1>1. ASSUME NEW v \in Workers PROVE worker'[v].pc \notin Calculating
  BY DEF Turn, Alone, Calculating
<1> QED
  BY <1>1 DEF CalculationFresh

(* A step of a calculation, which changes no row.                             *)
LEMMA CalculationGoes ==
  ASSUME scene.serial, NEW w \in Workers, NEW pcs, Turn(w, pcs), UNCHANGED taxVars,
         CalculationFresh(worker'[w], Read), FiguresNamed
  PROVE  CalculationInv'
<1>1. UNCHANGED Read
  BY ReadSame
<1>2. ASSUME NEW v \in Workers PROVE CalculationFresh(worker'[v], Read')
  <2>1. CASE v = w
    BY <1>1, <2>1
  <2>2. CASE v # w
    BY <2>2 DEF Turn, Alone, CalculationFresh, Calculating
  <2> QED
    BY <2>1, <2>2
<1>3. FiguresNamed'
  BY DEF FiguresNamed, taxVars
<1> QED
  BY <1>2, <1>3 DEF CalculationInv

LEMMA CalculationStarted ==
  ASSUME scene.serial, Inv, FiguresNamed, NEW w \in Workers, AskCalculate(w)
  PROVE  CalculationInv'
<1>1. Turn(w, TaxPC) /\ UNCHANGED taxVars
  BY AskCalculateInv DEF Inv, AskCalculate
<1>2. PICK c \in Computations : Serve(w, "income", "calculate", c, [rules |-> RulesNow(c)], comp[c])
  BY Zenon DEF AskCalculate
<1>3. PICK args : args = [rules |-> RulesNow(c)]
  OBVIOUS
<1>4. worker'[w].pc = "income" /\ worker'[w].id = c /\ worker'[w].args = args
  BY <1>2, <1>3 DEF Serve, Inv, DeskInv
<1>5. Read[c]["income"] = args
  BY <1>3, ReadAt
<1>6. CalculationFresh(worker'[w], Read)
  BY <1>4, <1>5 DEF CalculationFresh
<1> QED
  BY <1>1, <1>6, CalculationGoes

LEMMA CalculationRead ==
  ASSUME scene.serial, Inv, CalculationInv, NEW w \in Workers, ReadIncome(w) \/ ReadRest(w) \/ ReadCredits(w)
  PROVE  CalculationInv'
<1>1. PICK q : q = worker[w]
  OBVIOUS
<1>2. CalculationFresh(q, Read) /\ FiguresNamed /\ IsQuery(q) /\ DOMAIN worker = Workers
  BY <1>1 DEF CalculationInv, Inv, DeskInv
<1>3. \E pc \in Calculating : \E read :
        q.pc \in Calculating /\ Carry(w, pc, read) /\ Read[q.id][pc] = Adding(read, Read[q.id][q.pc])
  <2>1. ASSUME q.pc \in Calculating PROVE q.id \in Computations /\ q.args = Read[q.id][q.pc]
    BY <1>2, <2>1 DEF CalculationFresh
  <2>2. CASE ReadIncome(w)
    <3>1. q.pc = "income" /\ Carry(w, "rest", IncomeNow)
      BY <1>1, <2>2, Zenon DEF ReadIncome
    <3> QED
      BY <2>1, <3>1, ReadOn DEF Calculating
  <2>3. CASE ReadRest(w)
    <3>1. q.pc = "rest" /\ Carry(w, "credits", RestNow(q.args.rules))
      BY <1>1, <2>3, Zenon DEF ReadRest
    <3>2. Carry(w, "credits", RestNow(Read[q.id]["rest"].rules))
      BY <2>1, <3>1 DEF Calculating
    <3> QED
      BY <2>1, <3>1, <3>2, ReadOn DEF Calculating
  <2>4. CASE ReadCredits(w)
    <3>1. q.pc = "credits" /\ Carry(w, "figures", CreditsNow)
      BY <1>1, <2>4, Zenon DEF ReadCredits
    <3> QED
      BY <2>1, <3>1, ReadOn DEF Calculating
  <2> QED
    BY <2>2, <2>3, <2>4
<1>4. PICK pc \in Calculating : \E read :
        q.pc \in Calculating /\ Carry(w, pc, read) /\ Read[q.id][pc] = Adding(read, Read[q.id][q.pc])
  BY <1>3
<1>5. PICK read : q.pc \in Calculating /\ Carry(w, pc, read) /\ Read[q.id][pc] = Adding(read, Read[q.id][q.pc])
  BY <1>4
<1>6. PICK args : args = Adding(read, q.args)
  OBVIOUS
<1>7. worker' = [worker EXCEPT ![w] = [q EXCEPT !.pc = pc, !.args = args]] /\ UNCHANGED taxVars
  BY <1>1, <1>5, <1>6, Zenon DEF Carry
<1>8. worker'[w].pc = pc /\ worker'[w].id = q.id /\ worker'[w].args = args
  BY <1>2, <1>7 DEF IsQuery
<1>9. q.id \in Computations /\ args = Read[q.id][pc]
  BY <1>2, <1>5, <1>6 DEF CalculationFresh
<1>10. CalculationFresh(worker'[w], Read)
  BY <1>8, <1>9 DEF CalculationFresh
<1>11. Turn(w, TaxPC)
  BY CalculationReads DEF Inv
<1> QED
  BY <1>2, <1>7, <1>10, <1>11, CalculationGoes

(* Figures are written by name.                                               *)
LEMMA FiguresKept ==
  ASSUME scene.serial, TaxInv, FiguresNamed, NEW w \in Workers, TaxRequest(w)
  PROVE  FiguresNamed'
<1>1. DOMAIN comp = Computations /\ \A c \in Computations : comp[c] # None => IsComputation(comp[c])
  BY DEF TaxInv, TaxTables, Recorded
<1>2. PICK q, c, old : q = worker[w] /\ c = q.id /\ old = comp[c]
  OBVIOUS
<1>3. OnComputation(q) => c \in Computations /\ IsComputation(old) /\ DOMAIN old.fig = FigureNames
  BY <1>2 DEF TaxInv, TaxLoaded, TaxFresh, RecordedRows, Recorded, FiguresNamed
<1>4. CASE CreateComputation(w)
  <2>1. PICK d \in Computations : comp[d] = None /\ comp' = [comp EXCEPT ![d] = ComputationRow(worker[w].args)]
    BY <1>4 DEF CreateComputation
  <2> QED
    BY <1>1, <2>1 DEF FiguresNamed, ComputationRow
<1>5. CASE WriteFigures(w)
  <2>1. PICK figures, status : figures = Written(Figures(q.args), q.seen.fig, old.fig)
                               /\ status = Column(Outcome(q.args), q.seen.status, old.status)
    OBVIOUS
  <2>2. PICK row : row = [old EXCEPT !.fig = figures, !.status = status]
    OBVIOUS
  <2>3. q.pc = "figures" /\ comp' = [comp EXCEPT ![c] = row]
    <3> HIDE DEF Written, Column, Figures, Outcome
    <3> QED
      BY <1>2, <1>5, <2>1, <2>2, Zenon DEF WriteFigures
  <2>4. c \in Computations /\ row.fig = figures
    BY <1>3, <2>2, <2>3 DEF OnComputation, IsComputation
  <2>5. DOMAIN figures = FigureNames
    BY <1>3, <2>1, <2>3 DEF Written, OnComputation
  <2> QED
    BY <1>1, <1>2, <2>3, <2>4, <2>5 DEF FiguresNamed
<1>6. CASE MoveComputation(w)
  <2>1. PICK to : to = Target(ComputationMoves, q.seen.status, q.op)
    OBVIOUS
  <2>2. PICK row : row = [old EXCEPT !.status = to]
    OBVIOUS
  <2>3. q.pc = "move" /\ comp' = [comp EXCEPT ![c] = row]
    BY <1>2, <1>6, <2>1, <2>2, Zenon DEF MoveComputation
  <2>4. c \in Computations /\ row.fig = old.fig /\ DOMAIN old.fig = FigureNames
    BY <1>3, <2>2, <2>3 DEF OnComputation, IsComputation
  <2> QED
    BY <1>1, <1>2, <2>3, <2>4 DEF FiguresNamed
<1>7. CASE UNCHANGED <<comp, snap>>
  BY <1>7 DEF FiguresNamed
<1> QED
  BY <1>4, <1>5, <1>6, <1>7, ComputationWriters

LEMMA FigureColumns == ASSUME NEW r PROVE DOMAIN Figures(r) = FigureNames /\ Figures(r) = [n \in FigureNames |-> Figures(r)[n]]
<1> HIDE DEF GrossTotal, Taxable, Liability
<1> QED
  BY DEF Figures, Statement, FigureNames

(* What a calculation commits when nobody overlaps it.                        *)
LEMMA CalculationWritten ==
  ASSUME scene.serial, Inv, CalculationInv, NEW w \in Workers, WriteFigures(w)
  PROVE  CalculationInv' /\ CalculationsCurrent
<1>1. PICK q, c, old : q = worker[w] /\ c = q.id /\ old = comp[c]
  OBVIOUS
<1>2. PICK figures, status : figures = Written(Figures(q.args), q.seen.fig, old.fig)
                             /\ status = Column(Outcome(q.args), q.seen.status, old.status)
  OBVIOUS
<1>3. PICK row : row = [old EXCEPT !.fig = figures, !.status = status]
  OBVIOUS
<1>4. PICK s : s = Append(snap[c], row.fig)
  OBVIOUS
<1>5. q.pc = "figures" /\ Done(w) /\ comp' = [comp EXCEPT ![c] = row] /\ snap' = [snap EXCEPT ![c] = s]
  <2> HIDE DEF Written, Column, Figures, Outcome
  <2> QED
    BY <1>1, <1>2, <1>3, <1>4, Zenon DEF WriteFigures
<1>6. c \in Computations /\ IsComputation(old) /\ old # None /\ q.seen = old
  BY <1>1, <1>5 DEF Inv, TaxInv, TaxLoaded, TaxFresh, OnComputation, RecordedRows, Recorded
<1>7. row.fig = figures /\ row.status = status
  BY <1>3, <1>6 DEF IsComputation
<1>8. PICK r : r = YearNow(c)
  OBVIOUS
<1>9. q.args = r
  <2>1. CalculationFresh(q, Read)
    BY <1>1 DEF CalculationInv
  <2>2. q.args = Read[c]["figures"]
    BY <1>1, <1>5, <2>1 DEF CalculationFresh, Calculating
  <2> QED
    BY <1>6, <1>8, <2>2, ReadAt
<1>10. figures = Figures(r)
  <2>1. PICK new : new = Figures(r)
    OBVIOUS
  <2>2. DOMAIN old.fig = FigureNames
    BY <1>1, <1>6 DEF CalculationInv, FiguresNamed
  <2>3. figures = [n \in FigureNames |-> Column(new[n], old.fig[n], old.fig[n])]
    BY <1>2, <1>6, <1>9, <2>1, <2>2 DEF Written
  <2>4. \A n \in FigureNames : Column(new[n], old.fig[n], old.fig[n]) = new[n]
    BY DEF Column
  <2>5. new = [n \in FigureNames |-> new[n]]
    BY <2>1, FigureColumns
  <2> QED
    BY <2>1, <2>3, <2>4, <2>5
<1>11. status = Outcome(r)
  BY <1>2, <1>6, <1>9 DEF Column
<1>12. CalculationsCurrent
  <2> SUFFICES ASSUME NEW d \in Computations, snap'[d] # snap[d]
               PROVE  comp'[d].fig = Figures(YearNow(d)) /\ comp'[d].status = Outcome(YearNow(d))
    BY DEF CalculationsCurrent
  <2>1. DOMAIN comp = Computations /\ DOMAIN snap = Computations
    BY DEF Inv, TaxInv, TaxTables
  <2>2. d = c
    BY <1>5, <2>1
  <2>3. comp'[d] = row
    BY <1>5, <1>6, <2>1, <2>2
  <2>4. comp'[d].fig = Figures(r) /\ comp'[d].status = Outcome(r)
    BY <1>7, <1>10, <1>11, <2>3
  <2> QED
    BY <1>8, <2>2, <2>4, Zenon
<1>13. FiguresNamed'
  <2>1. TaxRequest(w)
    BY DEF TaxRequest
  <2> QED
    BY <2>1, FiguresKept DEF Inv, CalculationInv
<1>14. Turn(w, TaxPC) /\ worker'[w].pc \notin Calculating
  BY <1>1, <1>5, DoneTurn, IdleQuery DEF Inv, Calculating
<1> QED
  BY <1>12, <1>13, <1>14, CalculationKept DEF CalculationInv

LEMMA CalculationDecided ==
  ASSUME scene.serial, Inv, CalculationInv, Next
  PROVE  CalculationInv' /\ CalculationsCurrent
<1>1. PICK w \in Workers :
        \/ AuditRequest(w) /\ UNCHANGED <<taxVars, importVars>>
        \/ TaxRequest(w) /\ UNCHANGED <<auditVars, importVars>>
        \/ ImportRequest(w) /\ UNCHANGED <<auditVars, taxVars>>
        \/ GiveUp(w)
  BY Zenon DEF Next
<1>2. ASSUME UNCHANGED snap PROVE CalculationsCurrent
  BY <1>2 DEF CalculationsCurrent
<1>3. ASSUME NEW pcs \in {AuditPC, ImportPC, {}}, Turn(w, pcs), UNCHANGED taxVars
      PROVE  CalculationInv' /\ CalculationsCurrent
  <2>1. worker'[w].pc \notin Calculating
    BY <1>3 DEF Turn, AuditPC, ImportPC, Calculating
  <2>2. FiguresNamed' /\ UNCHANGED snap
    BY <1>3 DEF CalculationInv, FiguresNamed, taxVars
  <2> QED
    BY <1>2, <1>3, <2>1, <2>2, CalculationKept DEF CalculationInv
<1>4. CASE AuditRequest(w) /\ UNCHANGED <<taxVars, importVars>>
  BY <1>3, <1>4, AuditRequestInv DEF Inv
<1>5. CASE ImportRequest(w) /\ UNCHANGED <<auditVars, taxVars>>
  BY <1>3, <1>5, ImportRequestInv DEF Inv
<1>6. CASE GiveUp(w)
  <2>1. UNCHANGED taxVars
    BY <1>6 DEF GiveUp
  <2> QED
    BY <1>3, <1>6, <2>1, GiveUpInv
<1>7. CASE TaxRequest(w) /\ UNCHANGED <<auditVars, importVars>>
  <2>1. Turn(w, TaxPC)
    BY <1>7, TaxRequestInv DEF Inv
  <2>2. CASE UNCHANGED snap /\ worker'[w].pc \notin Calculating
    <3>1. FiguresNamed'
      BY <1>7, FiguresKept DEF Inv, CalculationInv
    <3> QED
      BY <1>2, <2>1, <2>2, <3>1, CalculationKept DEF CalculationInv
  <2>3. CASE AskCalculate(w) \/ ReadIncome(w) \/ ReadRest(w) \/ ReadCredits(w)
    <3>1. CalculationInv'
      BY <2>3, CalculationStarted, CalculationRead DEF CalculationInv
    <3>2. UNCHANGED snap
      BY <2>3 DEF AskCalculate, ReadIncome, ReadRest, ReadCredits, Carry, taxVars
    <3> QED
      BY <1>2, <3>1, <3>2
  <2>4. CASE WriteFigures(w)
    BY <2>4, CalculationWritten
  <2>5. CASE PreparationStep(w)
    BY <2>2, <2>5, PreparationPlaces DEF Calculating
  <2> QED
    BY <1>7, <2>2, <2>3, <2>4, <2>5, TaxPlaces DEF Inv, CalculationStep, Calculating
<1> QED
  BY <1>1, <1>4, <1>5, <1>6, <1>7

LEMMA CalculationInvariance == Spec => []SerialCalculations
<1>1. Init => SerialCalculations
  <2> SUFFICES ASSUME Init PROVE CalculationInv
    BY DEF SerialCalculations
  <2>1. \A w \in Workers : worker[w].pc = "idle"
    BY IdleQuery DEF Init, DeskInit
  <2> QED
    BY <2>1 DEF CalculationInv, CalculationFresh, Calculating, FiguresNamed, Init, TaxInit
<1>2. Inv /\ SerialCalculations /\ [Next]_vars => SerialCalculations'
  <2>1. CASE Next
    <3>1. Inv => scene' = scene
      BY <2>1, SceneKept
    <3> QED
      BY <2>1, <3>1, CalculationDecided DEF SerialCalculations
  <2>2. CASE UNCHANGED vars
    <3>1. UNCHANGED deskVars /\ UNCHANGED taxVars
      BY <2>2 DEF vars
    <3>2. UNCHANGED Read
      BY <3>1, ReadSame
    <3> QED
      BY <3>1, <3>2 DEF deskVars, taxVars, SerialCalculations, CalculationInv, FiguresNamed
  <2> QED
    BY <2>1, <2>2
<1> QED
  BY <1>1, <1>2, Invariance, PTL DEF Spec

Decided ==
  /\ SnapshotsGrow
  /\ scene.serial => /\ EngagementStands /\ FindingsStand /\ ComputationsStand /\ CalculationsCurrent
                     /\ PreparationsStand /\ ImportsStand

LEMMA AuditLeft  == UNCHANGED auditVars => EngagementStands /\ FindingsStand
BY DEF auditVars, EngagementStands, FindingsStand

LEMMA TaxLeft == TaxInv /\ UNCHANGED taxVars => SnapshotsGrow /\ ComputationsStand
BY SnapshotsSame DEF taxVars, ComputationsStand

LEMMA ImportsLeft == UNCHANGED importVars => ImportsStand
BY DEF importVars, ImportsStand

LEMMA StepDecided ==
  ASSUME Inv, SerialPreparations, SerialCalculations, Next
  PROVE  Decided
<1>0. scene.serial => PreparationsStand /\ CalculationsCurrent
  BY PreparationDecided, CalculationDecided DEF SerialPreparations, SerialCalculations
<1>1. PICK w \in Workers :
        \/ AuditRequest(w) /\ UNCHANGED <<taxVars, importVars>>
        \/ TaxRequest(w) /\ UNCHANGED <<auditVars, importVars>>
        \/ ImportRequest(w) /\ UNCHANGED <<auditVars, taxVars>>
        \/ GiveUp(w)
  BY Zenon DEF Next
<1> USE DEF Inv, Decided
<1>2. CASE AuditRequest(w) /\ UNCHANGED <<taxVars, importVars>>
  BY <1>2, <1>0, EngagementDecided, FindingsDecided, TaxLeft, ImportsLeft
<1>3. CASE TaxRequest(w) /\ UNCHANGED <<auditVars, importVars>>
  BY <1>3, <1>0, ComputationDecided, AuditLeft, ImportsLeft
<1>4. CASE ImportRequest(w) /\ UNCHANGED <<auditVars, taxVars>>
  BY <1>4, <1>0, ImportDecided, AuditLeft, TaxLeft
<1>5. CASE GiveUp(w)
  <2>1. UNCHANGED auditVars /\ UNCHANGED taxVars /\ UNCHANGED importVars
    BY <1>5 DEF GiveUp
  <2> QED
    BY <1>0, <2>1, AuditLeft, TaxLeft, ImportsLeft
<1> QED
  BY <1>1, <1>2, <1>3, <1>4, <1>5

(* A decision once made stands while requests are served one at a time: a     *)
(* closed or cancelled engagement keeps its status, a closed finding is only  *)
(* reopened, the figures of an approved or locked computation do not change   *)
(* and nothing but the lock follows its approval, a preparation is approved   *)
(* only while nothing blocks it and sent back by validate alone afterwards, a *)
(* finished or cancelled import stays so, and what calculate commits follows  *)
(* from the rows at that moment; snapshots are never changed, whatever        *)
(* overlaps (the status checks of the audit, income tax and import services). *)
THEOREM DecisionsAlwaysStand == Spec => DecisionsStand
<1>1. Inv /\ SerialPreparations /\ SerialCalculations /\ [Next]_vars =>
        [/\ \A c \in Computations : IsPrefix(snap[c], snap'[c])
         /\ scene.serial => /\ EngagementStands /\ FindingsStand /\ ComputationsStand /\ CalculationsCurrent
                            /\ PreparationsStand /\ ImportsStand]_vars
  BY StepDecided DEF Decided, SnapshotsGrow
<1> QED
  BY <1>1, Invariance, PreparationInvariance, CalculationInvariance, PTL DEF Spec, DecisionsStand

-------------------------------------------------------------------------------
(* Business income.                                                           *)

LEMMA TwoLedgers ==
  ASSUME NEW f, DOMAIN f = ExpenseLedgers, f["purchase"] \in Int, f["other"] \in Int
  PROVE  Total(f) = f["purchase"] + f["other"]
<1>1. /\ IsFiniteSet({"purchase"}) /\ IsFiniteSet({}) /\ {"purchase"} = {} \cup {"purchase"}
      /\ ExpenseLedgers = {"purchase"} \cup {"other"}
  BY FS_Singleton, FS_EmptySet DEF ExpenseLedgers
<1>2. SumOver(f, {"purchase"}) = f["purchase"]
  <2>1. SumOver(f, {} \cup {"purchase"}) = f["purchase"] + SumOver(f, {})
    BY <1>1, SumInsert
  <2> QED
    BY <1>1, <2>1, SumEmpty
<1>3. SumOver(f, {"purchase"} \cup {"other"}) = f["other"] + SumOver(f, {"purchase"})
  BY <1>1, SumInsert
<1> QED
  BY <1>1, <1>2, <1>3 DEF Total

Amounts(d) ==
  /\ d.sales \in Int /\ d.salesReturns \in Int /\ d.purchases \in Int
  /\ d.purchaseReturns \in Int /\ d.income \in Int /\ d.expense \in Int

LEMMA LedgerTotals ==
  ASSUME NEW d, Amounts(d)
  PROVE  /\ Total(LedgerExpense(d)) = d.expense - d.purchaseReturns
         /\ Disallowed(d) = (IF d.treatment["purchase"] = "DISALLOWABLE" THEN 0 - d.purchaseReturns ELSE 0)
                            + (IF d.treatment["other"] = "DISALLOWABLE" THEN d.expense ELSE 0)
<1> DEFINE spent == LedgerExpense(d)
           out == [l \in ExpenseLedgers |-> IF d.treatment[l] = "DISALLOWABLE" THEN spent[l] ELSE 0]
<1>1. /\ DOMAIN spent = ExpenseLedgers /\ spent["purchase"] = 0 - d.purchaseReturns
      /\ spent["other"] = d.expense
  BY DEF LedgerExpense, ExpenseLedgers
<1>2. /\ DOMAIN out = ExpenseLedgers
      /\ out["purchase"] = IF d.treatment["purchase"] = "DISALLOWABLE" THEN 0 - d.purchaseReturns ELSE 0
      /\ out["other"] = IF d.treatment["other"] = "DISALLOWABLE" THEN d.expense ELSE 0
  BY <1>1 DEF ExpenseLedgers
<1>3. Disallowed(d) = Total(out)
  BY DEF Disallowed
<1> HIDE DEF spent, out
<1>4. Total(spent) = (0 - d.purchaseReturns) + d.expense
  BY <1>1, TwoLedgers DEF Amounts
<1>5. Total(out) = out["purchase"] + out["other"]
  BY <1>2, TwoLedgers DEF Amounts
<1> QED
  BY <1>2, <1>3, <1>4, <1>5 DEF Amounts, spent

(* What business_income_service.calculate gets wrong is exactly the notes: a  *)
(* credit note is deducted twice, and a debit note is added twice unless the  *)
(* purchase account is disallowed; journals, treatments and adjustments are   *)
(* counted once.                                                              *)
THEOREM NotesCountedTwice ==
  ASSUME NEW d, NEW a \in Int, Amounts(d)
  PROVE  BusinessIncome(d, a) =
           CountedOnce(d, a) - d.salesReturns
             + (IF d.treatment["purchase"] = "DISALLOWABLE" THEN 0 ELSE d.purchaseReturns)
BY LedgerTotals DEF BusinessIncome, CountedOnce, LedgerIncome, Amounts

LEMMA CountedWithoutNotes ==
  ASSUME NEW d, NEW a, Amounts(d), d.salesReturns = 0, d.purchaseReturns = 0
  PROVE  BusinessIncome(d, a) = CountedOnce(d, a)
<1> DEFINE twice == (d.sales - d.salesReturns) + LedgerIncome(d)
                    - ((d.purchases - d.purchaseReturns) + Total(LedgerExpense(d)) - Disallowed(d))
           once == d.sales - d.salesReturns + d.income
                   - (d.purchases - d.purchaseReturns) - d.expense
                   + (IF d.treatment["other"] = "DISALLOWABLE" THEN d.expense ELSE 0)
<1>1. twice = once
  <2>1. PICK out : out = IF d.treatment["other"] = "DISALLOWABLE" THEN d.expense ELSE 0
    OBVIOUS
  <2>2. out \in Int /\ Disallowed(d) = out /\ Total(LedgerExpense(d)) = d.expense
    BY <2>1, LedgerTotals DEF Amounts
  <2>3. once = d.sales - d.salesReturns + d.income - (d.purchases - d.purchaseReturns) - d.expense + out
    BY <2>1, Zenon
  <2> HIDE DEF once
  <2> QED
    BY <2>2, <2>3 DEF LedgerIncome, Amounts
<1>2. BusinessIncome(d, a) = twice + a /\ CountedOnce(d, a) = once + a
  BY DEF BusinessIncome, CountedOnce
<1> QED
  BY <1>1, <1>2, Zenon

(* In a year without credit and debit notes, and while requests are served    *)
(* one at a time, every calculation counts every document once, as            *)
(* business_income_service.py says: the notes are the only way to the         *)
(* violation of IncomeCountedOnce.                                            *)
THEOREM CountedOnceWithoutNotes ==
  ASSUME Amounts(Books), Books.salesReturns = 0, Books.purchaseReturns = 0
  PROVE  Spec /\ []scene.serial => IncomeCountedOnce
<1>1. Inv /\ SerialCalculations /\ scene.serial /\ [Next]_vars =>
        [\A c \in Computations : snap'[c] # snap[c] =>
           comp'[c].fig.business = CountedOnce(BooksNow, SumDerived("adjustment"))]_vars
  <2> SUFFICES ASSUME Inv, SerialCalculations, scene.serial, Next, NEW c \in Computations, snap'[c] # snap[c]
               PROVE  comp'[c].fig.business = CountedOnce(BooksNow, SumDerived("adjustment"))
    OBVIOUS
  <2>1. PICK r, a, books : r = YearNow(c) /\ a = SumDerived("adjustment") /\ books = BooksNow
    OBVIOUS
  <2>2. comp'[c].fig = Figures(r)
    BY <2>1, CalculationDecided DEF SerialCalculations, CalculationsCurrent
  <2>3. Figures(r).business = r.business
    <3> HIDE DEF GrossTotal, Taxable, Liability
    <3> QED
      BY DEF Figures, Statement
  <2>4. r.business = BusinessIncome(books, a)
    <3>1. PICK income, rest, credits, k : /\ k = RulesNow(c) /\ income = IncomeNow
                                          /\ rest = RestNow(k) /\ credits = CreditsNow
      OBVIOUS
    <3>2. r = Adding(credits, Adding(rest, Adding(income, [rules |-> k])))
      BY <2>1, <3>1, Zenon DEF YearNow
    <3>3. /\ DOMAIN credits = {"tds", "advance", "self"} /\ DOMAIN rest = {"gains", "other", "setoff", "claims"}
          /\ DOMAIN income = {"salary", "house", "business", "review"} /\ income.business = BusinessIncome(books, a)
      BY <2>1, <3>1 DEF CreditsNow, RestNow, IncomeNow
    <3> QED
      BY <3>2, <3>3 DEF Adding
  <2>5. Amounts(books) /\ books.salesReturns = 0 /\ books.purchaseReturns = 0
    BY <2>1 DEF BooksNow, Amounts
  <2>6. BusinessIncome(books, a) = CountedOnce(books, a)
    BY <2>5, CountedWithoutNotes
  <2> QED
    BY <2>1, <2>2, <2>3, <2>4, <2>6
<1> QED
  BY <1>1, Invariance, CalculationInvariance, PTL DEF Spec, IncomeCountedOnce

-------------------------------------------------------------------------------
(* The tax schedule.                                                          *)

LEMMA LeastNat ==
  ASSUME NEW S, S \subseteq Nat, S # {}
  PROVE  \E m \in S : \A n \in S : m <= n
<1>1. PICK m \in S : \A n \in S : ~(<<n, m>> \in OpToRel(<, Nat))
  BY NatLessThanWellFounded, WFMin, Zenon
<1>2. ASSUME NEW n \in S PROVE m <= n
  <2>1. ~(n < m)
    BY <1>1, Zenon DEF OpToRel
  <2> QED
    BY <2>1
<1> QED
  BY <1>2

LEMMA MinOfTwo ==
  ASSUME NEW a \in Int, NEW b \in Int
  PROVE  Min({a, b}) = IF a <= b THEN a ELSE b
<1> DEFINE m == IF a <= b THEN a ELSE b
<1>1. m \in {a, b} /\ \A y \in {a, b} : m <= y
  OBVIOUS
<1>2. ASSUME NEW x \in {a, b}, \A y \in {a, b} : x <= y PROVE x = m
  BY <1>2
<1> QED
  BY <1>1, <1>2 DEF Min

LEMMA RoundGrows ==
  ASSUME NEW h \in Int, NEW k \in Int, h <= k
  PROVE  /\ Round(h) \in Int /\ Round(k) \in Int /\ Round(h) <= Round(k)
         /\ \A d \in Int : k - h <= 100 * d => Round(k) - Round(h) <= d
         /\ h >= 0 => Round(h) >= 0
BY DEF Round

LEMMA TimesBounded ==
  ASSUME NEW r \in 0..100, NEW d \in Nat PROVE 0 <= r * d /\ r * d <= 100 * d
OBVIOUS
LEMMA TimesGrows ==
  ASSUME NEW a \in Nat, NEW b \in Nat, NEW r \in Nat, NEW s \in Nat, a <= b, r <= s
  PROVE  a * r \in Nat /\ b * s \in Nat /\ a * r <= b * s
<1>1. a * r <= b * r
  OBVIOUS
<1>2. b * r <= b * s
  OBVIOUS
<1> QED
  BY <1>1, <1>2

LEMMA PercentGrows ==
  ASSUME NEW a \in Nat, NEW b \in Nat, NEW r \in Nat, NEW s \in Nat, a <= b, r <= s
  PROVE  Percent(a, r) \in Nat /\ Percent(b, s) \in Nat /\ Percent(a, r) <= Percent(b, s)
<1>1. a * r \in Nat /\ b * s \in Nat /\ a * r <= b * s
  BY TimesGrows
<1> QED
  BY <1>1, RoundGrows DEF Percent
(* The tax of slabs.                                                          *)
End(x, slab) == IF slab.upper = Missing THEN x ELSE Min({slab.upper, x})
Charged(x, slabs) == [i \in DOMAIN slabs |-> Band(x, slabs[i]) * slabs[i].rate]

LEMMA SlabType ==
  ASSUME NEW slabs, SlabsAscend(slabs)
  PROVE  /\ Len(slabs) \in Nat /\ DOMAIN slabs = 1..Len(slabs)
         /\ \A i \in DOMAIN slabs :
              /\ slabs[i].rate \in 0..100 /\ slabs[i].lower \in Nat /\ slabs[i].upper \in Int
              /\ slabs[i].upper = Missing \/ slabs[i].lower <= slabs[i].upper
              /\ i > 1 => slabs[i - 1].upper \in 0..slabs[i].lower
<1> DEFINE T == [lower : Nat, upper : Nat \cup {Missing}, rate : 0..100]
<1>1. slabs \in Seq(T)
  BY DEF SlabsAscend
<1>2. Len(slabs) \in Nat /\ DOMAIN slabs = 1..Len(slabs) /\ \A i \in DOMAIN slabs : slabs[i] \in T
  <2> HIDE DEF T
  <2> QED
    BY <1>1
<1>3. Missing \in Int
  BY DEF Missing
<1>4. ASSUME NEW i \in DOMAIN slabs, i > 1 PROVE slabs[i - 1].upper \in 0..slabs[i].lower
  <2>1. i - 1 \in DOMAIN slabs /\ i - 1 < i
    BY <1>2, <1>4
  <2> QED
    BY <2>1 DEF SlabsAscend
<1>5. \A i \in DOMAIN slabs : slabs[i].upper = Missing \/ slabs[i].lower <= slabs[i].upper
  BY DEF SlabsAscend
<1> QED
  BY <1>2, <1>3, <1>4, <1>5

LEMMA BandIs ==
  ASSUME NEW slabs, SlabsAscend(slabs), NEW i \in DOMAIN slabs, NEW x \in Int
  PROVE  /\ End(x, slabs[i]) = IF slabs[i].upper = Missing \/ x <= slabs[i].upper THEN x ELSE slabs[i].upper
         /\ Band(x, slabs[i]) = IF End(x, slabs[i]) >= slabs[i].lower THEN End(x, slabs[i]) - slabs[i].lower ELSE 0
         /\ End(x, slabs[i]) \in Int /\ Band(x, slabs[i]) \in Nat
<1>2. slabs[i].lower \in Nat /\ slabs[i].upper \in Int
  BY SlabType
<1>3. slabs[i].upper # Missing => Min({slabs[i].upper, x}) = IF x <= slabs[i].upper THEN x ELSE slabs[i].upper
  BY <1>2, MinOfTwo
<1>4. End(x, slabs[i]) = IF slabs[i].upper = Missing \/ x <= slabs[i].upper THEN x ELSE slabs[i].upper
  BY <1>3 DEF End
<1>5. End(x, slabs[i]) \in Int
  BY <1>2, <1>4
<1>6. Band(x, slabs[i]) = AtLeastZero(End(x, slabs[i]) - slabs[i].lower)
  BY DEF Band, End
<1> QED
  BY <1>2, <1>4, <1>5, <1>6, AtLeastZeroIs

(* One more slab: what the slabs up to the i-th charge on the income between  *)
(* x and y is at most all of it that they reach.                              *)
LEMMA ChargedStep ==
  ASSUME NEW slabs, SlabsAscend(slabs), NEW i \in DOMAIN slabs, NEW x \in Int, NEW y \in Int, x <= y
  PROVE  /\ Charged(x, slabs)[i] \in Nat /\ Charged(y, slabs)[i] \in Nat
         /\ Charged(x, slabs)[i] <= Charged(y, slabs)[i]
         /\ Charged(y, slabs)[i] - Charged(x, slabs)[i] <= 100 * (Band(y, slabs[i]) - Band(x, slabs[i]))
<1>1. slabs[i].rate \in 0..100
  BY SlabType
<1> DEFINE a == Band(x, slabs[i])
           b == Band(y, slabs[i])
           r == slabs[i].rate
<1>2. a \in Nat /\ b \in Nat /\ a <= b
  <2>1. slabs[i].lower \in Int /\ slabs[i].upper \in Int
    BY SlabType
  <2> QED
    BY <2>1, BandIs
<1>3. Charged(x, slabs)[i] = a * r /\ Charged(y, slabs)[i] = b * r
  BY DEF Charged
<1> HIDE DEF a, b, r
<1>4. a * r \in Nat /\ b * r \in Nat /\ a * r <= b * r
  BY <1>1, <1>2, TimesGrows DEF r
<1>5. b * r - a * r <= 100 * (b - a)
  <2>1. b - a \in Nat
    BY <1>2
  <2>2. r * (b - a) <= 100 * (b - a)
    BY <1>1, <2>1, TimesBounded DEF r
  <2>3. b * r - a * r = r * (b - a)
    BY <1>1, <1>2 DEF r
  <2> QED
    BY <2>2, <2>3
<1> QED
  BY <1>3, <1>4, <1>5 DEF a, b

Prefix(x, slabs, m) == SumOver(Charged(x, slabs), 1..m)

LEMMA PrefixStep ==
  ASSUME NEW slabs, SlabsAscend(slabs), NEW m \in DOMAIN slabs, NEW x \in Int
  PROVE  /\ Prefix(x, slabs, m) \in Int /\ Prefix(x, slabs, m - 1) \in Int
         /\ Prefix(x, slabs, m) = Charged(x, slabs)[m] + Prefix(x, slabs, m - 1)
<1> DEFINE f == Charged(x, slabs)
<1>1. Len(slabs) \in Nat /\ DOMAIN slabs = 1..Len(slabs)
  BY SlabType
<1>2. ASSUME NEW i \in 1..m PROVE f[i] \in Int
  <2>1. i \in DOMAIN slabs /\ x <= x
    BY <1>1
  <2> QED
    BY <2>1, ChargedStep
<1>3. /\ IsFiniteSet(1..m) /\ IsFiniteSet(1..(m - 1))
      /\ m \in 1..m /\ (1..m) \ {m} = 1..(m - 1) /\ 1..(m - 1) \subseteq 1..m
  <2>1. m \in Int /\ m >= 1 /\ m - 1 \in Int /\ 1 \in Int
    BY <1>1
  <2>2. IsFiniteSet(1..m) /\ IsFiniteSet(1..(m - 1))
    BY <2>1, FS_Interval
  <2>3. m \in 1..m /\ (1..m) \ {m} = 1..(m - 1) /\ 1..(m - 1) \subseteq 1..m
    BY <2>1
  <2> QED
    BY <2>2, <2>3
<1> HIDE DEF f
<1>4. SumOver(f, 1..m) \in Int /\ SumOver(f, 1..(m - 1)) \in Int
  BY <1>2, <1>3, SumType
<1>5. SumOver(f, 1..m) = f[m] + SumOver(f, (1..m) \ {m})
  BY <1>2, <1>3, SumRemove
<1> QED
  BY <1>3, <1>4, <1>5 DEF f, Prefix

LEMMA PrefixBounded ==
  ASSUME NEW slabs, SlabsAscend(slabs), NEW x \in Int, NEW y \in Int, x <= y, NEW m \in DOMAIN slabs
  PROVE  /\ Prefix(x, slabs, m) <= Prefix(y, slabs, m)
         /\ Prefix(y, slabs, m) - Prefix(x, slabs, m) <= 100 * (End(y, slabs[m]) - End(x, slabs[m]))
<1> DEFINE Holds(k) == /\ Prefix(x, slabs, k) <= Prefix(y, slabs, k)
                       /\ Prefix(y, slabs, k) - Prefix(x, slabs, k) <= 100 * (End(y, slabs[k]) - End(x, slabs[k]))
           Bad == {k \in DOMAIN slabs : ~Holds(k)}
<1> SUFFICES ASSUME Bad # {} PROVE FALSE
  OBVIOUS
<1>1. Len(slabs) \in Nat /\ DOMAIN slabs = 1..Len(slabs)
  BY SlabType
<1>2. PICK k \in Bad : \A n \in Bad : k <= n
  <2>1. Bad \subseteq Nat
    BY <1>1
  <2> QED
    BY <2>1, LeastNat
<1>3. k \in DOMAIN slabs /\ k \in 1..Len(slabs)
  BY <1>1
<1> DEFINE s == slabs[k]
<1>4. /\ s.lower \in Nat /\ s.upper \in Int /\ (s.upper = Missing \/ s.lower <= s.upper)
  BY <1>3, SlabType
<1>5. /\ Charged(x, slabs)[k] \in Nat /\ Charged(y, slabs)[k] \in Nat /\ Charged(x, slabs)[k] <= Charged(y, slabs)[k]
      /\ Charged(y, slabs)[k] - Charged(x, slabs)[k] <= 100 * (Band(y, s) - Band(x, s))
  BY <1>3, ChargedStep
<1>6. /\ Prefix(x, slabs, k) = Charged(x, slabs)[k] + Prefix(x, slabs, k - 1) /\ Prefix(x, slabs, k - 1) \in Int
      /\ Prefix(y, slabs, k) = Charged(y, slabs)[k] + Prefix(y, slabs, k - 1) /\ Prefix(y, slabs, k - 1) \in Int
  BY <1>3, PrefixStep
<1>7. ASSUME NEW z \in {x, y}
      PROVE  /\ End(z, s) = IF s.upper = Missing \/ z <= s.upper THEN z ELSE s.upper
             /\ Band(z, s) = IF End(z, s) >= s.lower THEN End(z, s) - s.lower ELSE 0
             /\ End(z, s) \in Int /\ Band(z, s) \in Int
  <2>1. z \in Int
    OBVIOUS
  <2>2. k \in DOMAIN slabs
    BY <1>3
  <2> HIDE DEF Bad, Holds
  <2>3. /\ End(z, slabs[k]) = IF slabs[k].upper = Missing \/ z <= slabs[k].upper THEN z ELSE slabs[k].upper
        /\ Band(z, slabs[k]) = IF End(z, slabs[k]) >= slabs[k].lower THEN End(z, slabs[k]) - slabs[k].lower ELSE 0
        /\ End(z, slabs[k]) \in Int /\ Band(z, slabs[k]) \in Nat
    BY <2>1, <2>2, BandIs
  <2> QED
    BY <2>3
<1>8. CASE k = 1
  <2>1. Prefix(x, slabs, k - 1) = 0 /\ Prefix(y, slabs, k - 1) = 0
    <3>1. 1..(k - 1) = {}
      BY <1>8
    <3> QED
      BY <3>1, SumEmpty DEF Prefix
  <2>2. Band(y, s) - Band(x, s) <= End(y, s) - End(x, s)
    BY <1>4, <1>7
  <2>3. End(y, s) \in Int /\ End(x, s) \in Int /\ Band(x, s) \in Int /\ Band(y, s) \in Int
    BY <1>7
  <2> QED
    BY <1>5, <1>6, <2>1, <2>2, <2>3
<1>9. CASE k # 1
  <2>1. k - 1 \in DOMAIN slabs /\ Holds(k - 1)
    BY <1>1, <1>2, <1>3, <1>9
  <2> DEFINE p == slabs[k - 1]
  <2>2. p.upper \in Nat /\ p.upper <= s.lower /\ p.upper # Missing
    BY <1>1, <1>3, <1>4, <1>9, SlabType DEF Missing
  <2>6. \A z \in {x, y} : End(z, p) = (IF z <= p.upper THEN z ELSE p.upper) /\ End(z, p) \in Int
    BY <2>1, <2>2, BandIs
  <2>3. (End(y, p) - End(x, p)) + (Band(y, s) - Band(x, s)) <= End(y, s) - End(x, s)
    <3> DEFINE l == s.lower
               top == s.upper
               u == p.upper
    <3>1. /\ l \in Nat /\ top \in Int /\ u \in Nat /\ u <= l /\ (top = Missing \/ l <= top)
          /\ x \in Int /\ y \in Int /\ x <= y
      BY <1>4, <2>2
    <3>2. /\ End(x, s) = (IF top = Missing \/ x <= top THEN x ELSE top)
          /\ End(y, s) = (IF top = Missing \/ y <= top THEN y ELSE top)
          /\ Band(x, s) = (IF End(x, s) >= l THEN End(x, s) - l ELSE 0)
          /\ Band(y, s) = (IF End(y, s) >= l THEN End(y, s) - l ELSE 0)
          /\ End(x, p) = (IF x <= u THEN x ELSE u) /\ End(y, p) = (IF y <= u THEN y ELSE u)
      BY <1>7, <2>6
    <3> HIDE DEF l, top, u, s, p
    <3> QED
      BY <3>1, <3>2
  <2>4. End(y, s) \in Int /\ End(x, s) \in Int /\ Band(x, s) \in Int /\ Band(y, s) \in Int
        /\ End(y, p) \in Int /\ End(x, p) \in Int
    BY <1>7, <2>6
  <2>5. /\ Prefix(x, slabs, k - 1) <= Prefix(y, slabs, k - 1)
        /\ Prefix(y, slabs, k - 1) - Prefix(x, slabs, k - 1) <= 100 * (End(y, p) - End(x, p))
    BY <2>1
  <2> QED
    BY <1>5, <1>6, <2>3, <2>4, <2>5
<1> QED
  BY <1>8, <1>9

(* Who earns more pays no less, and of what is earned more at most all.       *)
LEMMA SlabTaxGrows ==
  ASSUME NEW slabs, SlabsAscend(slabs), NEW x \in Int, NEW y \in Int, x <= y
  PROVE  /\ SlabTax(x, slabs) \in Nat /\ SlabTax(y, slabs) \in Nat
         /\ SlabTax(x, slabs) <= SlabTax(y, slabs)
         /\ SlabTax(y, slabs) - SlabTax(x, slabs) <= y - x
<1> DEFINE n == Len(slabs)
<1>1. n \in Nat /\ DOMAIN slabs = 1..n /\ IsFiniteSet(1..n)
  <2>1. n \in Nat /\ DOMAIN slabs = 1..n /\ 1 \in Int /\ n \in Int
    BY SlabType
  <2> QED
    BY <2>1, FS_Interval
<1>2. SlabTax(x, slabs) = Round(Prefix(x, slabs, n)) /\ SlabTax(y, slabs) = Round(Prefix(y, slabs, n))
  BY <1>1 DEF SlabTax, Total, Prefix, Charged
<1>3. Prefix(x, slabs, n) \in Nat /\ Prefix(y, slabs, n) \in Nat
  BY <1>1, ChargedStep, SumNat DEF Prefix
<1>4. /\ Prefix(x, slabs, n) <= Prefix(y, slabs, n)
      /\ Prefix(y, slabs, n) - Prefix(x, slabs, n) <= 100 * (y - x)
  <2>1. CASE n = 0
    <3>1. 1..n = {}
      BY <2>1
    <3>2. Prefix(x, slabs, n) = 0 /\ Prefix(y, slabs, n) = 0
      BY <3>1, SumEmpty DEF Prefix
    <3> QED
      BY <3>2
  <2>2. CASE n # 0
    <3>1. n \in DOMAIN slabs
      BY <1>1, <2>2
    <3>2. End(y, slabs[n]) - End(x, slabs[n]) <= y - x /\ End(y, slabs[n]) \in Int /\ End(x, slabs[n]) \in Int
      <4>1. slabs[n].upper \in Int
        BY <3>1, SlabType
      <4>2. \A z \in {x, y} : End(z, slabs[n]) = IF slabs[n].upper = Missing \/ z <= slabs[n].upper THEN z ELSE slabs[n].upper
        BY <3>1, BandIs
      <4> QED
        BY <4>1, <4>2
    <3> QED
      BY <3>1, <3>2, <1>3, PrefixBounded
  <2> QED
    BY <2>1, <2>2
<1> HIDE DEF n
<1>5. y - x \in Int
  OBVIOUS
<1> QED
  BY <1>2, <1>3, <1>4, <1>5, RoundGrows

(* Tax after rebate.                                                          *)
LEMMA MinIn ==
  ASSUME NEW S, S \subseteq Nat, S # {}
  PROVE  Min(S) \in S /\ \A n \in S : Min(S) <= n
<1>1. \E m \in S : \A n \in S : m <= n
  BY LeastNat
<1> QED
  BY <1>1 DEF Min

Fits(x, rules) == {i \in DOMAIN rules.rebates : x <= rules.rebates[i].maximum}

LEMMA RebateType ==
  ASSUME NEW rules, RebatesDescend(rules)
  PROVE  /\ DOMAIN rules.rebates \subseteq Nat
         /\ \A i \in DOMAIN rules.rebates : rules.rebates[i].rebate \in Nat /\ rules.rebates[i].maximum \in Nat
<1> DEFINE T == [maximum : Nat, rebate : Nat]
           r == rules.rebates
<1>1. r \in Seq(T)
  BY DEF RebatesDescend
<1>2. DOMAIN r = 1..Len(r) /\ Len(r) \in Nat /\ \A i \in DOMAIN r : r[i] \in T
  <2> HIDE DEF T, r
  <2> QED
    BY <1>1
<1> QED
  BY <1>2

LEMMA AfterIs ==
  ASSUME NEW rules, Ascending(rules), NEW x \in Int
  PROVE  LET t == SlabTax(x, rules.slabs)
             f == Fits(x, rules)
             r == rules.rebates[Min(f)].rebate IN
         /\ TaxAfterRebate(x, rules) = IF f = {} THEN t ELSE IF t <= r THEN 0 ELSE t - r
         /\ f # {} => Min(f) \in f /\ r \in Nat
         /\ TaxAfterRebate(x, rules) \in Nat /\ TaxAfterRebate(x, rules) <= t
<1> DEFINE t == SlabTax(x, rules.slabs)
           f == Fits(x, rules)
           r == rules.rebates[Min(f)].rebate
<1>1. t \in Nat
  BY SlabTaxGrows DEF Ascending
<1>2. ASSUME f # {} PROVE Min(f) \in f /\ r \in Nat
  <2>1. f \subseteq Nat
    BY RebateType DEF Ascending, Fits
  <2>2. Min(f) \in f
    BY <1>2, <2>1, MinIn
  <2>3. Min(f) \in DOMAIN rules.rebates
    BY <2>2 DEF Fits
  <2> QED
    BY <2>2, <2>3, RebateType DEF Ascending
<1>3. TaxAfterRebate(x, rules) = t - (IF f = {} THEN 0 ELSE Min({t, r}))
  BY DEF TaxAfterRebate, Rebate, Fits
<1>4. f # {} => Min({t, r}) = IF t <= r THEN t ELSE r
  BY <1>1, <1>2, MinOfTwo
<1> HIDE DEF t, f, r
<1>5. TaxAfterRebate(x, rules) = IF f = {} THEN t ELSE IF t <= r THEN 0 ELSE t - r
  BY <1>1, <1>2, <1>3, <1>4
<1>6. TaxAfterRebate(x, rules) \in Nat /\ TaxAfterRebate(x, rules) <= t
  BY <1>1, <1>2, <1>5
<1> QED
  BY <1>2, <1>5, <1>6 DEF t, f, r

LEMMA AfterGrows ==
  ASSUME NEW rules, Ascending(rules), NEW x \in Int, NEW y \in Int, x <= y
  PROVE  /\ TaxAfterRebate(x, rules) \in Nat /\ TaxAfterRebate(y, rules) \in Nat
         /\ TaxAfterRebate(x, rules) <= TaxAfterRebate(y, rules)
<1> DEFINE t == SlabTax(x, rules.slabs)
           u == SlabTax(y, rules.slabs)
           f == Fits(x, rules)
           g == Fits(y, rules)
           r == rules.rebates[Min(f)].rebate
           s == rules.rebates[Min(g)].rebate
<1>1. t \in Nat /\ u \in Nat /\ t <= u
  BY SlabTaxGrows DEF Ascending
<1>2. /\ TaxAfterRebate(x, rules) = IF f = {} THEN t ELSE IF t <= r THEN 0 ELSE t - r
      /\ f # {} => Min(f) \in f /\ r \in Nat
      /\ TaxAfterRebate(x, rules) \in Nat /\ TaxAfterRebate(x, rules) <= t
  BY AfterIs
<1>3. /\ TaxAfterRebate(y, rules) = IF g = {} THEN u ELSE IF u <= s THEN 0 ELSE u - s
      /\ g # {} => Min(g) \in g /\ s \in Nat
      /\ TaxAfterRebate(y, rules) \in Nat
  BY AfterIs
<1>4. g \subseteq f
  BY RebateType DEF Ascending, Fits
<1>5. g # {} => r >= s
  <2> SUFFICES ASSUME g # {} PROVE r >= s
    OBVIOUS
  <2>1. f \subseteq Nat /\ f \subseteq DOMAIN rules.rebates /\ f # {}
    BY <1>4, RebateType DEF Ascending, Fits
  <2>2. Min(f) \in f /\ Min(f) <= Min(g)
    BY <1>3, <1>4, <2>1, MinIn
  <2>3. Min(g) \in Nat /\ Min(f) \in Nat /\ Min(g) \in DOMAIN rules.rebates /\ Min(f) \in DOMAIN rules.rebates
    BY <1>3, <1>4, <2>1, <2>2
  <2>4. CASE Min(f) = Min(g)
    BY <2>4, <1>3
  <2>5. CASE Min(f) # Min(g)
    <3>1. Min(f) < Min(g)
      BY <2>2, <2>3, <2>5
    <3> QED
      BY <2>3, <3>1 DEF Ascending, RebatesDescend
  <2> QED
    BY <2>4, <2>5
<1> HIDE DEF t, u, f, g, r, s
<1> QED
  BY <1>1, <1>2, <1>3, <1>4, <1>5

(* Surcharges.                                                                *)
At(n, rules)    == rules.surcharges[n].threshold
Rate(n, rules)  == rules.surcharges[n].rate
Prior(n, rules) == IF n = 1 THEN 0 ELSE Rate(n - 1, rules)
Base(n, rules)  == TaxAfterRebate(At(n, rules), rules) + Percent(TaxAfterRebate(At(n, rules), rules), Prior(n, rules))

LEMMA SurchargeType ==
  ASSUME NEW rules, SurchargesAscend(rules)
  PROVE  /\ Len(rules.surcharges) \in Nat /\ DOMAIN rules.surcharges = 1..Len(rules.surcharges)
         /\ \A n \in DOMAIN rules.surcharges : At(n, rules) \in Nat /\ Rate(n, rules) \in Nat /\ Prior(n, rules) \in Nat
         /\ \A m, n \in DOMAIN rules.surcharges : m <= n => At(m, rules) <= At(n, rules) /\ Rate(m, rules) <= Rate(n, rules)
         /\ \A m, n \in DOMAIN rules.surcharges : m < n => At(m, rules) < At(n, rules)
<1> DEFINE T == [threshold : Nat, rate : Nat]
           r == rules.surcharges
<1>1. r \in Seq(T)
  BY DEF SurchargesAscend
<1>2. DOMAIN r = 1..Len(r) /\ Len(r) \in Nat /\ \A i \in DOMAIN r : r[i] \in T
  <2> HIDE DEF T, r
  <2> QED
    BY <1>1
<1>3. \A n \in DOMAIN r : At(n, rules) \in Nat /\ Rate(n, rules) \in Nat
  BY <1>2 DEF At, Rate
<1>4. ASSUME NEW n \in DOMAIN r PROVE Prior(n, rules) \in Nat
  <2>1. n = 1 \/ n - 1 \in DOMAIN r
    BY <1>2
  <2> QED
    BY <1>3, <2>1 DEF Prior
<1>5. \A m, n \in DOMAIN r : m < n => At(m, rules) < At(n, rules) /\ Rate(m, rules) <= Rate(n, rules)
  BY DEF SurchargesAscend, At, Rate
<1>6. ASSUME NEW m \in DOMAIN r, NEW n \in DOMAIN r, m <= n
      PROVE  At(m, rules) <= At(n, rules) /\ Rate(m, rules) <= Rate(n, rules)
  <2>1. m = n \/ m < n
    BY <1>2, <1>6
  <2>2. At(m, rules) \in Nat /\ Rate(m, rules) \in Nat /\ At(n, rules) \in Nat /\ Rate(n, rules) \in Nat
    BY <1>3
  <2> QED
    BY <1>5, <2>1, <2>2
<1> QED
  BY <1>2, <1>3, <1>4, <1>5, <1>6

LEMMA CrossedIs ==
  ASSUME NEW rules, SurchargesAscend(rules), NEW x \in Int
  PROVE  /\ Crossed(x, rules) \in 0..Len(rules.surcharges)
         /\ \A n \in DOMAIN rules.surcharges : x > At(n, rules) <=> n <= Crossed(x, rules)
<1> DEFINE L == Len(rules.surcharges)
           S == {n \in 1..L : x > At(n, rules)}
           Rest == {n \in 1..(L + 1) : n \notin S}
<1>1. L \in Nat /\ DOMAIN rules.surcharges = 1..L
  BY SurchargeType
<1>2. Crossed(x, rules) = Cardinality(S)
  BY <1>1 DEF Crossed, At
<1>3. Rest \subseteq Nat /\ Rest # {}
  <2>1. L + 1 \in Rest
    BY <1>1
  <2> QED
    BY <1>1, <2>1
<1>4. PICK m \in Rest : \A n \in Rest : m <= n
  BY <1>3, LeastNat
<1>5. m \in 1..(L + 1) /\ m \notin S
  OBVIOUS
<1>6. \A n \in 1..L : n \in S <=> n <= m - 1
  <2>1. ASSUME NEW n \in 1..L, n <= m - 1 PROVE n \in S
    <3>1. ~(m <= n) /\ n \in 1..(L + 1)
      BY <1>1, <1>5, <2>1
    <3> QED
      BY <1>4, <3>1
  <2>2. ASSUME NEW n \in S, ~(n <= m - 1) PROVE FALSE
    <3>1. n \in 1..L /\ m \in 1..L /\ m <= n
      BY <1>1, <1>5, <2>2
    <3>2. At(m, rules) \in Nat /\ At(n, rules) \in Nat /\ At(m, rules) <= At(n, rules)
      BY <1>1, <3>1, SurchargeType
    <3>3. x > At(m, rules)
      BY <3>2
    <3> QED
      BY <1>5, <3>1, <3>3
  <2> QED
    BY <2>1, <2>2
<1>7. S = 1..(m - 1)
  <2>1. S \subseteq 1..(m - 1)
    BY <1>1, <1>5, <1>6
  <2>2. 1..(m - 1) \subseteq 1..L
    BY <1>1, <1>5
  <2> QED
    BY <1>1, <1>5, <1>6, <2>1, <2>2
<1>8. Cardinality(S) = m - 1
  <2>1. 1 \in Int /\ m - 1 \in Int /\ m - 1 >= 0
    BY <1>1, <1>5
  <2>2. Cardinality(1..(m - 1)) = IF 1 > m - 1 THEN 0 ELSE m - 1 - 1 + 1
    BY <2>1, FS_Interval
  <2>3. Cardinality(1..(m - 1)) = m - 1
    <3> HIDE DEF S, Rest, L
    <3> QED
      BY <2>1, <2>2
  <2> QED
    BY <1>7, <2>3
<1>9. Crossed(x, rules) = m - 1
  BY <1>2, <1>8
<1>10. Crossed(x, rules) \in 0..L
  BY <1>1, <1>5, <1>9
<1>11. \A n \in DOMAIN rules.surcharges : x > At(n, rules) <=> n <= Crossed(x, rules)
  <2>1. ASSUME NEW n \in 1..L PROVE x > At(n, rules) <=> n \in S
    OBVIOUS
  <2> QED
    BY <1>1, <1>6, <1>9, <2>1
<1> QED
  BY <1>10, <1>11

LEMMA PercentZero == ASSUME NEW a \in Int PROVE Percent(a, 0) = 0
<1>1. a * 0 = 0
  OBVIOUS
<1> QED
  BY <1>1 DEF Percent, Round

(* Above a threshold no rebate is left.                                       *)
LEMMA AfterAbove ==
  ASSUME NEW rules, Ascending(rules), NEW n \in DOMAIN rules.surcharges, NEW x \in Int, At(n, rules) <= x
  PROVE  TaxAfterRebate(x, rules) = SlabTax(x, rules.slabs)
<1>1. Fits(x, rules) = {}
  <2>1. ASSUME NEW i \in DOMAIN rules.rebates PROVE rules.rebates[i].maximum < At(n, rules) /\ rules.rebates[i].maximum \in Nat
    BY RebateType DEF Ascending, RebatesDescend, At
  <2>2. At(n, rules) \in Nat
    BY SurchargeType DEF Ascending
  <2> QED
    BY <2>1, <2>2 DEF Fits
<1> QED
  BY <1>1, AfterIs

Flat(x, rules) == Percent(TaxAfterRebate(x, rules), Rate(Crossed(x, rules), rules))

LEMMA BaseType ==
  ASSUME NEW rules, Ascending(rules), NEW n \in DOMAIN rules.surcharges
  PROVE  /\ Base(n, rules) \in Nat /\ Base(n, rules) >= TaxAfterRebate(At(n, rules), rules)
         /\ TaxAfterRebate(At(n, rules), rules) \in Nat
<1>1. At(n, rules) \in Nat /\ Prior(n, rules) \in Nat
  BY SurchargeType DEF Ascending
<1>2. TaxAfterRebate(At(n, rules), rules) \in Nat
  <2>1. At(n, rules) \in Int
    BY <1>1
  <2> QED
    BY <2>1, AfterIs
<1>3. Percent(TaxAfterRebate(At(n, rules), rules), Prior(n, rules)) \in Nat
  <2>1. Prior(n, rules) <= Prior(n, rules) /\ TaxAfterRebate(At(n, rules), rules) <= TaxAfterRebate(At(n, rules), rules)
    BY <1>1, <1>2
  <2> QED
    BY <1>1, <1>2, <2>1, PercentGrows
<1> QED
  BY <1>2, <1>3 DEF Base

(* The relief caps what is due at what is due at the threshold and the income *)
(* above it.                                                                  *)
LEMMA DueIs ==
  ASSUME NEW rules, Ascending(rules), NEW x \in Int
  PROVE  LET n == Crossed(x, rules)
             a == TaxAfterRebate(x, rules)
             f == Flat(x, rules)
             c == Base(n, rules) + (x - At(n, rules)) IN
         /\ a \in Nat
         /\ n = 0 => Due(x, rules) = a
         /\ n # 0 => /\ n \in DOMAIN rules.surcharges /\ At(n, rules) < x /\ f \in Nat /\ c \in Nat
                     /\ Due(x, rules) = IF a + f <= c THEN a + f ELSE IF a <= c THEN c ELSE a
<1> DEFINE n == Crossed(x, rules)
           a == TaxAfterRebate(x, rules)
           f == Flat(x, rules)
           c == Base(n, rules) + (x - At(n, rules))
           e == MarginalRelief(x, f, n, rules)
<1>1. a \in Nat
  BY AfterIs
<1>2. n = 0 => Due(x, rules) = a
  BY <1>1 DEF Due, Surcharge
<1>3. ASSUME n # 0
      PROVE  /\ n \in DOMAIN rules.surcharges /\ At(n, rules) < x /\ f \in Nat /\ c \in Nat
             /\ Due(x, rules) = IF a + f <= c THEN a + f ELSE IF a <= c THEN c ELSE a
  <2>1. n \in DOMAIN rules.surcharges
    <3>1. n \in 0..Len(rules.surcharges) /\ DOMAIN rules.surcharges = 1..Len(rules.surcharges) /\ Len(rules.surcharges) \in Nat
      BY CrossedIs, SurchargeType DEF Ascending
    <3> HIDE DEF n
    <3> QED
      BY <1>3, <3>1
  <2>2. At(n, rules) \in Nat /\ Rate(n, rules) \in Nat
    BY <2>1, SurchargeType DEF Ascending
  <2>3. At(n, rules) < x
    <3>1. x > At(n, rules) <=> n <= n
      BY <2>1, CrossedIs DEF Ascending
    <3>2. n \in Int
      BY CrossedIs, SurchargeType DEF Ascending
    <3> QED
      BY <2>2, <3>1, <3>2
  <2>4. f \in Nat
    <3>1. a <= a /\ Rate(n, rules) <= Rate(n, rules)
      BY <1>1, <2>2
    <3>2. Percent(a, Rate(n, rules)) \in Nat
      BY <1>1, <2>2, <3>1, PercentGrows
    <3> QED
      BY <3>2 DEF Flat
  <2>5. c \in Nat
    <3>1. Base(n, rules) \in Nat
      BY <2>1, BaseType
    <3> HIDE DEF n
    <3> QED
      BY <2>2, <2>3, <3>1
  <2>6. Surcharge(x, rules) = AtLeastZero(f - e)
    BY <1>3 DEF Surcharge, Flat, Rate
  <2>7. e = IF f = 0 THEN 0 ELSE Min({f, AtLeastZero(a + f - c)})
    BY DEF MarginalRelief, Base, At, Prior, Rate
  <2> HIDE DEF a, f, c, e, n
  <2>8. AtLeastZero(a + f - c) = IF a + f >= c THEN a + f - c ELSE 0
    BY <1>1, <2>4, <2>5, AtLeastZeroIs
  <2>9. Min({f, AtLeastZero(a + f - c)}) = IF f <= AtLeastZero(a + f - c) THEN f ELSE AtLeastZero(a + f - c)
    BY <1>1, <2>4, <2>5, <2>8, MinOfTwo
  <2>10. AtLeastZero(f - e) = IF f >= e THEN f - e ELSE 0
    <3>1. e \in Int
      BY <1>1, <2>4, <2>5, <2>7, <2>8, <2>9
    <3> QED
      BY <2>4, <3>1, AtLeastZeroIs
  <2>11. a + Surcharge(x, rules) = IF a + f <= c THEN a + f ELSE IF a <= c THEN c ELSE a
    BY <1>1, <2>4, <2>5, <2>6, <2>7, <2>8, <2>9, <2>10
  <2> QED
    BY <2>1, <2>3, <2>4, <2>5, <2>11 DEF Due, a
<1> QED
  BY <1>1, <1>2, <1>3

(* So the smaller of tax with surcharge and that bound is due.                *)
LEMMA DueAbove ==
  ASSUME NEW rules, Ascending(rules), NEW x \in Int, Crossed(x, rules) # 0
  PROVE  LET n == Crossed(x, rules)
             a == TaxAfterRebate(x, rules)
             f == Flat(x, rules)
             c == Base(n, rules) + (x - At(n, rules)) IN
         /\ n \in DOMAIN rules.surcharges /\ n \in Nat /\ At(n, rules) < x
         /\ a \in Nat /\ f \in Nat /\ c \in Nat /\ a <= c
         /\ Due(x, rules) = IF a + f <= c THEN a + f ELSE c
<1> DEFINE n == Crossed(x, rules)
           a == TaxAfterRebate(x, rules)
           f == Flat(x, rules)
           b == TaxAfterRebate(At(n, rules), rules)
           c == Base(n, rules) + (x - At(n, rules))
<1>1. /\ n \in DOMAIN rules.surcharges /\ At(n, rules) < x /\ a \in Nat /\ f \in Nat /\ c \in Nat
      /\ Due(x, rules) = IF a + f <= c THEN a + f ELSE IF a <= c THEN c ELSE a
  BY DueIs
<1>2. At(n, rules) \in Nat /\ n \in Nat
  BY <1>1, SurchargeType DEF Ascending
<1>3. a - b <= x - At(n, rules)
  <2>1. At(n, rules) \in Int /\ At(n, rules) <= x /\ At(n, rules) <= At(n, rules)
    BY <1>1, <1>2
  <2>2. a = SlabTax(x, rules.slabs) /\ b = SlabTax(At(n, rules), rules.slabs)
    BY <1>1, <2>1, AfterAbove
  <2>3. SlabTax(x, rules.slabs) - SlabTax(At(n, rules), rules.slabs) <= x - At(n, rules)
    BY <2>1, SlabTaxGrows DEF Ascending
  <2> QED
    BY <2>2, <2>3
<1>4. Base(n, rules) \in Nat /\ Base(n, rules) >= b /\ b \in Nat
  BY <1>1, BaseType
<1>5. a <= c
  <2> HIDE DEF a, b, n
  <2> QED
    BY <1>1, <1>2, <1>3, <1>4
<1> QED
  BY <1>1, <1>2, <1>5

LEMMA DueType == ASSUME NEW rules, Ascending(rules), NEW x \in Int
                 PROVE  Due(x, rules) \in Nat /\ Due(x, rules) >= TaxAfterRebate(x, rules)
<1> DEFINE n == Crossed(x, rules)
           a == TaxAfterRebate(x, rules)
           f == Flat(x, rules)
           c == Base(n, rules) + (x - At(n, rules))
<1>1. CASE n = 0
  BY <1>1, DueIs
<1>2. CASE n # 0
  <2>1. a \in Nat /\ f \in Nat /\ c \in Nat /\ a <= c /\ Due(x, rules) = IF a + f <= c THEN a + f ELSE c
    BY <1>2, DueAbove
  <2> HIDE DEF a, f, c
  <2> QED
    BY <2>1 DEF a
<1> QED
  BY <1>1, <1>2

(* At the n-th threshold itself the n - 1 rules before it are crossed, and    *)
(* the relief above the last of them has run out.                             *)
LEMMA DueAtThreshold ==
  ASSUME NEW rules, Ascending(rules), NEW n \in DOMAIN rules.surcharges
  PROVE  Crossed(At(n, rules), rules) = n - 1 /\ Due(At(n, rules), rules) = Base(n, rules)
<1> DEFINE L == Len(rules.surcharges)
           x == At(n, rules)
           a == TaxAfterRebate(x, rules)
<1>1. L \in Nat /\ DOMAIN rules.surcharges = 1..L /\ x \in Nat /\ n \in 1..L
  BY SurchargeType DEF Ascending
<1>2. Crossed(x, rules) \in 0..L /\ \A m \in 1..L : x > At(m, rules) <=> m <= Crossed(x, rules)
  <2>1. SurchargesAscend(rules) /\ x \in Int
    BY <1>1 DEF Ascending
  <2> HIDE DEF x
  <2> QED
    BY <1>1, <2>1, CrossedIs
<1>3. ~(n <= Crossed(x, rules))
  <2>1. ~(x > x)
    BY <1>1
  <2> QED
    BY <1>1, <1>2, <2>1
<1>4. n > 1 => n - 1 <= Crossed(x, rules)
  <2> SUFFICES ASSUME n > 1 PROVE n - 1 <= Crossed(x, rules)
    OBVIOUS
  <2>1. n - 1 \in DOMAIN rules.surcharges /\ n - 1 < n
    BY <1>1
  <2>2. At(n - 1, rules) < x /\ At(n - 1, rules) \in Nat
    BY <2>1, SurchargeType DEF Ascending
  <2> QED
    BY <1>1, <1>2, <2>1, <2>2
<1>5. Crossed(x, rules) = n - 1
  BY <1>1, <1>2, <1>3, <1>4
<1>6. a \in Nat
  BY <1>1, AfterIs
<1>7. CASE n = 1
  <2>1. Due(x, rules) = a
    BY <1>1, <1>5, <1>7, DueIs
  <2>2. Base(n, rules) = a + Percent(a, 0)
    BY <1>7 DEF Base, Prior
  <2> QED
    BY <1>5, <1>6, <2>1, <2>2, PercentZero
<1>8. CASE n # 1
  <2>1. n > 1 /\ n - 1 # 0 /\ n - 1 \in DOMAIN rules.surcharges
    BY <1>1, <1>8
  <2> DEFINE f == Percent(a, Rate(n - 1, rules))
  <2>2. MarginalRelief(x, f, n - 1, rules) = 0
    BY <2>1 DEF Ascending, SurchargesAscend, At, Rate
  <2>3. f \in Nat
    <3>1. Rate(n - 1, rules) \in Nat
      BY <2>1, SurchargeType DEF Ascending
    <3>2. a <= a /\ Rate(n - 1, rules) <= Rate(n - 1, rules)
      BY <1>6, <3>1
    <3> QED
      BY <1>6, <3>1, <3>2, PercentGrows
  <2>4. Surcharge(x, rules) = AtLeastZero(f - 0)
    BY <1>5, <2>1, <2>2 DEF Surcharge, Rate
  <2>5. AtLeastZero(f - 0) = f
    <3>1. f - 0 = f /\ f >= 0 /\ f \in Int
      BY <2>3
    <3> QED
      BY <3>1, AtLeastZeroIs
  <2>6. Base(n, rules) = a + f
    BY <1>8 DEF Base, Prior
  <2> QED
    BY <1>5, <2>4, <2>5, <2>6 DEF Due
<1> QED
  BY <1>7, <1>8

(* Who earns more is due no less.                                             *)
LEMMA DueGrows ==
  ASSUME NEW rules, Ascending(rules), NEW x \in Int, NEW y \in Int, x <= y
  PROVE  Due(x, rules) <= Due(y, rules)
<1> DEFINE m == Crossed(x, rules)
           n == Crossed(y, rules)
           a == TaxAfterRebate(x, rules)
           b == TaxAfterRebate(y, rules)
<1>1. a \in Nat /\ b \in Nat /\ a <= b
  BY AfterGrows
<1>2. m \in Nat /\ n \in Nat /\ m <= n
  <2> DEFINE L == Len(rules.surcharges)
  <2>1. L \in Nat /\ DOMAIN rules.surcharges = 1..L
    BY SurchargeType DEF Ascending
  <2>2. m \in 0..L /\ n \in 0..L
    BY CrossedIs DEF Ascending
  <2>3. ASSUME m > n PROVE FALSE
    <3>1. m \in DOMAIN rules.surcharges
      BY <2>1, <2>2, <2>3
    <3>2. x > At(m, rules) /\ ~(y > At(m, rules)) /\ At(m, rules) \in Nat
      <4>1. m <= m /\ ~(m <= n)
        BY <2>2, <2>3
      <4> QED
        BY <3>1, <4>1, CrossedIs, SurchargeType DEF Ascending
    <3> QED
      BY <3>2
  <2> QED
    BY <2>1, <2>2, <2>3
<1>3. CASE n = 0
  <2>1. m = 0
    BY <1>2, <1>3
  <2> QED
    BY <1>1, <1>3, <2>1, DueIs
<1>4. CASE n # 0
  <2> DEFINE f == Flat(x, rules)
             g == Flat(y, rules)
             t == At(n, rules)
             c == Base(n, rules) + (x - t)
             d == Base(n, rules) + (y - t)
  <2>1. /\ n \in DOMAIN rules.surcharges /\ t < y /\ b \in Nat /\ g \in Nat /\ d \in Nat /\ b <= d
        /\ Due(y, rules) = IF b + g <= d THEN b + g ELSE d
    BY <1>4, DueAbove
  <2>2. t \in Nat /\ Rate(n, rules) \in Nat /\ Prior(n, rules) \in Nat
    BY <2>1, SurchargeType DEF Ascending
  <2>3. Base(n, rules) \in Nat
    BY <2>1, BaseType
  <2>4. CASE m = n
    <3>1. m # 0
      BY <1>4, <2>4
    <3>2. a \in Nat /\ f \in Nat /\ c \in Nat /\ Due(x, rules) = IF a + f <= c THEN a + f ELSE c
      BY <2>4, <3>1, DueAbove
    <3>3. f <= g
      <4>1. Rate(n, rules) <= Rate(n, rules)
        BY <2>2
      <4>2. Percent(a, Rate(n, rules)) <= Percent(b, Rate(n, rules))
        BY <1>1, <2>2, <4>1, PercentGrows
      <4> QED
        BY <2>4, <4>2 DEF Flat
    <3> HIDE DEF a, b, f, g, m, n, t
    <3> QED
      BY <1>1, <2>1, <2>2, <2>3, <3>2, <3>3
  <2>5. CASE m # n
    <3>1. m < n
      BY <1>2, <2>5
    <3>2. x <= t
      <4>1. ~(n <= m)
        BY <1>2, <3>1
      <4>2. ~(x > t)
        BY <2>1, <4>1, CrossedIs DEF Ascending
      <4> QED
        BY <2>2, <4>2
    <3>3. Base(n, rules) <= Due(y, rules)
      <4> DEFINE h == TaxAfterRebate(t, rules)
      <4>1. h \in Nat /\ h <= b
        <5>1. t <= y /\ t \in Int
          BY <2>1, <2>2
        <5> QED
          BY <5>1, AfterGrows
      <4>2. Prior(n, rules) <= Rate(n, rules)
        <5>1. CASE n = 1
          BY <2>2, <5>1 DEF Prior
        <5>2. CASE n # 1
          <6>1. n - 1 \in DOMAIN rules.surcharges /\ n - 1 <= n
            BY <2>1, <5>2, SurchargeType DEF Ascending
          <6> QED
            BY <2>1, <5>2, <6>1, SurchargeType DEF Ascending, Prior
        <5> QED
          BY <5>1, <5>2
      <4>3. Percent(h, Prior(n, rules)) <= g /\ Percent(h, Prior(n, rules)) \in Nat
        <5>1. Percent(h, Prior(n, rules)) <= Percent(b, Rate(n, rules)) /\ Percent(h, Prior(n, rules)) \in Nat
          BY <1>1, <2>2, <4>1, <4>2, PercentGrows
        <5> QED
          BY <5>1 DEF Flat
      <4>4. Base(n, rules) = h + Percent(h, Prior(n, rules))
        BY DEF Base
      <4>5. Base(n, rules) <= b + g
        <5> HIDE DEF b, g, h, n, t
        <5> QED
          BY <1>1, <2>1, <4>1, <4>3, <4>4
      <4>6. Base(n, rules) <= d
        <5> HIDE DEF n, t
        <5> QED
          BY <2>1, <2>2, <2>3
      <4> QED
        BY <2>1, <4>5, <4>6
    <3>4. Due(x, rules) <= Base(n, rules)
      <4>1. CASE m = 0
        <5>1. Due(x, rules) = a
          BY <4>1, DueIs
        <5>2. a <= TaxAfterRebate(t, rules)
          <6>1. t \in Int
            BY <2>2
          <6> QED
            BY <3>2, <6>1, AfterGrows
        <5>3. Base(n, rules) >= TaxAfterRebate(t, rules) /\ TaxAfterRebate(t, rules) \in Nat
          BY <2>1, BaseType
        <5> QED
          BY <1>1, <2>3, <5>1, <5>2, <5>3
      <4>2. CASE m # 0
        <5>1. a \in Nat /\ f \in Nat /\ Due(x, rules) <= a + f /\ Due(x, rules) \in Nat /\ m \in DOMAIN rules.surcharges
          <6> DEFINE e == Base(m, rules) + (x - At(m, rules))
          <6>1. a \in Nat /\ f \in Nat /\ e \in Nat /\ Due(x, rules) = (IF a + f <= e THEN a + f ELSE e) /\ m \in DOMAIN rules.surcharges
            BY <4>2, DueAbove
          <6> HIDE DEF a, f, e, m
          <6> QED
            BY <6>1
        <5> DEFINE h == TaxAfterRebate(t, rules)
        <5>2. h \in Nat /\ a <= h
          <6>1. t \in Int
            BY <2>2
          <6> QED
            BY <3>2, <6>1, AfterGrows
        <5>3. n - 1 \in DOMAIN rules.surcharges /\ m <= n - 1 /\ n # 1
          BY <1>2, <2>1, <3>1, <4>2, SurchargeType DEF Ascending
        <5>4. Rate(m, rules) \in Nat /\ Rate(m, rules) <= Prior(n, rules)
          BY <5>1, <5>3, SurchargeType DEF Ascending, Prior
        <5>5. f <= Percent(h, Prior(n, rules)) /\ Percent(h, Prior(n, rules)) \in Nat
          <6>1. Percent(a, Rate(m, rules)) <= Percent(h, Prior(n, rules)) /\ Percent(h, Prior(n, rules)) \in Nat
            BY <1>1, <2>2, <5>2, <5>4, PercentGrows
          <6> QED
            BY <6>1 DEF Flat
        <5>6. Base(n, rules) = h + Percent(h, Prior(n, rules))
          BY DEF Base
        <5> HIDE DEF a, f, h, m, n, t
        <5> QED
          BY <1>1, <5>1, <5>2, <5>5, <5>6
      <4> QED
        BY <4>1, <4>2
    <3>5. Due(x, rules) \in Nat /\ Due(y, rules) \in Nat
      BY DueType
    <3> QED
      BY <2>3, <3>3, <3>4, <3>5
  <2> QED
    BY <2>4, <2>5
<1> QED
  BY <1>3, <1>4

(* Of what is earned above a threshold, at most all of it is due.             *)
LEMMA DueCapped ==
  ASSUME NEW rules, Ascending(rules), NEW k \in DOMAIN rules.surcharges, NEW x \in Int, At(k, rules) <= x
  PROVE  Due(x, rules) - Due(At(k, rules), rules) <= x - At(k, rules)
<1> DEFINE L == Len(rules.surcharges)
           Chained(n) == Base(n, rules) - Base(k, rules) <= At(n, rules) - At(k, rules)
           Bad == {n \in k..L : ~Chained(n)}
<1>1. L \in Nat /\ DOMAIN rules.surcharges = 1..L /\ k \in 1..L
  BY SurchargeType DEF Ascending
<1>2. \A n \in k..L : n \in DOMAIN rules.surcharges
  BY <1>1
<1>3. \A n \in k..L : Base(n, rules) \in Nat /\ At(n, rules) \in Nat
  BY <1>2, BaseType, SurchargeType DEF Ascending
<1>4. ASSUME NEW y \in Int, Crossed(y, rules) # 0
      PROVE  Due(y, rules) - Base(Crossed(y, rules), rules) <= y - At(Crossed(y, rules), rules)
  <2> DEFINE n == Crossed(y, rules)
             a == TaxAfterRebate(y, rules)
             f == Flat(y, rules)
             c == Base(n, rules) + (y - At(n, rules))
  <2>1. /\ n \in DOMAIN rules.surcharges /\ a \in Nat /\ f \in Nat /\ c \in Nat
        /\ Due(y, rules) = IF a + f <= c THEN a + f ELSE c
    BY <1>4, DueAbove
  <2>2. Base(n, rules) \in Nat /\ At(n, rules) \in Nat
    BY <2>1, BaseType, SurchargeType DEF Ascending
  <2> HIDE DEF a, f, n
  <2> QED
    BY <2>1, <2>2 DEF n
<1>5. \A n \in k..L : Chained(n)
  <2> SUFFICES ASSUME Bad # {} PROVE FALSE
    OBVIOUS
  <2>1. Bad \subseteq Nat
    BY <1>1
  <2>2. PICK n \in Bad : \A i \in Bad : n <= i
    BY <2>1, LeastNat
  <2>3. n \in k..L /\ n # k
    <3>1. n \in k..L /\ ~Chained(n)
      OBVIOUS
    <3>2. Chained(k)
      <4>1. k \in k..L
        BY <1>1
      <4>2. Base(k, rules) \in Nat /\ At(k, rules) \in Nat
        BY <1>3, <4>1
      <4> QED
        BY <4>2
    <3> HIDE DEF Chained
    <3> QED
      BY <3>1, <3>2
  <2>4. n - 1 \in k..L /\ n - 1 < n /\ n - 1 # 0 /\ n \in DOMAIN rules.surcharges
    BY <1>1, <2>3
  <2>5. Chained(n - 1)
    <3>1. n - 1 \notin Bad
      <4>1. n \in Int /\ ~(n <= n - 1)
        BY <1>1, <2>3
      <4> HIDE DEF Bad
      <4> QED
        BY <2>2, <4>1
    <3> QED
      BY <2>4, <3>1
  <2>6. Crossed(At(n, rules), rules) = n - 1 /\ Due(At(n, rules), rules) = Base(n, rules)
    BY <2>4, DueAtThreshold
  <2>7. Base(n, rules) - Base(n - 1, rules) <= At(n, rules) - At(n - 1, rules)
    <3>1. At(n, rules) \in Int
      BY <1>3, <2>3
    <3> QED
      BY <1>4, <2>4, <2>6, <3>1
  <2>8. /\ Base(n, rules) \in Nat /\ At(n, rules) \in Nat /\ Base(n - 1, rules) \in Nat /\ At(n - 1, rules) \in Nat
        /\ Base(k, rules) \in Nat /\ At(k, rules) \in Nat
    <3>1. k \in k..L
      BY <1>1
    <3> QED
      BY <1>3, <2>3, <2>4, <3>1
  <2>9. Chained(n)
    BY <2>5, <2>7, <2>8
  <2> QED
    BY <2>2, <2>9
<1>6. Due(At(k, rules), rules) = Base(k, rules)
  BY DueAtThreshold
<1>7. CASE x = At(k, rules)
  <2>1. Due(x, rules) \in Nat
    BY DueType
  <2> QED
    BY <1>7, <2>1
<1>8. CASE x # At(k, rules)
  <2> DEFINE n == Crossed(x, rules)
  <2>1. n \in k..L /\ n # 0
    <3>1. k \in k..L /\ At(k, rules) \in Nat
      BY <1>1, <1>3
    <3>2. x > At(k, rules)
      BY <1>8, <3>1
    <3>3. k <= n
      BY <3>2, CrossedIs DEF Ascending
    <3>4. n \in 0..L
      BY CrossedIs DEF Ascending
    <3> QED
      BY <1>1, <3>3, <3>4
  <2>2. Due(x, rules) - Base(n, rules) <= x - At(n, rules)
    BY <1>4, <2>1
  <2>3. Chained(n)
    BY <1>5, <2>1
  <2>4. /\ Base(n, rules) \in Nat /\ At(n, rules) \in Nat /\ Base(k, rules) \in Nat /\ At(k, rules) \in Nat
        /\ Due(x, rules) \in Nat
    <3>1. k \in k..L
      BY <1>1
    <3> QED
      BY <1>3, <2>1, <3>1, DueType
  <2> HIDE DEF n
  <2> QED
    BY <1>6, <2>2, <2>3, <2>4
<1> QED
  BY <1>7, <1>8

(* By every schedule on record, who earns more never pays less tax and        *)
(* surcharge, and nobody above a surcharge threshold keeps less than at the   *)
(* threshold (compute_surcharge and compute_marginal_relief).                 *)
THEOREM ScheduleAlwaysFair == Spec => []ScheduleFair
<1>1. ASSUME NEW k \in DOMAIN Rules PROVE Fair(Rules[k])
  <2> DEFINE rules == Rules[k]
  <2>1. Ascending(rules)
    BY ScheduleAssumption
  <2> HIDE DEF rules
  <2>2. ASSUME NEW income \in Incomes PROVE Due(income, rules) >= Due(income - 1, rules)
    <3>1. income \in Int /\ income - 1 \in Int /\ income - 1 <= income
      BY ScheduleAssumption
    <3>2. Due(income - 1, rules) <= Due(income, rules) /\ Due(income - 1, rules) \in Nat /\ Due(income, rules) \in Nat
      BY <2>1, <3>1, DueGrows, DueType
    <3> QED
      BY <3>2
  <2>3. ASSUME NEW income \in Incomes, NEW n \in DOMAIN rules.surcharges, income > At(n, rules)
        PROVE  Kept(income, rules) >= Kept(At(n, rules), rules)
    <3>1. income \in Int /\ At(n, rules) \in Int /\ At(n, rules) <= income
      <4>1. income \in Nat /\ At(n, rules) \in Nat
        BY <2>1, ScheduleAssumption, SurchargeType DEF Ascending
      <4> QED
        BY <2>3, <4>1
    <3>2. Due(income, rules) - Due(At(n, rules), rules) <= income - At(n, rules)
      BY <2>1, <3>1, DueCapped
    <3>3. Due(income, rules) \in Nat /\ Due(At(n, rules), rules) \in Nat
      BY <2>1, <3>1, DueType
    <3> QED
      BY <3>1, <3>2, <3>3 DEF Kept
  <2> QED
    BY <2>2, <2>3 DEF Fair, At, rules
<1>2. ScheduleFair
  BY <1>1 DEF ScheduleFair, FairSchedules
<1> QED
  BY <1>2, PTL

=============================================================================
