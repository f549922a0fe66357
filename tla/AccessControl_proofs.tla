------------------------- MODULE AccessControl_proofs -------------------------
(* Proofs about AccessControl, for every set of users, of membership rows, of *)
(* refresh tokens and of workers.                                             *)
EXTENDS AccessControl, FiniteSetTheorems, TLAPS

-------------------------------------------------------------------------------
(* Types.  A request carries what its steps have loaded: the row it saw is    *)
(* the target's and still exists, and so does the token it was shown.         *)

Query ==
  [pc : {"idle", "off", "authorized", "loaded", "checked", "refreshing", "leaving"},
   user : Users \cup {None}, role : RoleCode \cup {None}, route : Api \cup {None},
   target : Users \cup {None}, newRole : RoleCode \cup {None},
   newStatus : MembershipStatus \cup {None}, row : Rows \cup {None},
   seen : Membership \cup {None}, token : Tokens \cup {None}]

QueryIn(q, rows, tokens) ==
  /\ q.pc \in {"authorized", "loaded", "checked"} => q.role \in RoleCode /\ q.route \in Api
  /\ q.pc \in {"loaded", "checked"} =>
       /\ q.target \in Users
       /\ q.row = None => q.newRole \in RoleCode
  /\ q.row # None => /\ q.seen \in Membership /\ q.seen.user = q.target
                     /\ rows[q.row] # None /\ rows[q.row].user = q.target
  /\ q.pc \in {"refreshing", "leaving"} => q.token \in Tokens /\ tokens[q.token] # None

Inv ==
  /\ desk \in Desks /\ companyActive \in BOOLEAN
  /\ member \in [Rows -> {None} \cup Membership]
  /\ token \in [Tokens -> {None} \cup RefreshToken]
  /\ worker \in [Workers -> Query]
  /\ \A w \in Workers : QueryIn(worker[w], member, token)
  /\ acted = None \/ (acted.role \in RoleCode /\ acted.route \in Api)

LEMMA AtMostOne ==
  ASSUME NEW S, \A x, y \in S : x = y
  PROVE  Cardinality(S) <= 1
<1>1. CASE S = {}
  BY <1>1, FS_EmptySet
<1>2. CASE S # {}
  <2>1. PICK x : S = {x}
    BY <1>2
  <2> QED
    BY <2>1, FS_Singleton
<1> QED
  BY <1>1, <1>2

LEMMA IdleType == Idle \in Query /\ Off \in Query
BY DEF Idle, Off, Query

LEMMA IdleIn ==
  ASSUME NEW rows, NEW tokens
  PROVE  QueryIn(Idle, rows, tokens) /\ QueryIn(Off, rows, tokens)
BY DEF Idle, Off, QueryIn

LEMMA InvTypeOK == Inv => TypeOK
<1> SUFFICES ASSUME Inv PROVE TypeOK
  OBVIOUS
<1>1. ASSUME NEW w \in Workers
      PROVE  /\ worker[w].pc \in {"idle", "off", "authorized", "loaded", "checked",
                                   "refreshing", "leaving"}
             /\ worker[w].pc \in {"authorized", "loaded", "checked"} =>
                  worker[w].role \in RoleCode /\ worker[w].route \in Api
             /\ worker[w].row # None => worker[w].seen.user = worker[w].target
  BY DEF Inv, Query, QueryIn
<1> QED
  BY <1>1 DEF Inv, TypeOK

\* A row keeps its user and a token stays: what a request knows of them remains true.
Kept(rows, tokens, rows2, tokens2) ==
  /\ \A i \in Rows : rows[i] # None => rows2[i] # None /\ rows2[i].user = rows[i].user
  /\ \A t \in Tokens : tokens[t] # None => tokens2[t] # None

LEMMA QueryKept ==
  ASSUME NEW q \in Query, NEW rows, NEW tokens, NEW rows2, NEW tokens2,
         Kept(rows, tokens, rows2, tokens2), QueryIn(q, rows, tokens)
  PROVE  QueryIn(q, rows2, tokens2)
BY DEF Query, Kept, QueryIn

\* One worker changes its request, and the tables keep what the others know of them.
LEMMA StepInv ==
  ASSUME Inv, NEW w \in Workers, NEW q \in Query, worker' = [worker EXCEPT ![w] = q],
         member' \in [Rows -> {None} \cup Membership],
         token' \in [Tokens -> {None} \cup RefreshToken],
         Kept(member, token, member', token'), QueryIn(q, member', token'),
         desk' = desk, companyActive' \in BOOLEAN,
         acted' = None \/ (acted'.role \in RoleCode /\ acted'.route \in Api)
  PROVE  Inv'
<1>1. worker' \in [Workers -> Query]
  BY DEF Inv
<1>2. ASSUME NEW x \in Workers PROVE QueryIn(worker'[x], member', token')
  <2>1. CASE x = w
    BY <2>1 DEF Inv
  <2>2. CASE x # w
    BY <2>2, QueryKept DEF Inv
  <2> QED
    BY <2>1, <2>2
<1> QED
  BY <1>1, <1>2 DEF Inv

LEMMA NothingLost ==
  ASSUME UNCHANGED <<member, token>>
  PROVE  Kept(member, token, member', token')
BY DEF Kept

\* A worker that answers and changes no table.
LEMMA AnswerInv ==
  ASSUME Inv, NEW w \in Workers, worker' = [worker EXCEPT ![w] = Idle],
         UNCHANGED <<desk, member, token, acted>>, companyActive' \in BOOLEAN
  PROVE  Inv'
<1>1. QueryIn(Idle, member', token')
  BY IdleIn
<1>2. /\ member' \in [Rows -> {None} \cup Membership]
      /\ token' \in [Tokens -> {None} \cup RefreshToken]
      /\ desk' = desk /\ (acted' = None \/ (acted'.role \in RoleCode /\ acted'.route \in Api))
  BY DEF Inv
<1> QED
  BY <1>1, <1>2, IdleType, NothingLost, StepInv

LEMMA InitInv == Init => Inv
<1> SUFFICES ASSUME Init PROVE Inv
  OBVIOUS
<1>1. PICK role \in RoleCode, first \in Rows :
        member = [i \in Rows |-> IF i = first
                    THEN [user |-> Founder, role |-> role, status |-> "ACTIVE"] ELSE None]
  BY DEF Init
<1>2. member \in [Rows -> {None} \cup Membership]
  BY <1>1, AccessAssumption DEF Membership, MembershipStatus
<1>3. PICK crew \in SUBSET Workers :
        worker = [w \in Workers |-> IF w \in crew THEN Idle ELSE Off]
  BY DEF Init
<1>4. worker \in [Workers -> Query] /\ \A w \in Workers : QueryIn(worker[w], member, token)
  BY <1>3, IdleType, IdleIn
<1> QED
  BY <1>2, <1>4 DEF Init, Inv

LEMMA AuthorizeInv ==
  ASSUME Inv, NEW w \in Workers, NEW u \in Users, NEW role \in RoleCode, NEW r \in Api,
         Authorize(w, u, role, r)
  PROVE  Inv'
<1> DEFINE q == [Idle EXCEPT !.pc = "authorized", !.user = u, !.role = role, !.route = r]
<1>1. q \in Query
  BY DEF Query, Idle
<1>2. QueryIn(q, member', token')
  BY DEF QueryIn, Idle
<1>3. worker' = [worker EXCEPT ![w] = q]
  BY DEF Authorize
<1>4. /\ member' \in [Rows -> {None} \cup Membership]
      /\ token' \in [Tokens -> {None} \cup RefreshToken]
      /\ desk' = desk /\ companyActive' \in BOOLEAN
      /\ (acted' = None \/ (acted'.role \in RoleCode /\ acted'.route \in Api))
      /\ Kept(member, token, member', token')
  BY NothingLost DEF Inv, Authorize
<1> HIDE DEF q
<1> QED
  BY <1>1, <1>2, <1>3, <1>4, StepInv

LEMMA FinishInv ==
  ASSUME Inv, NEW w \in Workers, Finish(w)
  PROVE  Inv'
<1>1. worker[w].role \in RoleCode /\ worker[w].route \in Api
  BY DEF Inv, QueryIn, Finish
<1>2. acted' = None \/ (acted'.role \in RoleCode /\ acted'.route \in Api)
  BY <1>1 DEF Finish
<1>3. QueryIn(Idle, member', token') /\ Kept(member, token, member', token')
  BY IdleIn, NothingLost DEF Finish
<1>4. /\ member' \in [Rows -> {None} \cup Membership]
      /\ token' \in [Tokens -> {None} \cup RefreshToken]
      /\ desk' = desk /\ companyActive' \in BOOLEAN
      /\ worker' = [worker EXCEPT ![w] = Idle]
  BY DEF Inv, Finish
<1> QED
  BY <1>2, <1>3, <1>4, IdleType, StepInv

\* What LoadTarget leaves in the request: the target's row, or none.
LEMMA LoadTargetShape ==
  ASSUME Inv, NEW w \in Workers, NEW u \in Users, NEW role \in RoleCode \cup {None},
         NEW status \in MembershipStatus \cup {None}, LoadTarget(w, u, role, status)
  PROVE  \E q \in Query :
           /\ worker' = [worker EXCEPT ![w] = q]
           /\ q.pc = "loaded" /\ q.role = worker[w].role /\ q.route = worker[w].route
           /\ q.target = u /\ q.newRole = role
           /\ q.row = None => RowsOf(u) = {} /\ role \in RoleCode
           /\ q.row # None => /\ q.row \in RowsOf(u) /\ q.seen = member[q.row]
                              /\ q.seen \in Membership /\ q.seen.user = u
<1> DEFINE Row == IF RowsOf(u) = {} THEN None ELSE CHOOSE i \in RowsOf(u) : TRUE
           Seen == IF Row = None THEN None ELSE member[Row]
<1>1. \A i \in RowsOf(u) : i \in Rows /\ i # None /\ member[i] \in Membership /\ member[i].user = u
  BY AccessAssumption DEF RowsOf, Inv
<1>2. Row \in Rows \cup {None} /\ Seen \in Membership \cup {None}
  <2>1. CASE RowsOf(u) = {}
    BY <2>1
  <2>2. CASE RowsOf(u) # {}
    <3>1. Row \in RowsOf(u)
      BY <2>2
    <3>2. Seen = IF Row = None THEN None ELSE member[Row]
      OBVIOUS
    <3> HIDE DEF Row, Seen
    <3> QED
      BY <1>1, <3>1, <3>2
  <2> QED
    BY <2>1, <2>2
<1>3. PICK row \in Rows \cup {None} : row = Row
  BY <1>2
<1>4. PICK seen \in Membership \cup {None} : seen = Seen
  BY <1>2
<1>5. PICK p \in Query : p = worker[w]
  BY DEF Inv
<1>6. worker' = [worker EXCEPT ![w] =
         [p EXCEPT !.pc = "loaded", !.target = u, !.newRole = role,
                   !.newStatus = status, !.row = row, !.seen = seen]]
  BY <1>3, <1>4, <1>5, Zenon DEF LoadTarget
<1>7. RowsOf(u) = {} => row = None
  BY <1>3
<1>8. RowsOf(u) # {} => row \in RowsOf(u)
  BY <1>3
<1>9. seen = IF row = None THEN None ELSE member[row]
  BY <1>3, <1>4, Zenon
<1> HIDE DEF Row, Seen
<1>10. PICK q : q = [p EXCEPT !.pc = "loaded", !.target = u, !.newRole = role,
                              !.newStatus = status, !.row = row, !.seen = seen]
  OBVIOUS
<1>11. /\ q \in Query
       /\ q.pc = "loaded" /\ q.role = p.role /\ q.route = p.route
       /\ q.target = u /\ q.newRole = role /\ q.row = row /\ q.seen = seen
  BY <1>10 DEF Query
<1>12. worker' = [worker EXCEPT ![w] = q]
  BY <1>6, <1>10, Zenon
<1>13. RowsOf(u) = {} => role \in RoleCode
  <2>1. /\ worker[w].route.op = "create_company_user" => role # None
        /\ worker[w].route.op # "create_company_user" => RowsOf(u) # {}
    BY DEF LoadTarget
  <2> QED
    BY <2>1
<1>14. row = None => RowsOf(u) = {} /\ role \in RoleCode
  BY <1>1, <1>8, <1>13
<1>15. row # None => row \in RowsOf(u) /\ seen = member[row] /\ seen \in Membership /\ seen.user = u
  BY <1>1, <1>7, <1>8, <1>9
<1> QED
  BY <1>5, <1>11, <1>12, <1>14, <1>15

LEMMA LoadTargetInv ==
  ASSUME Inv, NEW w \in Workers, NEW u \in Users, NEW role \in RoleCode \cup {None},
         NEW status \in MembershipStatus \cup {None}, LoadTarget(w, u, role, status)
  PROVE  Inv'
<1>1. PICK q \in Query :
           /\ worker' = [worker EXCEPT ![w] = q]
           /\ q.pc = "loaded" /\ q.role = worker[w].role /\ q.route = worker[w].route
           /\ q.target = u /\ q.newRole = role
           /\ q.row = None => RowsOf(u) = {} /\ role \in RoleCode
           /\ q.row # None => /\ q.row \in RowsOf(u) /\ q.seen = member[q.row]
                              /\ q.seen \in Membership /\ q.seen.user = u
  BY LoadTargetShape
<1>2. /\ UNCHANGED <<member, token>>
      /\ worker[w].role \in RoleCode /\ worker[w].route \in Api
  BY DEF Inv, QueryIn, LoadTarget
<1>3. q.row # None => member[q.row] # None /\ member[q.row].user = u
  BY <1>1 DEF RowsOf
<1>4. QueryIn(q, member', token')
  BY <1>1, <1>2, <1>3 DEF QueryIn
<1>5. /\ member' \in [Rows -> {None} \cup Membership]
      /\ token' \in [Tokens -> {None} \cup RefreshToken]
      /\ desk' = desk /\ companyActive' \in BOOLEAN
      /\ (acted' = None \/ (acted'.role \in RoleCode /\ acted'.route \in Api))
      /\ Kept(member, token, member', token')
  BY NothingLost DEF Inv, LoadTarget
<1> QED
  BY <1>1, <1>4, <1>5, StepInv

LEMMA CheckMemberInv ==
  ASSUME Inv, NEW w \in Workers, CheckMember(w)
  PROVE  Inv'
<1> DEFINE q == [worker[w] EXCEPT !.pc = "checked"]
<1>1. worker[w] \in Query /\ worker[w].pc = "loaded" /\ UNCHANGED <<member, token>>
      /\ QueryIn(worker[w], member, token)
  BY DEF Inv, CheckMember
<1>2. worker' = [worker EXCEPT ![w] = q]
  BY DEF CheckMember
<1>3. q \in Query
  BY <1>1 DEF Query
<1>4. /\ q.pc = "checked" /\ q.role = worker[w].role /\ q.route = worker[w].route
      /\ q.target = worker[w].target /\ q.newRole = worker[w].newRole
      /\ q.row = worker[w].row /\ q.seen = worker[w].seen
  BY <1>1 DEF Query
<1> HIDE DEF q
<1>5. QueryIn(q, member', token')
  BY <1>1, <1>4 DEF QueryIn
<1>6. /\ member' \in [Rows -> {None} \cup Membership]
      /\ token' \in [Tokens -> {None} \cup RefreshToken]
      /\ desk' = desk /\ companyActive' \in BOOLEAN
      /\ (acted' = None \/ (acted'.role \in RoleCode /\ acted'.route \in Api))
      /\ Kept(member, token, member', token')
  BY NothingLost DEF Inv, CheckMember
<1> QED
  BY <1>2, <1>3, <1>5, <1>6, StepInv

\* The row a request read still belongs to its target when the update is written.
LEMMA WrittenType ==
  ASSUME Inv, NEW w \in Workers, worker[w].pc = "checked", worker[w].row # None
  PROVE  /\ worker[w].row \in Rows
         /\ Written(worker[w]) \in Membership
         /\ Written(worker[w]).user = worker[w].target
         /\ member[worker[w].row] # None /\ member[worker[w].row].user = worker[w].target
<1>1. PICK q \in Query : q = worker[w]
  BY DEF Inv
<1>2. QueryIn(q, member, token)
  BY <1>1 DEF Inv
<1>3. /\ q.row \in Rows /\ q.target \in Users /\ q.seen \in Membership
      /\ member[q.row] # None /\ member[q.row].user = q.target
  BY <1>1, <1>2 DEF Query, QueryIn
<1>4. member[q.row] \in Membership
  BY <1>3 DEF Inv
<1>5. member[q.row].role \in RoleCode /\ member[q.row].status \in MembershipStatus
  BY <1>4 DEF Membership
<1>6. /\ q.newRole # None => q.newRole \in RoleCode
      /\ q.newStatus # None => q.newStatus \in MembershipStatus
  BY DEF Query
<1>7. PICK role \in RoleCode : role = IF q.newRole # None /\ q.newRole # q.seen.role
                                      THEN q.newRole ELSE member[q.row].role
  BY <1>5, <1>6
<1>8. PICK status \in MembershipStatus :
        status = LET wanted == IF q.route.op = "create_company_user" THEN "ACTIVE"
                               ELSE q.newStatus IN
                 IF wanted # None /\ wanted # q.seen.status THEN wanted ELSE member[q.row].status
  BY <1>5, <1>6 DEF MembershipStatus
<1>9. Written(q) = [user |-> q.target, role |-> role, status |-> status]
  BY <1>7, <1>8 DEF Written
<1>10. Written(q) \in Membership /\ Written(q).user = q.target
  BY <1>3, <1>9 DEF Membership
<1> QED
  BY <1>1, <1>3, <1>10

\* One row is written for a user, over none or over a row of the same user.
LEMMA WriteMemberInv ==
  ASSUME Inv, NEW w \in Workers, NEW i \in Rows, NEW row \in Membership,
         member' = [member EXCEPT ![i] = row],
         member[i] = None \/ member[i].user = row.user,
         worker' = [worker EXCEPT ![w] = Idle],
         UNCHANGED <<desk, companyActive, token, acted>>
  PROVE  Inv'
<1>1. member' \in [Rows -> {None} \cup Membership]
  BY DEF Inv
<1>2. ASSUME NEW j \in Rows, member[j] # None
      PROVE  member'[j] # None /\ member'[j].user = member[j].user
  <2>1. CASE j = i
    BY <1>2, <2>1, AccessAssumption DEF Inv
  <2>2. CASE j # i
    BY <1>2, <2>2 DEF Inv
  <2> QED
    BY <2>1, <2>2
<1>3. Kept(member, token, member', token')
  BY <1>2 DEF Kept
<1>4. /\ token' \in [Tokens -> {None} \cup RefreshToken]
      /\ desk' = desk /\ companyActive' \in BOOLEAN
      /\ (acted' = None \/ (acted'.role \in RoleCode /\ acted'.route \in Api))
  BY DEF Inv
<1> QED
  BY <1>1, <1>3, <1>4, IdleType, IdleIn, StepInv

\* What InsertMember writes.
LEMMA InsertType ==
  ASSUME Inv, NEW w \in Workers, InsertMember(w)
  PROVE  \E i \in Rows, row \in Membership :
           /\ member[i] = None /\ member' = [member EXCEPT ![i] = row]
           /\ row.user = worker[w].target /\ row.status = "ACTIVE"
<1>1. worker[w].target \in Users /\ worker[w].newRole \in RoleCode
  BY DEF Inv, QueryIn, InsertMember
<1>2. PICK i \in Rows :
         /\ member[i] = None
         /\ member' = [member EXCEPT ![i] = [user |-> worker[w].target,
                                            role |-> worker[w].newRole, status |-> "ACTIVE"]]
  BY DEF InsertMember
<1>3. PICK row \in Membership : row = [user |-> worker[w].target,
                                      role |-> worker[w].newRole, status |-> "ACTIVE"]
  BY <1>1 DEF Membership, MembershipStatus
<1> QED
  BY <1>2, <1>3

LEMMA InsertMemberInv ==
  ASSUME Inv, NEW w \in Workers, InsertMember(w)
  PROVE  Inv'
<1>1. PICK i \in Rows, row \in Membership :
         member[i] = None /\ member' = [member EXCEPT ![i] = row]
  BY InsertType
<1>2. worker' = [worker EXCEPT ![w] = Idle] /\ UNCHANGED <<desk, companyActive, token, acted>>
  BY DEF InsertMember
<1> QED
  BY <1>1, <1>2, WriteMemberInv

LEMMA UpdateMemberInv ==
  ASSUME Inv, NEW w \in Workers, UpdateMember(w)
  PROVE  Inv'
<1>1. /\ worker[w].pc = "checked" /\ worker[w].row # None
      /\ member' = [member EXCEPT ![worker[w].row] = Written(worker[w])]
      /\ worker' = [worker EXCEPT ![w] = Idle] /\ UNCHANGED <<desk, companyActive, token, acted>>
  BY DEF UpdateMember
<1>2. PICK i \in Rows, row \in Membership :
        /\ i = worker[w].row /\ row = Written(worker[w])
        /\ member[i].user = row.user
  BY <1>1, WrittenType
<1> QED
  BY <1>1, <1>2, WriteMemberInv

-------------------------------------------------------------------------------
(* The steps of the sessions.                                                 *)

LEMMA IssuedType ==
  ASSUME NEW u \in Users, NEW s \in Tokens
  PROVE  Issued(u, s) \in RefreshToken /\ Issued(u, s) # None
BY AccessAssumption DEF Issued, RefreshToken

\* The table of tokens changes and loses none.
LEMMA TokenStepInv ==
  ASSUME Inv, token' \in [Tokens -> {None} \cup RefreshToken],
         \A t \in Tokens : token[t] # None => token'[t] # None,
         UNCHANGED <<desk, member, companyActive, acted>>,
         UNCHANGED worker \/ \E w \in Workers : worker' = [worker EXCEPT ![w] = Idle]
  PROVE  Inv'
<1>1. Kept(member, token, member', token')
  BY DEF Kept
<1>2. /\ member' \in [Rows -> {None} \cup Membership]
      /\ desk' = desk /\ companyActive' \in BOOLEAN
      /\ (acted' = None \/ (acted'.role \in RoleCode /\ acted'.route \in Api))
  BY DEF Inv
<1>3. CASE UNCHANGED worker
  <2>1. \A w \in Workers : QueryIn(worker'[w], member', token')
    BY <1>1, <1>3, QueryKept DEF Inv
  <2> QED
    BY <1>2, <1>3, <2>1 DEF Inv
<1>4. ASSUME NEW w \in Workers, worker' = [worker EXCEPT ![w] = Idle] PROVE Inv'
  BY <1>1, <1>2, <1>4, IdleType, IdleIn, StepInv
<1> QED
  BY <1>3, <1>4

LEMMA LogInInv ==
  ASSUME Inv, NEW u \in Users, LogIn(u)
  PROVE  Inv'
<1>1. PICK t \in Free : token' = [token EXCEPT ![t] = Issued(u, t)]
  BY DEF LogIn
<1>2. t \in Tokens
  BY DEF Free
<1>3. Issued(u, t) \in RefreshToken /\ Issued(u, t) # None
  BY <1>2, IssuedType
<1>4. /\ token' \in [Tokens -> {None} \cup RefreshToken]
      /\ \A x \in Tokens : token[x] # None => token'[x] # None
  BY <1>1, <1>2, <1>3 DEF Inv
<1> QED
  BY <1>4, TokenStepInv DEF LogIn

\* A presented token is a row of the table, with its user and session.
LEMMA PresentedType ==
  ASSUME Inv, NEW w \in Workers, worker[w].pc \in {"refreshing", "leaving"}
  PROVE  /\ worker[w].token \in Tokens /\ token[worker[w].token] # None
         /\ token[worker[w].token] \in RefreshToken
BY DEF Inv, QueryIn

\* A token is marked, and stays what it is otherwise.
LEMMA MarkedType ==
  ASSUME NEW x \in RefreshToken, NEW s \in {"live", "expired", "revoked"},
         NEW n \in Tokens \cup {None}
  PROVE  /\ [x EXCEPT !.state = s] \in RefreshToken
         /\ [x EXCEPT !.state = s, !.next = n] \in RefreshToken
         /\ [x EXCEPT !.state = s] # None /\ [x EXCEPT !.state = s, !.next = n] # None
         /\ [x EXCEPT !.state = s].state = s /\ [x EXCEPT !.state = s].session = x.session
         /\ [x EXCEPT !.state = s, !.next = n].state = s
         /\ [x EXCEPT !.state = s, !.next = n].session = x.session
<1>1. /\ [x EXCEPT !.state = s] \in RefreshToken
      /\ [x EXCEPT !.state = s, !.next = n] \in RefreshToken
  BY DEF RefreshToken
<1>2. /\ [x EXCEPT !.state = s] # None
      /\ [x EXCEPT !.state = s, !.next = n] # None
  BY <1>1, AccessAssumption
<1> QED
  BY <1>1, <1>2 DEF RefreshToken

\* What Rotate writes: the presented token is revoked and a new one issued.
LEMMA RotateShape ==
  ASSUME Inv, NEW w \in Workers, Rotate(w)
  PROVE  \E t \in Tokens, n \in Tokens, old \in RefreshToken, new \in RefreshToken :
           /\ t = worker[w].token /\ token[t] # None /\ token[n] = None /\ n # t
           /\ old.state = "revoked" /\ old.session = token[t].session
           /\ new.state = "live" /\ new.session = token[t].session
           /\ token' = [token EXCEPT ![t] = old, ![n] = new]
<1>1. PICK t \in Tokens : t = worker[w].token /\ token[t] # None /\ token[t] \in RefreshToken
  BY PresentedType DEF Rotate
<1>2. PICK x \in RefreshToken : x = token[t]
  BY <1>1
<1>3. PICK n \in Free :
         token' = [token EXCEPT ![t].state = "revoked", ![t].next = n,
                                ![n] = Issued(token[t].user, token[t].session)]
  BY <1>1 DEF Rotate
<1>4. n \in Tokens /\ token[n] = None /\ n # t
  BY <1>1, <1>3 DEF Free
<1>5. PICK old \in RefreshToken :
         /\ old = [x EXCEPT !.state = "revoked", !.next = n]
         /\ old.state = "revoked" /\ old.session = x.session
  <2>1. PICK old : old = [x EXCEPT !.state = "revoked", !.next = n]
    OBVIOUS
  <2>2. old \in RefreshToken /\ old.state = "revoked" /\ old.session = x.session
    BY <1>4, <2>1 DEF RefreshToken
  <2> QED
    BY <2>1, <2>2
<1>6. x.user \in Users /\ x.session \in Tokens
  BY DEF RefreshToken
<1>7. PICK new \in RefreshToken :
         new = Issued(x.user, x.session) /\ new.state = "live" /\ new.session = x.session
  BY <1>6, IssuedType DEF Issued
<1>8. token' = [token EXCEPT ![t] = old, ![n] = new]
  <2>1. [x EXCEPT !.state = "revoked"] \in RefreshToken
    BY MarkedType
  <2>2. PICK y \in RefreshToken : y = [x EXCEPT !.state = "revoked"]
    BY <2>1
  <2>3. old = [y EXCEPT !.next = n]
    BY <1>5, <2>2 DEF RefreshToken
  <2>4. token \in [Tokens -> {None} \cup RefreshToken]
    BY DEF Inv
  <2>5. token' = [[[token EXCEPT ![t] = y] EXCEPT ![t] = [y EXCEPT !.next = n]]
                    EXCEPT ![n] = new]
    <3>1. [token EXCEPT ![t].state = "revoked"] = [token EXCEPT ![t] = y]
      BY <1>2, <2>2, Zenon
    <3>2. [token EXCEPT ![t] = y][t] = y
      BY <2>4
    <3>3. [[token EXCEPT ![t] = y] EXCEPT ![t].next = n]
            = [[token EXCEPT ![t] = y] EXCEPT ![t] = [y EXCEPT !.next = n]]
      BY <3>2, Zenon
    <3> QED
      BY <1>2, <1>3, <1>7, <3>1, <3>3, Zenon
  <2> QED
    BY <2>3, <2>4, <2>5
<1> QED
  BY <1>1, <1>2, <1>4, <1>5, <1>7, <1>8

LEMMA RotateInv ==
  ASSUME Inv, NEW w \in Workers, Rotate(w)
  PROVE  Inv'
<1>1. PICK t \in Tokens, n \in Tokens, old \in RefreshToken, new \in RefreshToken :
         token' = [token EXCEPT ![t] = old, ![n] = new]
  BY RotateShape
<1>2. old # None /\ new # None
  BY AccessAssumption
<1>3. /\ token' \in [Tokens -> {None} \cup RefreshToken]
      /\ \A x \in Tokens : token[x] # None => token'[x] # None
  BY <1>1, <1>2 DEF Inv
<1> QED
  BY <1>3, TokenStepInv DEF Rotate

\* Revoke and Expire mark one token and leave it in its session.
Marks(t, state) ==
  /\ token[t] # None
  /\ \E x \in RefreshToken : /\ x.state = state /\ x.session = token[t].session
                            /\ token' = [token EXCEPT ![t] = x]

LEMMA MarkShape ==
  ASSUME Inv, NEW t \in Tokens, token[t] # None, NEW s \in {"live", "expired", "revoked"},
         token' = [token EXCEPT ![t].state = s]
  PROVE  Marks(t, s)
<1>1. PICK x \in RefreshToken : x = token[t]
  BY DEF Inv
<1>2. PICK y : y = [x EXCEPT !.state = s]
  OBVIOUS
<1>3. y \in RefreshToken /\ y.state = s /\ y.session = x.session
  BY <1>2 DEF RefreshToken
<1>4. token' = [token EXCEPT ![t] = y]
  BY <1>1, <1>2, Zenon
<1> QED
  BY <1>1, <1>3, <1>4 DEF Marks

LEMMA MarksInv ==
  ASSUME Inv, NEW t \in Tokens, NEW s, Marks(t, s),
         UNCHANGED <<desk, member, companyActive, acted>>,
         UNCHANGED worker \/ \E w \in Workers : worker' = [worker EXCEPT ![w] = Idle]
  PROVE  Inv'
<1>1. PICK x \in RefreshToken : token' = [token EXCEPT ![t] = x]
  BY DEF Marks
<1>2. x # None
  BY AccessAssumption
<1>3. /\ token' \in [Tokens -> {None} \cup RefreshToken]
      /\ \A y \in Tokens : token[y] # None => token'[y] # None
  BY <1>1, <1>2 DEF Inv
<1> QED
  BY <1>3, TokenStepInv

LEMMA RevokeShape ==
  ASSUME Inv, NEW w \in Workers, Revoke(w)
  PROVE  worker[w].token \in Tokens /\ Marks(worker[w].token, "revoked")
<1>1. worker[w].token \in Tokens /\ token[worker[w].token] # None
  BY PresentedType DEF Revoke
<1> QED
  BY <1>1, MarkShape DEF Revoke

LEMMA ExpireShape ==
  ASSUME Inv, NEW t \in Tokens, Expire(t)
  PROVE  Marks(t, "expired")
BY MarkShape DEF Expire

\* refresh and logout: the request remembers the token it was shown.
LEMMA LoadTokenInv ==
  ASSUME Inv, NEW w \in Workers, NEW t \in Tokens,
         LoadForRefresh(w, t) \/ LoadForLogout(w, t)
  PROVE  Inv'
<1>1. PICK pc \in {"refreshing", "leaving"} :
         worker' = [worker EXCEPT ![w] = [Idle EXCEPT !.pc = pc, !.token = t]]
  BY DEF LoadForRefresh, LoadForLogout
<1>2. token[t] # None /\ UNCHANGED <<desk, member, companyActive, token, acted>>
  BY DEF LoadForRefresh, LoadForLogout
<1> DEFINE q == [Idle EXCEPT !.pc = pc, !.token = t]
<1>3. q \in Query /\ QueryIn(q, member', token')
  BY <1>2 DEF Query, QueryIn, Idle
<1>4. worker' = [worker EXCEPT ![w] = q]
  BY <1>1
<1> HIDE DEF q
<1>5. /\ member' \in [Rows -> {None} \cup Membership]
      /\ token' \in [Tokens -> {None} \cup RefreshToken]
      /\ desk' = desk /\ companyActive' \in BOOLEAN
      /\ (acted' = None \/ (acted'.role \in RoleCode /\ acted'.route \in Api))
      /\ Kept(member, token, member', token')
  BY <1>2, NothingLost DEF Inv
<1> QED
  BY <1>3, <1>4, <1>5, StepInv

\* The steps of Next, each for the worker, user or token that takes it.
LEMMA Steps ==
  ASSUME Next
  PROVE  \/ \E w \in Workers, u \in Users, role \in RoleCode, r \in Api : Authorize(w, u, role, r)
         \/ \E w \in Workers, u \in Users, role \in RoleCode \cup {None},
               status \in MembershipStatus \cup {None} : LoadTarget(w, u, role, status)
         \/ \E w \in Workers :
              \/ Finish(w) \/ Rotate(w) \/ Revoke(w) \/ UpdateCompany(w) \/ CheckMember(w)
              \/ InsertMember(w) \/ UpdateMember(w)
              \/ worker[w].pc \notin {"idle", "off"} /\ Refuse(w)
              \/ \E t \in Tokens : LoadForRefresh(w, t) \/ LoadForLogout(w, t)
         \/ \E u \in Users : LogIn(u)
         \/ \E t \in Tokens : Expire(t)
<1>1. ASSUME NEW w \in Workers, NEW u \in Users, NEW role \in RoleCode,
             NEW r \in (CASE desk = "api" -> Api [] desk = "people" -> ManagementRoutes
                          [] OTHER -> {}), Authorize(w, u, role, r)
      PROVE  r \in Api
  BY <1>1 DEF ManagementRoutes
<1> QED
  BY <1>1, Zenon DEF Next

LEMMA NextInv == Inv /\ [Next]_vars => Inv'
<1> SUFFICES ASSUME Inv, [Next]_vars PROVE Inv'
  OBVIOUS
<1>1. CASE UNCHANGED vars
  BY <1>1 DEF vars, Inv
<1>2. CASE Next
  <2>1. ASSUME NEW w \in Workers, NEW u \in Users, NEW role \in RoleCode, NEW r \in Api,
               Authorize(w, u, role, r)
        PROVE  Inv'
    BY <2>1, AuthorizeInv
  <2>2. ASSUME NEW w \in Workers, NEW u \in Users, NEW role \in RoleCode \cup {None},
               NEW status \in MembershipStatus \cup {None}, LoadTarget(w, u, role, status)
        PROVE  Inv'
    BY <2>2, LoadTargetInv
  <2>3. ASSUME NEW w \in Workers,
               \/ Finish(w) \/ Rotate(w) \/ Revoke(w) \/ UpdateCompany(w) \/ CheckMember(w)
               \/ InsertMember(w) \/ UpdateMember(w)
               \/ worker[w].pc \notin {"idle", "off"} /\ Refuse(w)
               \/ \E t \in Tokens : LoadForRefresh(w, t) \/ LoadForLogout(w, t)
        PROVE  Inv'
    <3>1. CASE UpdateCompany(w)
      BY <3>1, AnswerInv DEF UpdateCompany
    <3>2. CASE Refuse(w)
      <4>1. companyActive' \in BOOLEAN
        BY <3>2 DEF Refuse, Inv
      <4> QED
        BY <3>2, <4>1, AnswerInv DEF Refuse
    <3>3. CASE Revoke(w)
      <4>1. worker[w].token \in Tokens /\ Marks(worker[w].token, "revoked")
        BY <3>3, RevokeShape
      <4> QED
        BY <3>3, <4>1, MarksInv DEF Revoke
    <3> QED
      BY <2>3, <3>1, <3>2, <3>3, FinishInv, RotateInv, CheckMemberInv, InsertMemberInv,
         UpdateMemberInv, LoadTokenInv
  <2>4. ASSUME NEW u \in Users, LogIn(u) PROVE Inv'
    BY <2>4, LogInInv
  <2>5. ASSUME NEW t \in Tokens, Expire(t) PROVE Inv'
    BY <2>5, ExpireShape, MarksInv DEF Expire
  <2> QED
    BY <1>2, <2>1, <2>2, <2>3, <2>4, <2>5, Steps, Zenon
<1> QED
  BY <1>1, <1>2

LEMMA InvAlways == Spec => []Inv
BY InitInv, NextInv, PTL DEF Spec

-------------------------------------------------------------------------------
(* Requests served one at a time: which worker takes a step, and that no      *)
(* other is on duty.                                                          *)

LEMMA OneWorkerMoves ==
  ASSUME Inv, [Next]_vars
  PROVE  \/ UNCHANGED worker
         \/ \E w \in Workers, q \in Query : /\ worker[w].pc # "off" /\ q.pc # "off"
                                            /\ worker' = [worker EXCEPT ![w] = q]
<1>1. Inv'
  BY NextInv
<1>2. ASSUME NEW w \in Workers, worker[w].pc # "off", NEW q,
             q.pc # "off", worker' = [worker EXCEPT ![w] = q]
      PROVE  \E x \in Workers, y \in Query : /\ worker[x].pc # "off" /\ y.pc # "off"
                                            /\ worker' = [worker EXCEPT ![x] = y]
  <2>1. worker'[w] = q
    BY <1>2 DEF Inv
  <2>2. q \in Query
    BY <1>1, <2>1 DEF Inv
  <2> QED
    BY <1>2, <2>2
<1>3. Idle.pc # "off"
  BY DEF Idle
<1>4. CASE UNCHANGED vars
  BY <1>4 DEF vars
<1>5. CASE Next
  <2>1. ASSUME NEW w \in Workers, NEW u \in Users, NEW role \in RoleCode, NEW r \in Api,
               Authorize(w, u, role, r)
        PROVE  \E q : worker[w].pc # "off" /\ q.pc # "off" /\ worker' = [worker EXCEPT ![w] = q]
    <3> DEFINE q == [Idle EXCEPT !.pc = "authorized", !.user = u, !.role = role, !.route = r]
    <3>1. q.pc # "off" /\ worker[w].pc # "off" /\ worker' = [worker EXCEPT ![w] = q]
      BY <2>1 DEF Authorize, Idle
    <3> HIDE DEF q
    <3> QED
      BY <3>1
  <2>2. ASSUME NEW w \in Workers, NEW u \in Users, NEW role \in RoleCode \cup {None},
               NEW status \in MembershipStatus \cup {None}, LoadTarget(w, u, role, status)
        PROVE  \E q : worker[w].pc # "off" /\ q.pc # "off" /\ worker' = [worker EXCEPT ![w] = q]
    <3>1. PICK q \in Query : q.pc = "loaded" /\ worker' = [worker EXCEPT ![w] = q]
      BY <2>2, LoadTargetShape
    <3> QED
      BY <2>2, <3>1 DEF LoadTarget
  <2>3. ASSUME NEW w \in Workers, CheckMember(w)
        PROVE  \E q : worker[w].pc # "off" /\ q.pc # "off" /\ worker' = [worker EXCEPT ![w] = q]
    <3>1. PICK p \in Query : p = worker[w]
      BY DEF Inv
    <3>2. PICK q : q = [p EXCEPT !.pc = "checked"]
      OBVIOUS
    <3>3. q.pc = "checked"
      BY <3>2 DEF Query
    <3>4. worker' = [worker EXCEPT ![w] = q]
      BY <2>3, <3>1, <3>2, Zenon DEF CheckMember
    <3> QED
      BY <2>3, <3>3, <3>4 DEF CheckMember
  <2>4. ASSUME NEW w \in Workers,
               \/ Finish(w) \/ Rotate(w) \/ Revoke(w) \/ UpdateCompany(w)
               \/ InsertMember(w) \/ UpdateMember(w)
               \/ worker[w].pc \notin {"idle", "off"} /\ Refuse(w)
        PROVE  worker[w].pc # "off" /\ worker' = [worker EXCEPT ![w] = Idle]
    BY <2>4 DEF Finish, Rotate, Revoke, UpdateCompany, InsertMember, UpdateMember, Refuse
  <2>5. ASSUME NEW w \in Workers, NEW t \in Tokens, LoadForRefresh(w, t) \/ LoadForLogout(w, t)
        PROVE  \E q : worker[w].pc # "off" /\ q.pc # "off" /\ worker' = [worker EXCEPT ![w] = q]
    <3>1. PICK pc \in {"refreshing", "leaving"} :
             worker' = [worker EXCEPT ![w] = [Idle EXCEPT !.pc = pc, !.token = t]]
      BY <2>5 DEF LoadForRefresh, LoadForLogout
    <3>2. [Idle EXCEPT !.pc = pc, !.token = t].pc # "off"
      BY DEF Idle
    <3>3. worker[w].pc # "off"
      BY <2>5 DEF LoadForRefresh, LoadForLogout
    <3> QED
      BY <3>1, <3>2, <3>3, Zenon
  <2>6. ASSUME (\E u \in Users : LogIn(u)) \/ (\E t \in Tokens : Expire(t)) PROVE UNCHANGED worker
    BY <2>6 DEF LogIn, Expire
  <2>7. ASSUME NEW w \in Workers,
               \E q : worker[w].pc # "off" /\ q.pc # "off" /\ worker' = [worker EXCEPT ![w] = q]
        PROVE  \E x \in Workers, y \in Query : /\ worker[x].pc # "off" /\ y.pc # "off"
                                            /\ worker' = [worker EXCEPT ![x] = y]
    BY <1>2, <2>7
  <2>8. ASSUME NEW w \in Workers, worker[w].pc # "off", worker' = [worker EXCEPT ![w] = Idle]
        PROVE  \E x \in Workers, y \in Query : /\ worker[x].pc # "off" /\ y.pc # "off"
                                            /\ worker' = [worker EXCEPT ![x] = y]
    BY <1>3, <2>8, IdleType
  <2> QED
    BY <1>5, <2>1, <2>2, <2>3, <2>4, <2>5, <2>6, <2>7, <2>8, Steps, Zenon
<1> QED
  BY <1>4, <1>5

LEMMA SerialStays ==
  ASSUME Inv, [Next]_vars
  PROVE  Serial' <=> Serial
<1>1. \A x \in Workers : worker'[x].pc # "off" <=> worker[x].pc # "off"
  BY OneWorkerMoves DEF Inv
<1>2. {x \in Workers : worker'[x].pc # "off"} = {x \in Workers : worker[x].pc # "off"}
  BY <1>1
<1> QED
  BY <1>2 DEF Serial

LEMMA OnlyOne ==
  ASSUME Serial, NEW w \in Workers, worker[w].pc # "off", NEW x \in Workers, x # w
  PROVE  worker[x].pc = "off"
<1> DEFINE On == {y \in Workers : worker[y].pc # "off"}
<1>1. IsFiniteSet(On)
  BY AccessAssumption, FS_Subset
<1>2. PICK y : On = {y}
  BY <1>1, FS_Singleton DEF Serial
<1> QED
  BY <1>2

-------------------------------------------------------------------------------
(* The roster: an administrator is left and nobody has two rows.  Between its *)
(* steps the one request there is knows the row of its target as it is, and,  *)
(* once checked, that another administrator stays when it takes one away.     *)

AdminIn(rows, i) ==
  rows[i] # None /\ rows[i].role = "COMPANY_ADMIN" /\ rows[i].status = "ACTIVE"

Roster(rows) ==
  /\ \E i \in Rows : AdminIn(rows, i)
  /\ \A i, j \in Rows :
       rows[i] # None /\ rows[j] # None /\ rows[i].user = rows[j].user => i = j

SafeIn(q, rows) ==
  /\ q.route.op = "create_company_user" => q.seen.status # "ACTIVE"
  /\ TakesAway(q) /\ q.seen.role = "COMPANY_ADMIN" =>
       \E i \in Rows : i # q.row /\ AdminIn(rows, i)

FreshIn(q, rows) ==
  q.pc \in {"loaded", "checked"} =>
    /\ q.row = None => \A i \in Rows : rows[i] # None => rows[i].user # q.target
    /\ q.row # None => rows[q.row] = q.seen
    /\ q.pc = "checked" /\ q.row # None => SafeIn(q, rows)

RosterInv ==
  desk = "people" /\ Serial => Roster(member) /\ \A w \in Workers : FreshIn(worker[w], member)

LEMMA RosterInit == Init => RosterInv
<1> SUFFICES ASSUME Init, desk = "people" PROVE RosterInv
  BY DEF RosterInv
<1>1. PICK first \in Rows :
        member = [i \in Rows |-> IF i = first
                    THEN [user |-> Founder, role |-> "COMPANY_ADMIN", status |-> "ACTIVE"]
                    ELSE None]
  BY DEF Init
<1>2. [user |-> Founder, role |-> "COMPANY_ADMIN", status |-> "ACTIVE"] # None
  <2>1. [user |-> Founder, role |-> "COMPANY_ADMIN", status |-> "ACTIVE"] \in Membership
    BY AccessAssumption DEF Membership, MembershipStatus, RoleCode
  <2> QED
    BY <2>1, AccessAssumption
<1>3. AdminIn(member, first)
  BY <1>1, <1>2 DEF AdminIn
<1>4. \A i \in Rows : member[i] # None => i = first
  BY <1>1
<1>5. Roster(member)
  BY <1>3, <1>4 DEF Roster
<1>6. PICK crew \in SUBSET Workers :
        worker = [w \in Workers |-> IF w \in crew THEN Idle ELSE Off]
  BY DEF Init
<1>7. \A w \in Workers : FreshIn(worker[w], member)
  BY <1>6 DEF FreshIn, Idle, Off
<1> QED
  BY <1>5, <1>7 DEF RosterInv

\* A step that leaves the memberships alone, by a request that holds none of them after it.
LEMMA QuietStep ==
  ASSUME Inv, Roster(member), \A w \in Workers : FreshIn(worker[w], member), UNCHANGED member,
         \/ UNCHANGED worker
         \/ \E w \in Workers, q \in Query : /\ worker' = [worker EXCEPT ![w] = q]
                                            /\ FreshIn(q, member)
  PROVE  Roster(member') /\ \A w \in Workers : FreshIn(worker'[w], member')
<1>1. ASSUME NEW w \in Workers, NEW q \in Query, worker' = [worker EXCEPT ![w] = q],
             FreshIn(q, member), NEW x \in Workers
      PROVE  FreshIn(worker'[x], member)
  <2>1. worker'[x] = IF x = w THEN q ELSE worker[x]
    BY <1>1 DEF Inv
  <2> QED
    BY <1>1, <2>1
<1> QED
  BY <1>1

\* A request that has loaded the row of its target sees it as it is.
LEMMA LoadTargetFresh ==
  ASSUME Inv, NEW w \in Workers, NEW u \in Users, NEW role \in RoleCode \cup {None},
         NEW status \in MembershipStatus \cup {None}, LoadTarget(w, u, role, status)
  PROVE  \E q \in Query : worker' = [worker EXCEPT ![w] = q] /\ FreshIn(q, member)
<1>1. PICK q \in Query :
         /\ worker' = [worker EXCEPT ![w] = q]
         /\ q.pc = "loaded" /\ q.target = u
         /\ q.row = None => RowsOf(u) = {}
         /\ q.row # None => q.seen = member[q.row]
  BY LoadTargetShape
<1>2. q.row = None => \A i \in Rows : member[i] # None => member[i].user # u
  BY <1>1 DEF RowsOf
<1>3. FreshIn(q, member)
  BY <1>1, <1>2 DEF FreshIn
<1> QED
  BY <1>1, <1>3

LEMMA AdminsFinite == IsFiniteSet(ActiveAdmins)
BY AccessAssumption, FS_Subset DEF ActiveAdmins

\* _ensure_not_last_admin counted more than one: one of them is not the target's row.
LEMMA CountedOthers ==
  ASSUME Cardinality(ActiveAdmins) > 1, NEW row
  PROVE  \E i \in Rows : i # row /\ AdminIn(member, i)
<1>1. SUFFICES ASSUME \A i \in ActiveAdmins : i = row PROVE FALSE
  BY DEF ActiveAdmins, AdminIn
<1>2. ActiveAdmins \subseteq {row}
  BY <1>1
<1>3. IsFiniteSet({row}) /\ Cardinality({row}) = 1
  BY FS_Singleton
<1>4. Cardinality(ActiveAdmins) <= 1 /\ Cardinality(ActiveAdmins) \in Nat
  BY <1>2, <1>3, FS_Subset, AdminsFinite, FS_CardinalityType
<1> QED
  BY <1>4

LEMMA CheckMemberFresh ==
  ASSUME Inv, NEW w \in Workers, CheckMember(w), FreshIn(worker[w], member)
  PROVE  \E q \in Query : worker' = [worker EXCEPT ![w] = q] /\ FreshIn(q, member)
<1>1. PICK p \in Query : p = worker[w]
  BY DEF Inv
<1>2. PICK q : q = [p EXCEPT !.pc = "checked"]
  OBVIOUS
<1>3. /\ q \in Query /\ q.pc = "checked" /\ q.route = p.route /\ q.target = p.target
      /\ q.newRole = p.newRole /\ q.newStatus = p.newStatus
      /\ q.row = p.row /\ q.seen = p.seen
  BY <1>2 DEF Query
<1>4. worker' = [worker EXCEPT ![w] = q]
  BY <1>1, <1>2, Zenon DEF CheckMember
<1>5. /\ p.pc = "loaded" /\ FreshIn(p, member)
      /\ TakesAway(p) /\ p.seen.role = "COMPANY_ADMIN" => Cardinality(ActiveAdmins) > 1
      /\ p.route.op = "create_company_user" /\ p.row # None => p.seen.status # "ACTIVE"
  BY <1>1 DEF CheckMember, EnsureNotLastAdmin
<1>6. TakesAway(q) <=> TakesAway(p)
  BY <1>3 DEF TakesAway
<1>7. q.row # None => SafeIn(q, member)
  BY <1>3, <1>5, <1>6, CountedOthers DEF SafeIn
<1>8. FreshIn(q, member)
  BY <1>3, <1>5, <1>7 DEF FreshIn
<1> QED
  BY <1>3, <1>4, <1>8

\* A row for a user who has none: every administrator stays, and the user has one row.
LEMMA InsertKeepsRoster ==
  ASSUME Inv, Roster(member), NEW w \in Workers, InsertMember(w), FreshIn(worker[w], member)
  PROVE  Roster(member')
<1>1. PICK i \in Rows, row \in Membership :
         /\ member[i] = None /\ member' = [member EXCEPT ![i] = row]
         /\ row.user = worker[w].target
  BY InsertType
<1>2. \A j \in Rows : member[j] # None => member[j].user # row.user
  BY <1>1 DEF FreshIn, InsertMember
<1>3. \A j \in Rows : member'[j] = IF j = i THEN row ELSE member[j]
  BY <1>1 DEF Inv
<1>4. PICK a \in Rows : AdminIn(member, a)
  BY DEF Roster
<1>5. AdminIn(member', a)
  BY <1>1, <1>3, <1>4 DEF AdminIn
<1>6. ASSUME NEW j \in Rows, NEW k \in Rows, member'[j] # None, member'[k] # None,
             member'[j].user = member'[k].user
      PROVE  j = k
  BY <1>2, <1>3, <1>6 DEF Roster
<1> QED
  BY <1>5, <1>6 DEF Roster

\* What UpdateMember writes over an administrator's row leaves one, there or elsewhere.
LEMMA UpdateKeepsRoster ==
  ASSUME Inv, Roster(member), NEW w \in Workers, UpdateMember(w), FreshIn(worker[w], member)
  PROVE  Roster(member')
<1>1. /\ worker[w].pc = "checked" /\ worker[w].row # None
      /\ member' = [member EXCEPT ![worker[w].row] = Written(worker[w])]
  BY DEF UpdateMember
<1>2. PICK q \in Query : q = worker[w]
  BY DEF Inv
<1>3. PICK i \in Rows, row \in Membership :
        /\ i = q.row /\ row = Written(q) /\ row.user = q.target
        /\ member[i] # None /\ member[i].user = q.target
  BY <1>1, <1>2, WrittenType
<1>4. \A j \in Rows : member'[j] = IF j = i THEN row ELSE member[j]
  BY <1>1, <1>2, <1>3 DEF Inv
<1>5. member[i] = q.seen /\ SafeIn(q, member)
  BY <1>1, <1>2, <1>3 DEF FreshIn
<1>6. PICK a \in Rows : AdminIn(member, a)
  BY DEF Roster
<1>7. \E b \in Rows : AdminIn(member', b)
  <2>1. CASE a # i
    BY <1>4, <1>6, <2>1 DEF AdminIn
  <2>2. CASE a = i /\ TakesAway(q)
    <3>1. PICK b \in Rows : b # i /\ AdminIn(member, b)
      BY <1>3, <1>5, <1>6, <2>2 DEF SafeIn, AdminIn
    <3> QED
      BY <1>4, <3>1 DEF AdminIn
  <2>3. CASE a = i /\ ~TakesAway(q)
    <3>1. /\ q.seen.role = "COMPANY_ADMIN" /\ q.seen.status = "ACTIVE"
          /\ q.route.op # "create_company_user"
      BY <1>5, <1>6, <2>3 DEF AdminIn, SafeIn
    <3>2. /\ ~(q.newRole # None /\ q.newRole # q.seen.role)
          /\ ~(q.newStatus # None /\ q.newStatus # "ACTIVE")
      BY <2>3, <3>1 DEF TakesAway
    <3>3. row.role = "COMPANY_ADMIN" /\ row.status = "ACTIVE"
      BY <1>3, <1>5, <3>1, <3>2 DEF Written
    <3>4. row # None
      BY AccessAssumption
    <3> QED
      BY <1>4, <3>3, <3>4 DEF AdminIn
  <2> QED
    BY <2>1, <2>2, <2>3
<1>8. ASSUME NEW j \in Rows, NEW k \in Rows, member'[j] # None, member'[k] # None,
             member'[j].user = member'[k].user
      PROVE  j = k
  <2>1. /\ member[j] # None /\ member[j].user = member'[j].user
        /\ member[k] # None /\ member[k].user = member'[k].user
    BY <1>3, <1>4, <1>8
  <2> QED
    BY <1>8, <2>1 DEF Roster
<1> QED
  BY <1>7, <1>8 DEF Roster

\* The others are off duty, and so hold no row.
LEMMA WriterAlone ==
  ASSUME Inv, Serial, NEW w \in Workers, worker[w].pc # "off",
         worker' = [worker EXCEPT ![w] = Idle]
  PROVE  \A x \in Workers : FreshIn(worker'[x], member')
<1>1. ASSUME NEW x \in Workers PROVE worker'[x].pc \notin {"loaded", "checked"}
  <2>1. CASE x = w
    BY <2>1 DEF Inv, Idle
  <2>2. CASE x # w
    BY <2>2, OnlyOne DEF Inv
  <2> QED
    BY <2>1, <2>2
<1> QED
  BY <1>1 DEF FreshIn

LEMMA RosterNext ==
  ASSUME Inv, RosterInv, [Next]_vars
  PROVE  RosterInv'
<1>1. SUFFICES ASSUME desk = "people", Serial, Roster(member),
                      \A w \in Workers : FreshIn(worker[w], member)
               PROVE  Roster(member') /\ \A w \in Workers : FreshIn(worker'[w], member')
  <2>1. desk' = desk
    BY ZenonT(60) DEF Next, vars, Authorize, LoadTarget, Finish, Rotate, Revoke, UpdateCompany, CheckMember,
           InsertMember, UpdateMember, Refuse, LoadForRefresh, LoadForLogout, LogIn, Expire
  <2> QED
    BY <2>1, SerialStays, SMTT(30) DEF RosterInv
<1> DEFINE Quiet == /\ UNCHANGED member
                    /\ \/ UNCHANGED worker
                       \/ \E w \in Workers, q \in Query :
                            worker' = [worker EXCEPT ![w] = q] /\ FreshIn(q, member)
           Goal == Roster(member') /\ \A w \in Workers : FreshIn(worker'[w], member')
<1>2. Quiet => Goal
  BY <1>1, QuietStep
<1>3. FreshIn(Idle, member)
  BY DEF FreshIn, Idle
<1>4. CASE UNCHANGED vars
  <2>1. Quiet
    BY <1>4 DEF vars
  <2> QED
    BY <1>2, <2>1
<1>5. CASE Next
  <2>1. ASSUME NEW w \in Workers, NEW u \in Users, NEW role \in RoleCode, NEW r \in Api,
               Authorize(w, u, role, r)
        PROVE  Quiet
    <3>1. PICK q : q = [Idle EXCEPT !.pc = "authorized", !.user = u, !.role = role, !.route = r]
      OBVIOUS
    <3>2. q \in Query /\ FreshIn(q, member)
      BY <3>1 DEF Query, Idle, FreshIn
    <3> QED
      BY <2>1, <3>1, <3>2 DEF Authorize
  <2>2. ASSUME NEW w \in Workers, NEW u \in Users, NEW role \in RoleCode \cup {None},
               NEW status \in MembershipStatus \cup {None}, LoadTarget(w, u, role, status)
        PROVE  Quiet
    BY <2>2, LoadTargetFresh, ZenonT(60) DEF LoadTarget
  <2>3. ASSUME NEW w \in Workers, CheckMember(w) PROVE Quiet
    BY <1>1, <2>3, CheckMemberFresh DEF CheckMember
  <2>4. ASSUME NEW w \in Workers,
               \/ Finish(w) \/ Rotate(w) \/ Revoke(w) \/ UpdateCompany(w)
               \/ worker[w].pc \notin {"idle", "off"} /\ Refuse(w)
        PROVE  Quiet
    <3>1. UNCHANGED member /\ worker' = [worker EXCEPT ![w] = Idle]
      BY <2>4 DEF Finish, Rotate, Revoke, UpdateCompany, Refuse
    <3> QED
      BY <1>3, <3>1, IdleType
  <2>5. ASSUME NEW w \in Workers, NEW t \in Tokens, LoadForRefresh(w, t) \/ LoadForLogout(w, t)
        PROVE  Quiet
    <3>1. PICK pc \in {"refreshing", "leaving"} :
             worker' = [worker EXCEPT ![w] = [Idle EXCEPT !.pc = pc, !.token = t]]
      BY <2>5 DEF LoadForRefresh, LoadForLogout
    <3>2. PICK q : q = [Idle EXCEPT !.pc = pc, !.token = t]
      OBVIOUS
    <3>3. q \in Query /\ FreshIn(q, member)
      BY <3>2 DEF Query, Idle, FreshIn
    <3> QED
      BY <2>5, <3>1, <3>2, <3>3 DEF LoadForRefresh, LoadForLogout
  <2>6. ASSUME (\E u \in Users : LogIn(u)) \/ (\E t \in Tokens : Expire(t)) PROVE Quiet
    BY <2>6 DEF LogIn, Expire
  <2> HIDE DEF Quiet
  <2>7. ASSUME NEW w \in Workers, InsertMember(w) \/ UpdateMember(w) PROVE Goal
    <3>1. Roster(member')
      BY <1>1, <2>7, InsertKeepsRoster, UpdateKeepsRoster
    <3>2. worker[w].pc # "off" /\ worker' = [worker EXCEPT ![w] = Idle]
      BY <2>7 DEF InsertMember, UpdateMember
    <3> QED
      BY <1>1, <3>1, <3>2, WriterAlone
  <2> HIDE DEF Goal
  <2>8. Goal
    BY <1>2, <1>5, <2>1, <2>2, <2>3, <2>4, <2>5, <2>6, <2>7, Steps, Zenon
  <2> QED
    BY <2>8 DEF Goal
<1> QED
  BY <1>4, <1>5

\* With requests one after the other, the company keeps an active administrator and nobody
\* comes to have two membership rows, whatever sequence of admissions, role changes and
\* deactivations it goes through (create_company_user, update_company_user,
\* deactivate_company_user); rows and requests are well formed in any case.
THEOREM RosterAlwaysSound == Spec => []RosterSound
<1>1. Inv /\ RosterInv => RosterSound
  <2> SUFFICES ASSUME Inv, RosterInv PROVE RosterSound
    OBVIOUS
  <2>1. ASSUME desk = "people", Serial
        PROVE  ActiveAdmins # {} /\ \A u \in Users : Cardinality(RowsOf(u)) <= 1
    <3>1. Roster(member)
      BY <2>1 DEF RosterInv
    <3>2. ActiveAdmins # {}
      BY <3>1 DEF Roster, AdminIn, ActiveAdmins
    <3>3. ASSUME NEW u \in Users PROVE Cardinality(RowsOf(u)) <= 1
      <4>1. \A i, j \in RowsOf(u) : i = j
        BY <3>1 DEF Roster, RowsOf
      <4> QED
        BY <4>1, AtMostOne
    <3> QED
      BY <3>2, <3>3
  <2> QED
    BY <2>1, InvTypeOK DEF RosterSound
<1>2. Init => Inv /\ RosterInv
  BY InitInv, RosterInit
<1>3. Inv /\ RosterInv /\ [Next]_vars => Inv' /\ RosterInv'
  BY NextInv, RosterNext
<1> QED
  BY <1>1, <1>2, <1>3, PTL DEF Spec

-------------------------------------------------------------------------------
(* The sessions: no token is in a session whose first token was never issued, *)
(* a session has one live token, and the token a refresh was shown is the     *)
(* last of its session that is not revoked.                                   *)

SessionsNamed == \A t \in Tokens : token[t] # None => token[token[t].session] # None

LiveIn(tokens, t, s) == tokens[t] # None /\ tokens[t].session = s /\ tokens[t].state = "live"

OneLive(tokens) == \A s, t, n \in Tokens : LiveIn(tokens, t, s) /\ LiveIn(tokens, n, s) => t = n

(* What a refresh in progress relies on.                                      *)
HeldIn(q, tokens) ==
  q.pc = "refreshing" =>
    /\ tokens[q.token].state # "revoked"
    /\ \A n \in Tokens : LiveIn(tokens, n, tokens[q.token].session) => n = q.token

SessionInv ==
  /\ SessionsNamed
  /\ Serial => OneLive(token) /\ \A w \in Workers : HeldIn(worker[w], token)

LEMMA SessionInit == Init => SessionInv
<1> SUFFICES ASSUME Init PROVE SessionInv
  OBVIOUS
<1>1. token = [t \in Tokens |-> None]
  BY DEF Init
<1>2. PICK crew \in SUBSET Workers :
        worker = [w \in Workers |-> IF w \in crew THEN Idle ELSE Off]
  BY DEF Init
<1>3. \A w \in Workers : HeldIn(worker[w], token)
  BY <1>2 DEF HeldIn, Idle, Off
<1> QED
  BY <1>1, <1>3 DEF SessionInv, SessionsNamed, OneLive, LiveIn

\* What a step may do to the sessions there are: leave each at most one live token, and
\* none to a session that has only revoked ones.
SessionStep ==
  /\ OneLive(token')
  /\ \A s \in Tokens : token[s] # None /\ SignedOut(s) => \A t \in Tokens : ~LiveIn(token', t, s)

\* login: the new session is named after a token nobody holds.
LEMMA LogInSession ==
  ASSUME Inv, SessionInv, NEW u \in Users, LogIn(u)
  PROVE  /\ SessionsNamed'
         /\ Serial => SessionStep /\ \A w \in Workers : HeldIn(worker'[w], token')
<1>1. PICK t \in Tokens, new \in RefreshToken :
         /\ token[t] = None /\ token' = [token EXCEPT ![t] = new]
         /\ new.session = t
  <2>1. PICK t \in Free : token' = [token EXCEPT ![t] = Issued(u, t)]
    BY DEF LogIn
  <2>2. t \in Tokens /\ token[t] = None
    BY DEF Free
  <2> QED
    BY <2>1, <2>2, IssuedType DEF Issued
<1>2. new # None /\ \A x \in Tokens : token'[x] = IF x = t THEN new ELSE token[x]
  BY <1>1, AccessAssumption DEF Inv
<1>3. \A x \in Tokens : token[x] # None => token[x].session \in Tokens /\ token[x].session # t
  BY <1>1 DEF SessionInv, SessionsNamed, Inv, RefreshToken
<1>4. SessionsNamed'
  <2>1. ASSUME NEW x \in Tokens, token'[x] # None PROVE token'[token'[x].session] # None
    <3>1. CASE x = t
      BY <1>1, <1>2, <3>1
    <3>2. CASE x # t
      BY <1>2, <1>3, <2>1, <3>2 DEF SessionInv, SessionsNamed
    <3> QED
      BY <3>1, <3>2
  <2> QED
    BY <2>1 DEF SessionsNamed
<1>5. ASSUME Serial PROVE SessionStep
  <2>1. OneLive(token')
    BY <1>1, <1>2, <1>3, <1>5 DEF SessionInv, OneLive, LiveIn
  <2>2. ASSUME NEW s \in Tokens, token[s] # None, SignedOut(s), NEW x \in Tokens
        PROVE  ~LiveIn(token', x, s)
    <3>1. s # t
      BY <1>1, <2>2
    <3> QED
      BY <1>1, <1>2, <2>2, <3>1 DEF SignedOut, LiveIn
  <2> QED
    BY <2>1, <2>2 DEF SessionStep
<1>6. ASSUME Serial, NEW w \in Workers, worker[w].pc = "refreshing"
      PROVE  HeldIn(worker[w], token')
  <2>1. PICK x \in Tokens : x = worker[w].token /\ token[x] # None
    BY <1>6, PresentedType
  <2>2. HeldIn(worker[w], token)
    BY <1>6 DEF SessionInv
  <2>3. token'[x] = token[x] /\ token[x].session # t
    BY <1>1, <1>2, <1>3, <2>1
  <2>4. \A n \in Tokens : LiveIn(token', n, token[x].session) => n = x
    BY <1>1, <1>2, <1>6, <2>1, <2>2, <2>3 DEF HeldIn, LiveIn
  <2> QED
    BY <1>6, <2>1, <2>2, <2>3, <2>4 DEF HeldIn
<1>7. worker' = worker
  BY DEF LogIn
<1>8. Serial => \A w \in Workers : HeldIn(worker'[w], token')
  BY <1>6, <1>7 DEF HeldIn
<1> QED
  BY <1>4, <1>5, <1>8

\* refresh: the last token of a session hands over to its successor.
LEMMA RotateSession ==
  ASSUME Inv, SessionInv, NEW w \in Workers, Rotate(w)
  PROVE  SessionsNamed' /\ (Serial => SessionStep)
<1>1. PICK t \in Tokens, n \in Tokens, old \in RefreshToken, new \in RefreshToken :
         /\ t = worker[w].token /\ token[t] # None /\ token[n] = None /\ n # t
         /\ old.state = "revoked" /\ old.session = token[t].session
         /\ new.state = "live" /\ new.session = token[t].session
         /\ token' = [token EXCEPT ![t] = old, ![n] = new]
  BY RotateShape
<1>2. /\ old # None /\ new # None
      /\ \A x \in Tokens : token'[x] = IF x = n THEN new ELSE IF x = t THEN old ELSE token[x]
  BY <1>1, AccessAssumption DEF Inv
<1>3. \A x \in Tokens : token[x] # None => token[x].session \in Tokens
  BY DEF Inv, RefreshToken
<1>4. SessionsNamed'
  <2>1. ASSUME NEW x \in Tokens, token'[x] # None PROVE token'[token'[x].session] # None
    <3>1. PICK y \in Tokens : token[y] # None /\ token'[x].session = token[y].session
      BY <1>1, <1>2, <2>1
    <3>2. token[token[y].session] # None /\ token[y].session \in Tokens
      BY <1>3, <3>1 DEF SessionInv, SessionsNamed
    <3> QED
      BY <1>2, <3>1, <3>2
  <2> QED
    BY <2>1 DEF SessionsNamed
<1>5. ASSUME Serial PROVE SessionStep
  <2>1. /\ token[t].state # "revoked"
        /\ \A x \in Tokens : LiveIn(token, x, token[t].session) => x = t
    BY <1>1, <1>5 DEF SessionInv, HeldIn, Rotate
  <2>2. \A x, s \in Tokens : LiveIn(token', x, s) =>
          \/ x = n /\ s = token[t].session
          \/ x # t /\ x # n /\ LiveIn(token, x, s)
    BY <1>1, <1>2 DEF LiveIn
  <2>3. OneLive(token')
    BY <1>5, <2>1, <2>2 DEF OneLive, SessionInv
  <2>4. ASSUME NEW s \in Tokens, SignedOut(s), NEW x \in Tokens PROVE ~LiveIn(token', x, s)
    <3>1. s # token[t].session
      BY <1>1, <2>1, <2>4 DEF SignedOut
    <3>2. ~LiveIn(token, x, s)
      BY <2>4 DEF SignedOut, LiveIn
    <3> QED
      BY <2>2, <3>1, <3>2
  <2> QED
    BY <2>3, <2>4 DEF SessionStep
<1> QED
  BY <1>4, <1>5

\* logout and the passing of expires_at: one live token less.
LEMMA MarkSession ==
  ASSUME Inv, SessionInv, NEW t \in Tokens, NEW state, state # "live", Marks(t, state)
  PROVE  /\ SessionsNamed'
         /\ Serial => SessionStep
         /\ \A x, s \in Tokens : LiveIn(token', x, s) => LiveIn(token, x, s)
<1>1. PICK x \in RefreshToken : /\ token[t] # None /\ x.state = state
                              /\ x.session = token[t].session
                              /\ token' = [token EXCEPT ![t] = x]
  BY DEF Marks
<1>2. x # None /\ \A y \in Tokens : token'[y] = IF y = t THEN x ELSE token[y]
  BY <1>1, AccessAssumption DEF Inv
<1>3. \A y \in Tokens : token[y] # None => token[y].session \in Tokens
  BY DEF Inv, RefreshToken
<1>4. SessionsNamed'
  <2>1. ASSUME NEW y \in Tokens, token'[y] # None PROVE token'[token'[y].session] # None
    <3>1. token[y] # None /\ token'[y].session = token[y].session
      BY <1>1, <1>2, <2>1
    <3>2. token[token[y].session] # None /\ token[y].session \in Tokens
      BY <1>3, <3>1 DEF SessionInv, SessionsNamed
    <3> QED
      BY <1>2, <3>1, <3>2
  <2> QED
    BY <2>1 DEF SessionsNamed
<1>5. \A y, s \in Tokens : LiveIn(token', y, s) => LiveIn(token, y, s)
  BY <1>1, <1>2 DEF LiveIn
<1>6. ASSUME Serial PROVE SessionStep
  <2>1. OneLive(token')
    BY <1>5, <1>6 DEF SessionInv, OneLive
  <2>2. \A s, y \in Tokens : SignedOut(s) => ~LiveIn(token, y, s)
    BY DEF SignedOut, LiveIn
  <2> QED
    BY <1>5, <2>1, <2>2 DEF SessionStep
<1> QED
  BY <1>4, <1>5, <1>6

\* A token that expires while a refresh holds it is still the last of its session.
LEMMA ExpireHeld ==
  ASSUME Inv, SessionInv, Serial, NEW t \in Tokens, Expire(t), NEW w \in Workers
  PROVE  HeldIn(worker'[w], token')
<1>1. PICK x \in RefreshToken : /\ token[t] # None /\ x.state = "expired"
                              /\ x.session = token[t].session
                              /\ token' = [token EXCEPT ![t] = x]
  BY ExpireShape DEF Marks
<1>2. SUFFICES ASSUME worker[w].pc = "refreshing" PROVE HeldIn(worker[w], token')
  BY DEF Expire, HeldIn
<1>3. PICK y \in Tokens : y = worker[w].token
  BY <1>2, PresentedType
<1>4. HeldIn(worker[w], token)
  BY DEF SessionInv
<1>5. \A z \in Tokens : token'[z] = IF z = t THEN x ELSE token[z]
  BY <1>1 DEF Inv
<1>6. token'[y].state # "revoked" /\ token'[y].session = token[y].session
  BY <1>1, <1>2, <1>3, <1>4, <1>5 DEF HeldIn
<1>7. \A n, s \in Tokens : LiveIn(token', n, s) => LiveIn(token, n, s)
  BY ExpireShape, MarkSession
<1>8. token[y].session \in Tokens
  BY <1>2, <1>3, PresentedType DEF RefreshToken
<1> QED
  BY <1>2, <1>3, <1>4, <1>6, <1>7, <1>8 DEF HeldIn

\* A step that leaves the tokens alone, by a request that rightly holds what it holds.
LEMMA QuietSession ==
  ASSUME Inv, SessionInv, UNCHANGED token,
         \/ UNCHANGED worker
         \/ \E w \in Workers, q \in Query :
              worker' = [worker EXCEPT ![w] = q] /\ (Serial => HeldIn(q, token))
  PROVE  /\ SessionsNamed'
         /\ Serial => SessionStep /\ \A w \in Workers : HeldIn(worker'[w], token')
<1>1. SessionsNamed'
  BY DEF SessionInv, SessionsNamed
<1>2. ASSUME Serial PROVE SessionStep
  <2>1. \A s, y \in Tokens : SignedOut(s) => ~LiveIn(token, y, s)
    BY DEF SignedOut, LiveIn
  <2> QED
    BY <1>2, <2>1 DEF SessionInv, SessionStep
<1>3. ASSUME Serial, NEW w \in Workers, NEW q \in Query, worker' = [worker EXCEPT ![w] = q],
             HeldIn(q, token), NEW x \in Workers
      PROVE  HeldIn(worker'[x], token)
  <2>1. worker'[x] = IF x = w THEN q ELSE worker[x]
    BY <1>3 DEF Inv
  <2>2. HeldIn(worker[x], token)
    BY <1>3 DEF SessionInv
  <2> QED
    BY <1>3, <2>1, <2>2
<1>4. Serial => \A w \in Workers : HeldIn(worker'[w], token')
  BY <1>3 DEF SessionInv
<1> QED
  BY <1>1, <1>2, <1>4

\* The worker that wrote the tokens is idle after it, and the others are off duty.
LEMMA WriterHoldsNone ==
  ASSUME Inv, Serial, NEW w \in Workers, worker[w].pc # "off",
         worker' = [worker EXCEPT ![w] = Idle]
  PROVE  \A x \in Workers : HeldIn(worker'[x], token')
<1>1. ASSUME NEW x \in Workers PROVE worker'[x].pc # "refreshing"
  <2>1. CASE x = w
    BY <2>1 DEF Inv, Idle
  <2>2. CASE x # w
    BY <2>2, OnlyOne DEF Inv
  <2> QED
    BY <2>1, <2>2
<1> QED
  BY <1>1 DEF HeldIn

\* refresh and logout remember a token; refresh only a live one.
LEMMA LoadTokenHeld ==
  ASSUME Inv, SessionInv, NEW w \in Workers, NEW t \in Tokens,
         LoadForRefresh(w, t) \/ LoadForLogout(w, t)
  PROVE  \E q \in Query : worker' = [worker EXCEPT ![w] = q] /\ (Serial => HeldIn(q, token))
<1>1. PICK pc \in {"refreshing", "leaving"} :
         /\ worker' = [worker EXCEPT ![w] = [Idle EXCEPT !.pc = pc, !.token = t]]
         /\ pc = "refreshing" => token[t].state = "live"
         /\ token[t] # None
  BY DEF LoadForRefresh, LoadForLogout, IsActive
<1>2. PICK q : q = [Idle EXCEPT !.pc = pc, !.token = t]
  OBVIOUS
<1>3. q \in Query /\ q.pc = pc /\ q.token = t
  BY <1>2 DEF Query, Idle
<1>4. ASSUME Serial, pc = "refreshing" PROVE HeldIn(q, token)
  <2>1. token[t].session \in Tokens /\ LiveIn(token, t, token[t].session)
    BY <1>1, <1>4 DEF Inv, RefreshToken, LiveIn
  <2>2. \A n \in Tokens : LiveIn(token, n, token[t].session) => n = t
    BY <1>4, <2>1 DEF SessionInv, OneLive
  <2> QED
    BY <1>1, <1>3, <1>4, <2>2 DEF HeldIn
<1>5. Serial => HeldIn(q, token)
  BY <1>3, <1>4 DEF HeldIn
<1> QED
  BY <1>1, <1>2, <1>3, <1>5

LEMMA SessionSteps ==
  ASSUME Inv, SessionInv, [Next]_vars
  PROVE  /\ SessionsNamed'
         /\ Serial => SessionStep /\ \A w \in Workers : HeldIn(worker'[w], token')
<1> DEFINE Quiet == /\ UNCHANGED token
                    /\ \/ UNCHANGED worker
                       \/ \E w \in Workers, q \in Query :
                            worker' = [worker EXCEPT ![w] = q] /\ (Serial => HeldIn(q, token))
           Goal == /\ SessionsNamed'
                   /\ Serial => SessionStep /\ \A w \in Workers : HeldIn(worker'[w], token')
<1>1. Quiet => Goal
  BY QuietSession
<1>2. HeldIn(Idle, token)
  BY DEF HeldIn, Idle
<1>3. CASE UNCHANGED vars
  <2>1. Quiet
    BY <1>3 DEF vars
  <2> QED
    BY <1>1, <2>1
<1>4. CASE Next
  <2>1. ASSUME NEW w \in Workers, NEW u \in Users, NEW role \in RoleCode, NEW r \in Api,
               Authorize(w, u, role, r)
        PROVE  Quiet
    <3>1. PICK q : q = [Idle EXCEPT !.pc = "authorized", !.user = u, !.role = role, !.route = r]
      OBVIOUS
    <3>2. q \in Query /\ HeldIn(q, token)
      BY <3>1 DEF Query, Idle, HeldIn
    <3> QED
      BY <2>1, <3>1, <3>2 DEF Authorize
  <2>2. ASSUME NEW w \in Workers, NEW u \in Users, NEW role \in RoleCode \cup {None},
               NEW status \in MembershipStatus \cup {None}, LoadTarget(w, u, role, status)
        PROVE  Quiet
    <3>1. PICK q \in Query : worker' = [worker EXCEPT ![w] = q] /\ q.pc = "loaded"
      BY <2>2, LoadTargetShape
    <3> QED
      BY <2>2, <3>1 DEF LoadTarget, HeldIn
  <2>3. ASSUME NEW w \in Workers, CheckMember(w) PROVE Quiet
    <3>1. PICK p \in Query : p = worker[w]
      BY DEF Inv
    <3>2. PICK q : q = [p EXCEPT !.pc = "checked"]
      OBVIOUS
    <3>3. q \in Query /\ q.pc = "checked"
      BY <3>2 DEF Query
    <3>4. worker' = [worker EXCEPT ![w] = q]
      BY <2>3, <3>1, <3>2, Zenon DEF CheckMember
    <3> QED
      BY <2>3, <3>3, <3>4 DEF CheckMember, HeldIn
  <2>4. ASSUME NEW w \in Workers,
               \/ Finish(w) \/ UpdateCompany(w) \/ InsertMember(w) \/ UpdateMember(w)
               \/ worker[w].pc \notin {"idle", "off"} /\ Refuse(w)
        PROVE  Quiet
    <3>1. UNCHANGED token /\ worker' = [worker EXCEPT ![w] = Idle]
      BY <2>4 DEF Finish, UpdateCompany, InsertMember, UpdateMember, Refuse
    <3> QED
      BY <1>2, <3>1, IdleType
  <2>5. ASSUME NEW w \in Workers, NEW t \in Tokens, LoadForRefresh(w, t) \/ LoadForLogout(w, t)
        PROVE  Quiet
    BY <2>5, LoadTokenHeld DEF LoadForRefresh, LoadForLogout
  <2> HIDE DEF Quiet
  <2>6. ASSUME NEW w \in Workers, Rotate(w) PROVE Goal
    <3>1. worker[w].pc # "off" /\ worker' = [worker EXCEPT ![w] = Idle]
      BY <2>6 DEF Rotate
    <3> QED
      BY <2>6, <3>1, RotateSession, WriterHoldsNone
  <2>7. ASSUME NEW w \in Workers, Revoke(w) PROVE Goal
    <3>1. worker[w].pc # "off" /\ worker' = [worker EXCEPT ![w] = Idle]
      BY <2>7 DEF Revoke
    <3>2. worker[w].token \in Tokens /\ Marks(worker[w].token, "revoked")
      BY <2>7, RevokeShape
    <3> QED
      BY <3>1, <3>2, MarkSession, WriterHoldsNone
  <2>8. ASSUME NEW u \in Users, LogIn(u) PROVE Goal
    BY <2>8, LogInSession
  <2>9. ASSUME NEW t \in Tokens, Expire(t) PROVE Goal
    <3>1. SessionsNamed' /\ (Serial => SessionStep)
      BY <2>9, ExpireShape, MarkSession
    <3>2. Serial => \A w \in Workers : HeldIn(worker'[w], token')
      BY <2>9, ExpireHeld
    <3> QED
      BY <3>1, <3>2
  <2> HIDE DEF Goal
  <2>10. Goal
    BY <1>1, <1>4, <2>1, <2>2, <2>3, <2>4, <2>5, <2>6, <2>7, <2>8, <2>9, Steps, Zenon
  <2> QED
    BY <2>10 DEF Goal
<1> QED
  BY <1>3, <1>4

LEMMA SessionNext ==
  ASSUME Inv, SessionInv, [Next]_vars
  PROVE  SessionInv'
BY SessionSteps, SerialStays DEF SessionInv, SessionStep

\* With requests one after the other, a session never has two live tokens after a step, and
\* one whose tokens have all been revoked is never alive again (login, refresh, logout).
THEOREM SessionsAlwaysSound == Spec => SessionsSound
<1> DEFINE Step == desk = "sessions" /\ Serial =>
                     \A s \in Tokens : token[s] # None =>
                       /\ Cardinality(LiveTokens(s)') <= 1
                       /\ SignedOut(s) => LiveTokens(s)' = {}
<1>1. Inv /\ SessionInv /\ [Next]_vars => [Step]_vars
  <2> SUFFICES ASSUME Inv, SessionInv, [Next]_vars, Serial, NEW s \in Tokens, token[s] # None
               PROVE  /\ Cardinality(LiveTokens(s)') <= 1
                      /\ SignedOut(s) => LiveTokens(s)' = {}
    OBVIOUS
  <2>1. SessionStep
    BY SessionSteps
  <2>2. LiveTokens(s)' = {t \in Tokens : LiveIn(token', t, s)}
    BY DEF LiveTokens, LiveIn
  <2>3. SignedOut(s) => LiveTokens(s)' = {}
    BY <2>1, <2>2 DEF SessionStep
  <2>4. Cardinality(LiveTokens(s)') <= 1
    <3> DEFINE S == {t \in Tokens : LiveIn(token', t, s)}
    <3>1. \A t, n \in S : t = n
      BY <2>1 DEF SessionStep, OneLive
    <3>2. LiveTokens(s)' = S
      BY <2>2
    <3> HIDE DEF S
    <3>3. Cardinality(S) <= 1
      BY <3>1, AtMostOne
    <3>4. Cardinality(LiveTokens(s)') = Cardinality(S)
      BY <3>2, Zenon
    <3> QED
      BY <3>3, <3>4
  <2> QED
    BY <2>3, <2>4
<1>2. Init => Inv /\ SessionInv
  BY InitInv, SessionInit
<1>3. Inv /\ SessionInv /\ [Next]_vars => Inv' /\ SessionInv'
  BY NextInv, SessionNext
<1>4. Spec => [][Step]_vars
  BY <1>1, <1>2, <1>3, PTL DEF Spec
<1> QED
  BY <1>4 DEF SessionsSound

-------------------------------------------------------------------------------
(* What a role may commit.  First the table: each operation asks for a        *)
(* permission that the roles kept away from it do not hold; then the          *)
(* behaviours: a request keeps the role and the operation it was admitted     *)
(* with until it commits.                                                     *)

Lacks(needs, grants) == \A p \in needs : p \notin grants /\ p # "open" /\ p # "signed in"

Gated(router, needs, ops) ==
  /\ router \in Registers => Lacks(needs, AuditorGrants)
  /\ \A op \in ops : op \in Decisions => Lacks(needs, AccountantGrants)
  /\ \A op \in ops : op \in IncomeTaxDecisions =>
                       Lacks(needs, AccountantGrants) /\ Lacks(needs, AdminGrants)
  /\ router = "users" => Lacks(needs, AccountantGrants) /\ Lacks(needs, AuditorGrants)

GatedRoute(r) == r.commits => Gated(r.router, r.needs, {r.op})

Plain(r) == r.router \notin Registers /\ r.router # "users" /\ r.op \notin Decisions

LEMMA ReadsGated ==
  ASSUME NEW router, NEW needs, NEW ops
  PROVE  \A r \in Reads(router, needs, ops) : GatedRoute(r)
BY DEF Reads, Route, GatedRoute

LEMMA CommitsGated ==
  ASSUME NEW router, NEW needs, NEW ops, Gated(router, needs, ops)
  PROVE  \A r \in Commits(router, needs, ops) : GatedRoute(r)
BY DEF Commits, Route, GatedRoute, Gated

LEMMA CommitsAlsoGated ==
  ASSUME NEW router, NEW needs, NEW also, NEW ops, Gated(router, needs, ops)
  PROVE  \A r \in CommitsAlso(router, needs, also, ops) : GatedRoute(r)
BY DEF CommitsAlso, Route, GatedRoute, Gated

LEMMA PlainGated ==
  ASSUME NEW r, Plain(r)
  PROVE  GatedRoute(r)
BY DEF Plain, GatedRoute, Gated, Decisions

\* The operations of the books, the master data and the invoices.
LEMMA BooksGated ==
  \A r \in AccountingPeriodRoutes \cup FinancialYearRoutes \cup LedgerRoutes \cup
        OpeningBalanceRoutes \cup JournalEntryRoutes \cup CustomerRoutes \cup VendorRoutes
        \cup ProductRoutes \cup SalesInvoiceRoutes \cup PurchaseInvoiceRoutes \cup
        CreditNoteRoutes \cup DebitNoteRoutes \cup PaymentRoutes \cup ReceiptRoutes :
        GatedRoute(r)
<1>1. /\ Gated("accounting_periods", {"ACCOUNTING_CREATE"}, {"create_period"})
      /\ Gated("accounting_periods", {"ACCOUNTING_UPDATE"}, {"update_period"})
      /\ Gated("financial_years", {"ACCOUNTING_CREATE"}, {"create_financial_year"})
      /\ Gated("financial_years", {"ACCOUNTING_UPDATE"}, {"update_financial_year"})
      /\ Gated("ledgers", {"LEDGER_MANAGE"}, {"create_ledger", "update_ledger"})
      /\ Gated("opening_balances", {"ACCOUNTING_CREATE"}, {"create_opening_balance"})
      /\ Gated("journal_entries", {"JOURNAL_CREATE"}, {"create_journal_entry"})
      /\ Gated("journal_entries", {"JOURNAL_POST"}, {"post_journal_entry"})
  BY DEF Gated, Lacks, Registers, Decisions, IncomeTaxDecisions, AuditorGrants,
         AccountantGrants, AdminGrants
<1>2. /\ Gated("customers", {"CUSTOMER_MANAGE"}, {"create_customer", "update_customer"})
      /\ Gated("vendors", {"VENDOR_MANAGE"}, {"create_vendor", "update_vendor"})
      /\ Gated("products", {"PRODUCT_MANAGE"}, {"create_product", "update_product"})
      /\ Gated("sales_invoices", {"SALES_CREATE"}, {"create_sales_invoice"})
      /\ Gated("sales_invoices", {"SALES_UPDATE"}, {"update_sales_invoice"})
      /\ Gated("sales_invoices", {"SALES_POST"}, {"post_sales_invoice"})
      /\ Gated("sales_invoices", {"SALES_CANCEL"}, {"cancel_sales_invoice"})
      /\ Gated("purchase_invoices", {"PURCHASE_CREATE"}, {"create_purchase_invoice"})
  BY DEF Gated, Lacks, Registers, Decisions, IncomeTaxDecisions, AuditorGrants,
         AccountantGrants, AdminGrants
<1>3. /\ Gated("purchase_invoices", {"PURCHASE_UPDATE"}, {"update_purchase_invoice"})
      /\ Gated("purchase_invoices", {"PURCHASE_POST"}, {"post_purchase_invoice"})
      /\ Gated("purchase_invoices", {"PURCHASE_CANCEL"}, {"cancel_purchase_invoice"})
      /\ Gated("credit_notes", {"ACCOUNTING_CREATE"}, {"create_credit_note"})
      /\ Gated("debit_notes", {"ACCOUNTING_CREATE"}, {"create_debit_note"})
      /\ Gated("payments", {"PAYMENT_CREATE"}, {"create_payment"})
      /\ Gated("receipts", {"RECEIPT_CREATE"}, {"create_receipt"})
  BY DEF Gated, Lacks, Registers, Decisions, IncomeTaxDecisions, AuditorGrants,
         AccountantGrants, AdminGrants
<1>4. \A r \in AccountingPeriodRoutes : GatedRoute(r)
  BY <1>1, <1>2, <1>3, ReadsGated, CommitsGated DEF AccountingPeriodRoutes
<1>5. \A r \in FinancialYearRoutes : GatedRoute(r)
  BY <1>1, <1>2, <1>3, ReadsGated, CommitsGated DEF FinancialYearRoutes
<1>6. \A r \in LedgerRoutes : GatedRoute(r)
  BY <1>1, <1>2, <1>3, ReadsGated, CommitsGated DEF LedgerRoutes
<1>7. \A r \in OpeningBalanceRoutes : GatedRoute(r)
  BY <1>1, <1>2, <1>3, ReadsGated, CommitsGated DEF OpeningBalanceRoutes
<1>8. \A r \in JournalEntryRoutes : GatedRoute(r)
  BY <1>1, <1>2, <1>3, ReadsGated, CommitsGated DEF JournalEntryRoutes
<1>9. \A r \in CustomerRoutes : GatedRoute(r)
  BY <1>1, <1>2, <1>3, ReadsGated, CommitsGated DEF CustomerRoutes
<1>10. \A r \in VendorRoutes : GatedRoute(r)
  BY <1>1, <1>2, <1>3, ReadsGated, CommitsGated DEF VendorRoutes
<1>11. \A r \in ProductRoutes : GatedRoute(r)
  BY <1>1, <1>2, <1>3, ReadsGated, CommitsGated DEF ProductRoutes
<1>12. \A r \in SalesInvoiceRoutes : GatedRoute(r)
  BY <1>1, <1>2, <1>3, ReadsGated, CommitsGated DEF SalesInvoiceRoutes
<1>13. \A r \in PurchaseInvoiceRoutes : GatedRoute(r)
  BY <1>1, <1>2, <1>3, ReadsGated, CommitsGated DEF PurchaseInvoiceRoutes
<1>14. \A r \in CreditNoteRoutes : GatedRoute(r)
  BY <1>1, <1>2, <1>3, ReadsGated, CommitsGated DEF CreditNoteRoutes
<1>15. \A r \in DebitNoteRoutes : GatedRoute(r)
  BY <1>1, <1>2, <1>3, ReadsGated, CommitsGated DEF DebitNoteRoutes
<1>16. \A r \in PaymentRoutes : GatedRoute(r)
  BY <1>1, <1>2, <1>3, ReadsGated, CommitsGated DEF PaymentRoutes
<1>17. \A r \in ReceiptRoutes : GatedRoute(r)
  BY <1>1, <1>2, <1>3, ReadsGated, CommitsGated DEF ReceiptRoutes
<1> QED
  BY <1>4, <1>5, <1>6, <1>7, <1>8, <1>9, <1>10, <1>11, <1>12, <1>13, <1>14, <1>15, <1>16,
     <1>17

\* The operations of the bank.
LEMMA BankGated ==
  \A r \in BankAccountRoutes \cup BankStatementRoutes \cup BankTransactionRoutes \cup
        BankMatchRoutes \cup BankReconciliationRoutes : GatedRoute(r)
<1>1. /\ Gated("bank_accounts", {"BANK_CREATE"}, {"create_bank_account"})
      /\ Gated("bank_accounts", {"BANK_UPDATE"}, {"update_bank_account"})
      /\ Gated("bank_statements", {"BANK_STATEMENT_IMPORT"}, {"create_bank_statement",
           "archive_bank_statement"})
      /\ Gated("bank_transactions", {"BANK_TRANSACTION_UPDATE"},
           {"exclude_bank_transaction", "flag_bank_transaction_for_review"})
      /\ Gated("bank_transactions", {"BANK_ADJUST"}, {"create_bank_adjustment"})
      /\ Gated("bank_matches", {"BANK_MATCH_CREATE"}, {"create_match"})
      /\ Gated("bank_matches", {"BANK_MATCH_REVERSE"}, {"reverse_match"})
      /\ Gated("bank_reconciliations", {"BANK_RECONCILE_RUN"}, {"start_reconciliation",
           "run_matching", "cancel_reconciliation"})
  BY DEF Gated, Lacks, Registers, Decisions, IncomeTaxDecisions, AuditorGrants,
         AccountantGrants, AdminGrants
<1>2. /\ Gated("bank_reconciliations", {"BANK_RECONCILE_SUBMIT"}, {"submit_reconciliation"})
      /\ Gated("bank_reconciliations", {"BANK_RECONCILE_APPROVE"},
           {"approve_reconciliation", "reject_reconciliation"})
      /\ Gated("bank_reconciliations", {"BANK_RECONCILE_LOCK"}, {"lock_reconciliation"})
  BY DEF Gated, Lacks, Registers, Decisions, IncomeTaxDecisions, AuditorGrants,
         AccountantGrants, AdminGrants
<1>3. \A r \in BankAccountRoutes : GatedRoute(r)
  BY <1>1, <1>2, ReadsGated, CommitsGated DEF BankAccountRoutes
<1>4. \A r \in BankStatementRoutes : GatedRoute(r)
  BY <1>1, <1>2, ReadsGated, CommitsGated DEF BankStatementRoutes
<1>5. \A r \in BankTransactionRoutes : GatedRoute(r)
  BY <1>1, <1>2, ReadsGated, CommitsGated DEF BankTransactionRoutes
<1>6. \A r \in BankMatchRoutes : GatedRoute(r)
  BY <1>1, <1>2, ReadsGated, CommitsGated DEF BankMatchRoutes
<1>7. \A r \in BankReconciliationRoutes : GatedRoute(r)
  BY <1>1, <1>2, ReadsGated, CommitsGated DEF BankReconciliationRoutes
<1> QED
  BY <1>3, <1>4, <1>5, <1>6, <1>7

\* The operations of GST.
LEMMA GstGated ==
  \A r \in GstProfileRoutes \cup GstTaxRateRoutes \cup GstReconciliationRoutes \cup
        GstReturnPeriodRoutes \cup GstReturnSnapshotRoutes \cup ItcRoutes : GatedRoute(r)
<1>1. /\ Gated("gst_profile", {"GST_CREATE"}, {"create_gst_profile"})
      /\ Gated("gst_profile", {"GST_UPDATE"}, {"update_gst_profile"})
      /\ Gated("gst_tax_rates", {"GST_CREATE"}, {"create_tax_rate"})
      /\ Gated("gst_tax_rates", {"GST_UPDATE"}, {"update_tax_rate"})
      /\ Gated("gst_reconciliation", {"GSTR2B_RECONCILE"}, {"run_reconciliation"})
      /\ Gated("gst_return_periods", {"GST_CREATE"}, {"create_return_period"})
      /\ Gated("gst_return_snapshots", {"GST_RETURN_GENERATE"},
           {"generate_return_snapshot"})
      /\ Gated("gst_return_snapshots", {"GST_RETURN_VALIDATE"}, {"submit_for_review"})
  BY DEF Gated, Lacks, Registers, Decisions, IncomeTaxDecisions, AuditorGrants,
         AccountantGrants, AdminGrants
<1>2. /\ Gated("gst_return_snapshots", {"GST_RETURN_APPROVE"}, {"approve_return_snapshot",
           "request_changes"})
      /\ Gated("gst_return_snapshots", {"GST_RETURN_FINALIZE"},
           {"finalize_return_snapshot"})
      /\ Gated("itc", {"ITC_REVIEW"}, {"mark_itc_reviewed"})
      /\ Gated("itc", {"ITC_APPROVE"}, {"approve_or_reject_itc"})
  BY DEF Gated, Lacks, Registers, Decisions, IncomeTaxDecisions, AuditorGrants,
         AccountantGrants, AdminGrants
<1>3. \A r \in GstProfileRoutes : GatedRoute(r)
  BY <1>1, <1>2, ReadsGated, CommitsGated DEF GstProfileRoutes
<1>4. \A r \in GstTaxRateRoutes : GatedRoute(r)
  BY <1>1, <1>2, ReadsGated, CommitsGated DEF GstTaxRateRoutes
<1>5. \A r \in GstReconciliationRoutes : GatedRoute(r)
  BY <1>1, <1>2, ReadsGated, CommitsGated DEF GstReconciliationRoutes
<1>6. \A r \in GstReturnPeriodRoutes : GatedRoute(r)
  BY <1>1, <1>2, ReadsGated, CommitsGated DEF GstReturnPeriodRoutes
<1>7. \A r \in GstReturnSnapshotRoutes : GatedRoute(r)
  BY <1>1, <1>2, ReadsGated, CommitsGated DEF GstReturnSnapshotRoutes
<1>8. \A r \in ItcRoutes : GatedRoute(r)
  BY <1>1, <1>2, ReadsGated, CommitsGated DEF ItcRoutes
<1> QED
  BY <1>3, <1>4, <1>5, <1>6, <1>7, <1>8

\* The operations of TDS.
LEMMA TdsGated ==
  \A r \in TdsProfileRoutes \cup TdsRuleRoutes \cup DeducteeRoutes \cup TdsTransactionRoutes
        \cup TdsDeductionRoutes \cup TdsChallanRoutes \cup TdsReconciliationRoutes \cup
        TdsReturnPeriodRoutes \cup TdsReturnSnapshotRoutes : GatedRoute(r)
<1>1. /\ Gated("tds_profile", {"TDS_CREATE"}, {"create_tds_profile"})
      /\ Gated("tds_profile", {"TDS_UPDATE"}, {"update_tds_profile"})
      /\ Gated("tds_rules", {"TDS_RULE_MANAGE"}, {"create_tds_rule", "update_tds_rule"})
      /\ Gated("deductees", {"TDS_DEDUCTEE_MANAGE"}, {"create_deductee", "update_deductee"})
      /\ Gated("tds_transactions", {"TDS_TRANSACTION_CREATE"}, {"create_tds_transaction"})
      /\ Gated("tds_transactions", {"TDS_TRANSACTION_UPDATE"}, {"update_tds_transaction",
           "override_tds_transaction"})
      /\ Gated("tds_transactions", {"TDS_TRANSACTION_CALCULATE"},
           {"calculate_tds_transaction"})
      /\ Gated("tds_transactions", {"TDS_TRANSACTION_UPDATE"}, {"deduct_tds_transaction"})
  BY DEF Gated, Lacks, Registers, Decisions, IncomeTaxDecisions, AuditorGrants,
         AccountantGrants, AdminGrants
<1>2. /\ Gated("tds_transactions", {"TDS_TRANSACTION_CANCEL"}, {"cancel_tds_transaction"})
      /\ Gated("tds_challans", {"TDS_CHALLAN_CREATE"}, {"create_tds_challan"})
      /\ Gated("tds_challans", {"TDS_CHALLAN_UPDATE"}, {"update_tds_challan",
           "allocate_tds_challan"})
      /\ Gated("tds_reconciliation", {"TDS_CHALLAN_RECONCILE"}, {"run_tds_reconciliation"})
      /\ Gated("tds_return_periods", {"TDS_CREATE"}, {"create_return_period"})
      /\ Gated("tds_return_snapshots", {"TDS_RETURN_GENERATE"},
           {"generate_return_snapshot"})
      /\ Gated("tds_return_snapshots", {"TDS_RETURN_VALIDATE"}, {"submit_for_review"})
      /\ Gated("tds_return_snapshots", {"TDS_RETURN_APPROVE"}, {"approve_return_snapshot",
           "request_changes"})
  BY DEF Gated, Lacks, Registers, Decisions, IncomeTaxDecisions, AuditorGrants,
         AccountantGrants, AdminGrants
<1>3. /\ Gated("tds_return_snapshots", {"TDS_RETURN_FINALIZE"},
           {"finalize_return_snapshot"})
  BY DEF Gated, Lacks, Registers, Decisions, IncomeTaxDecisions, AuditorGrants,
         AccountantGrants, AdminGrants
<1>4. \A r \in TdsProfileRoutes : GatedRoute(r)
  BY <1>1, <1>2, <1>3, ReadsGated, CommitsGated DEF TdsProfileRoutes
<1>5. \A r \in TdsRuleRoutes : GatedRoute(r)
  BY <1>1, <1>2, <1>3, ReadsGated, CommitsGated DEF TdsRuleRoutes
<1>6. \A r \in DeducteeRoutes : GatedRoute(r)
  BY <1>1, <1>2, <1>3, ReadsGated, CommitsGated DEF DeducteeRoutes
<1>7. \A r \in TdsTransactionRoutes : GatedRoute(r)
  BY <1>1, <1>2, <1>3, ReadsGated, CommitsGated DEF TdsTransactionRoutes
<1>8. \A r \in TdsDeductionRoutes : GatedRoute(r)
  BY <1>1, <1>2, <1>3, ReadsGated, CommitsGated DEF TdsDeductionRoutes
<1>9. \A r \in TdsChallanRoutes : GatedRoute(r)
  BY <1>1, <1>2, <1>3, ReadsGated, CommitsGated DEF TdsChallanRoutes
<1>10. \A r \in TdsReconciliationRoutes : GatedRoute(r)
  BY <1>1, <1>2, <1>3, ReadsGated, CommitsGated DEF TdsReconciliationRoutes
<1>11. \A r \in TdsReturnPeriodRoutes : GatedRoute(r)
  BY <1>1, <1>2, <1>3, ReadsGated, CommitsGated DEF TdsReturnPeriodRoutes
<1>12. \A r \in TdsReturnSnapshotRoutes : GatedRoute(r)
  BY <1>1, <1>2, <1>3, ReadsGated, CommitsGated DEF TdsReturnSnapshotRoutes
<1> QED
  BY <1>4, <1>5, <1>6, <1>7, <1>8, <1>9, <1>10, <1>11, <1>12

\* The operations of income tax.
LEMMA IncomeTaxGated ==
  \A r \in IncomeTaxProfileRoutes \cup SalaryAndPropertyRoutes \cup OtherIncomeRoutes \cup
        IncomeTaxCapitalGainRoutes \cup IncomeTaxDeductionRoutes \cup IncomeTaxLossRoutes
        \cup IncomeTaxPaymentRoutes \cup IncomeTaxComputationRoutes \cup
        ItrPreparationRoutes : GatedRoute(r)
<1>1. /\ Gated("income_tax_profile", {"INCOME_TAX_CREATE"}, {"create_profile"})
      /\ Gated("income_tax_profile", {"INCOME_TAX_UPDATE"}, {"update_profile"})
      /\ Gated("income_tax_income", {"INCOME_TAX_CREATE"}, {"create_salary_income",
           "create_house_property_income"})
      /\ Gated("income_tax_income", {"INCOME_TAX_UPDATE"}, {"update_salary_income",
           "delete_salary_income", "update_house_property_income",
           "delete_house_property_income"})
      /\ Gated("income_tax_income", {"INCOME_TAX_CREATE"}, {"create_other_income",
           "create_exempt_income"})
      /\ Gated("income_tax_income", {"INCOME_TAX_UPDATE"}, {"update_other_income",
           "delete_other_income", "delete_exempt_income"})
      /\ Gated("income_tax_capital_gains", {"INCOME_TAX_CREATE"}, {"create_capital_gain"})
      /\ Gated("income_tax_capital_gains", {"INCOME_TAX_UPDATE"}, {"update_capital_gain",
           "delete_capital_gain"})
  BY DEF Gated, Lacks, Registers, Decisions, IncomeTaxDecisions, AuditorGrants,
         AccountantGrants, AdminGrants
<1>2. /\ Gated("income_tax_deductions", {"INCOME_TAX_CREATE"}, {"create_deduction",
           "create_adjustment"})
      /\ Gated("income_tax_deductions", {"INCOME_TAX_UPDATE"}, {"update_deduction",
           "delete_deduction", "delete_adjustment", "set_ledger_classification"})
      /\ Gated("income_tax_losses", {"INCOME_TAX_CREATE"}, {"create_loss"})
      /\ Gated("income_tax_losses", {"INCOME_TAX_UPDATE"}, {"set_loss_setoff"})
      /\ Gated("income_tax_payments", {"INCOME_TAX_CREATE"}, {"create_advance_tax_payment",
           "create_self_assessment_tax_payment", "create_credit_entry"})
      /\ Gated("income_tax_computations", {"INCOME_TAX_CREATE"}, {"create_computation"})
      /\ Gated("income_tax_computations", {"INCOME_TAX_CALCULATE"},
           {"calculate_computation"})
      /\ Gated("income_tax_computations", {"INCOME_TAX_REVIEW"},
           {"submit_computation_for_review"})
  BY DEF Gated, Lacks, Registers, Decisions, IncomeTaxDecisions, AuditorGrants,
         AccountantGrants, AdminGrants
<1>3. /\ Gated("income_tax_computations", {"INCOME_TAX_APPROVE"}, {"approve_computation"})
      /\ Gated("income_tax_computations", {"INCOME_TAX_LOCK"}, {"lock_computation"})
      /\ Gated("income_tax_computations", {"INCOME_TAX_UPDATE"}, {"cancel_computation"})
      /\ Gated("itr_preparations", {"INCOME_TAX_CREATE"}, {"create_preparation"})
      /\ Gated("itr_preparations", {"INCOME_TAX_VALIDATE"}, {"validate_preparation"})
      /\ Gated("itr_preparations", {"INCOME_TAX_REVIEW"}, {"submit_preparation_for_review"})
      /\ Gated("itr_preparations", {"INCOME_TAX_APPROVE"}, {"approve_preparation"})
      /\ Gated("itr_preparations", {"INCOME_TAX_LOCK"}, {"lock_preparation"})
  BY DEF Gated, Lacks, Registers, Decisions, IncomeTaxDecisions, AuditorGrants,
         AccountantGrants, AdminGrants
<1>4. \A r \in IncomeTaxProfileRoutes : GatedRoute(r)
  BY <1>1, <1>2, <1>3, ReadsGated, CommitsGated DEF IncomeTaxProfileRoutes
<1>5. \A r \in SalaryAndPropertyRoutes : GatedRoute(r)
  BY <1>1, <1>2, <1>3, ReadsGated, CommitsGated DEF SalaryAndPropertyRoutes
<1>6. \A r \in OtherIncomeRoutes : GatedRoute(r)
  BY <1>1, <1>2, <1>3, ReadsGated, CommitsGated DEF OtherIncomeRoutes
<1>7. \A r \in IncomeTaxCapitalGainRoutes : GatedRoute(r)
  BY <1>1, <1>2, <1>3, ReadsGated, CommitsGated DEF IncomeTaxCapitalGainRoutes
<1>8. \A r \in IncomeTaxDeductionRoutes : GatedRoute(r)
  BY <1>1, <1>2, <1>3, ReadsGated, CommitsGated DEF IncomeTaxDeductionRoutes
<1>9. \A r \in IncomeTaxLossRoutes : GatedRoute(r)
  BY <1>1, <1>2, <1>3, ReadsGated, CommitsGated DEF IncomeTaxLossRoutes
<1>10. \A r \in IncomeTaxPaymentRoutes : GatedRoute(r)
  BY <1>1, <1>2, <1>3, ReadsGated, CommitsGated DEF IncomeTaxPaymentRoutes
<1>11. \A r \in IncomeTaxComputationRoutes : GatedRoute(r)
  BY <1>1, <1>2, <1>3, ReadsGated, CommitsGated DEF IncomeTaxComputationRoutes
<1>12. \A r \in ItrPreparationRoutes : GatedRoute(r)
  BY <1>1, <1>2, <1>3, ReadsGated, CommitsGated DEF ItrPreparationRoutes
<1> QED
  BY <1>4, <1>5, <1>6, <1>7, <1>8, <1>9, <1>10, <1>11, <1>12

\* The operations of imports and Tally.
LEMMA ImportGated ==
  \A r \in ImportRoutes \cup ImportCommitRoutes \cup TallyPreviewRoutes \cup
        TallyCommitRoutes \cup TallyTemplateRoutes \cup TallyExportRoutes : GatedRoute(r)
<1>1. /\ Gated("imports", {"ACCOUNTING_IMPORT"}, {"create_import_job"})
      /\ Gated("imports", {"ACCOUNTING_IMPORT"}, {"create_gstr2b_job"})
      /\ Gated("imports", {"ACCOUNTING_IMPORT"}, {"create_tds_job"})
      /\ Gated("imports", {"ACCOUNTING_IMPORT"}, {"create_bank_statement_job"})
      /\ Gated("imports", {"ACCOUNTING_IMPORT_COMMIT"}, {"commit_import_job"})
      /\ Gated("imports", {"ACCOUNTING_IMPORT_COMMIT"}, {"commit_gstr2b_job"})
      /\ Gated("imports", {"ACCOUNTING_IMPORT_COMMIT"}, {"commit_tds_job"})
      /\ Gated("imports", {"ACCOUNTING_IMPORT_COMMIT"}, {"commit_bank_statement_job"})
  BY DEF Gated, Lacks, Registers, Decisions, IncomeTaxDecisions, AuditorGrants,
         AccountantGrants, AdminGrants
<1>2. /\ Gated("imports", {"ACCOUNTING_IMPORT"}, {"cancel_import_job"})
      /\ Gated("tally", {"TALLY_IMPORT_CREATE", "ACCOUNTING_IMPORT"},
           {"preview_tally_import"})
      /\ Gated("tally", {"TALLY_IMPORT_COMMIT", "ACCOUNTING_IMPORT_COMMIT"},
           {"commit_tally_import"})
      /\ Gated("tally", {"TALLY_MAPPING_MANAGE", "ACCOUNTING_IMPORT"},
           {"create_mapping_template", "update_mapping_template"})
      /\ Gated("tally", {"TALLY_EXPORT_CREATE", "ACCOUNTING_IMPORT"},
           {"generate_tally_export"})
  BY DEF Gated, Lacks, Registers, Decisions, IncomeTaxDecisions, AuditorGrants,
         AccountantGrants, AdminGrants
<1>3. \A r \in ImportRoutes : GatedRoute(r)
  BY <1>1, <1>2, ReadsGated, CommitsGated, CommitsAlsoGated DEF ImportRoutes
<1>4. \A r \in ImportCommitRoutes : GatedRoute(r)
  BY <1>1, <1>2, ReadsGated, CommitsGated, CommitsAlsoGated DEF ImportCommitRoutes
<1>5. \A r \in TallyPreviewRoutes : GatedRoute(r)
  BY <1>1, <1>2, ReadsGated, CommitsGated, CommitsAlsoGated DEF TallyPreviewRoutes
<1>6. \A r \in TallyCommitRoutes : GatedRoute(r)
  BY <1>1, <1>2, ReadsGated, CommitsGated, CommitsAlsoGated DEF TallyCommitRoutes
<1>7. \A r \in TallyTemplateRoutes : GatedRoute(r)
  BY <1>1, <1>2, ReadsGated, CommitsGated, CommitsAlsoGated DEF TallyTemplateRoutes
<1>8. \A r \in TallyExportRoutes : GatedRoute(r)
  BY <1>1, <1>2, ReadsGated, CommitsGated, CommitsAlsoGated DEF TallyExportRoutes
<1> QED
  BY <1>3, <1>4, <1>5, <1>6, <1>7, <1>8

\* The operations of audits and compliance, where something is decided, and users.
LEMMA ReviewGated ==
  \A r \in AuditEngagementClosingRoutes \cup AuditFindingReviewRoutes \cup
        ObligationReviewRoutes \cup TaskReviewRoutes \cup UserRoutes : GatedRoute(r)
<1>1. /\ Gated("audit_engagements", {"AUDIT_ENGAGEMENT_APPROVE"}, {"approve_engagement",
           "return_for_changes"})
      /\ Gated("audit_engagements", {"AUDIT_ENGAGEMENT_SIGNOFF"}, {"mark_signed_off",
           "create_signoff"})
      /\ Gated("audit_engagements", {"AUDIT_ENGAGEMENT_LOCK"}, {"close_engagement",
           "lock_engagement"})
      /\ Gated("audit_engagements", {"AUDIT_ENGAGEMENT_UPDATE"}, {"cancel_engagement"})
      /\ Gated("audit_findings", {"AUDIT_FINDING_REVIEW"}, {"start_finding_review"})
      /\ Gated("audit_findings", {"AUDIT_FINDING_UPDATE"}, {"request_finding_action"})
      /\ Gated("audit_findings", {"AUDIT_FINDING_RESOLVE"}, {"resolve_finding",
           "close_finding", "reject_finding"})
      /\ Gated("audit_findings", {"AUDIT_FINDING_REOPEN"}, {"reopen_finding"})
  BY DEF Gated, Lacks, Registers, Decisions, IncomeTaxDecisions, AuditorGrants,
         AccountantGrants, AdminGrants
<1>2. /\ Gated("compliance_obligations", {"COMPLIANCE_TASK_COMPLETE",
           "COMPLIANCE_OBLIGATION_MANAGE"}, {"submit_obligation_review",
           "complete_obligation"})
      /\ Gated("compliance_obligations", {"COMPLIANCE_TASK_VERIFY",
           "COMPLIANCE_OBLIGATION_MANAGE"}, {"approve_obligation"})
      /\ Gated("compliance_obligations", {"COMPLIANCE_TASK_REVIEW",
           "COMPLIANCE_OBLIGATION_MANAGE"}, {"reject_obligation"})
      /\ Gated("compliance_obligations", {"COMPLIANCE_OBLIGATION_MANAGE"},
           {"reopen_obligation"})
      /\ Gated("compliance_tasks", {"COMPLIANCE_TASK_UPDATE"}, {"start_task"})
      /\ Gated("compliance_tasks", {"COMPLIANCE_TASK_COMPLETE"}, {"submit_review",
           "complete_task"})
      /\ Gated("compliance_tasks", {"COMPLIANCE_TASK_VERIFY"}, {"verify_task"})
      /\ Gated("compliance_tasks", {"COMPLIANCE_TASK_REVIEW"}, {"return_for_changes"})
  BY DEF Gated, Lacks, Registers, Decisions, IncomeTaxDecisions, AuditorGrants,
         AccountantGrants, AdminGrants
<1>3. /\ Gated("compliance_tasks", {"COMPLIANCE_TASK_CANCEL"}, {"cancel_task"})
      /\ Gated("compliance_tasks", {"COMPLIANCE_TASK_LOCK"}, {"lock_task"})
      /\ Gated("users", {"USER_CREATE"}, {"create_company_user"})
      /\ Gated("users", {"USER_UPDATE"}, {"update_company_user"})
      /\ Gated("users", {"USER_DEACTIVATE"}, {"deactivate_company_user"})
  BY DEF Gated, Lacks, Registers, Decisions, IncomeTaxDecisions, AuditorGrants,
         AccountantGrants, AdminGrants
<1>4. \A r \in AuditEngagementClosingRoutes : GatedRoute(r)
  BY <1>1, <1>2, <1>3, ReadsGated, CommitsGated, CommitsAlsoGated DEF AuditEngagementClosingRoutes
<1>5. \A r \in AuditFindingReviewRoutes : GatedRoute(r)
  BY <1>1, <1>2, <1>3, ReadsGated, CommitsGated, CommitsAlsoGated DEF AuditFindingReviewRoutes
<1>6. \A r \in ObligationReviewRoutes : GatedRoute(r)
  BY <1>1, <1>2, <1>3, ReadsGated, CommitsGated, CommitsAlsoGated DEF ObligationReviewRoutes
<1>7. \A r \in TaskReviewRoutes : GatedRoute(r)
  BY <1>1, <1>2, <1>3, ReadsGated, CommitsGated, CommitsAlsoGated DEF TaskReviewRoutes
<1>8. \A r \in UserRoutes : GatedRoute(r)
  BY <1>1, <1>2, <1>3, ReadsGated, CommitsGated, CommitsAlsoGated DEF UserRoutes
<1> QED
  BY <1>4, <1>5, <1>6, <1>7, <1>8

\* Routers that only read.
LEMMA ReportsGated ==
  \A r \in ActionCenterRoutes \cup AuditLogRoutes \cup BiStatementRoutes \cup
        ControlCenterRoutes \cup DashboardRoutes \cup GstReportRoutes \cup Gstr1Routes \cup
        Gstr2bRoutes \cup Gstr3bRoutes \cup HealthRoutes \cup ReportRoutes \cup RoleRoutes
        \cup SearchRoutes \cup TdsReportRoutes \cup TdsSectionRoutes : GatedRoute(r)
BY ReadsGated DEF ActionCenterRoutes, AuditLogRoutes, BiStatementRoutes,
   ControlCenterRoutes, DashboardRoutes, GstReportRoutes, Gstr1Routes, Gstr2bRoutes,
   Gstr3bRoutes, HealthRoutes, ReportRoutes, RoleRoutes, SearchRoutes, TdsReportRoutes,
   TdsSectionRoutes

\* Operations of no register that decide nothing and manage no user.
LEMMA OthersGated ==
  \A r \in AuditChecklistRoutes \cup AuditEngagementRoutes \cup AuditAssignmentRoutes \cup
        AuditFindingRoutes \cup AuditFindingEvidenceRoutes \cup AuditReportRoutes \cup
        AuditReviewRoutes \cup AuthRoutes \cup BankReportRoutes \cup BiSummaryRoutes \cup
        CompanyRoutes \cup ComplianceCalendarRoutes \cup ObligationRoutes \cup
        ObligationEvidenceRoutes \cup ComplianceReportRoutes \cup ComplianceRuleRoutes \cup
        TaskRoutes \cup TaskEvidenceRoutes \cup DocumentRoutes \cup DocumentArchiveRoutes
        \cup IncomeTaxReportRoutes \cup NotificationRoutes \cup TdsReviewNoteRoutes :
        GatedRoute(r)
<1>1. \A r \in AuditChecklistRoutes \cup AuditEngagementRoutes \cup AuditAssignmentRoutes
          \cup AuditFindingRoutes \cup AuditFindingEvidenceRoutes : Plain(r)
  BY DEF AuditChecklistRoutes, AuditEngagementRoutes, AuditAssignmentRoutes,
     AuditFindingRoutes, AuditFindingEvidenceRoutes, Plain, Reads, Commits, Route,
     Registers, Decisions, IncomeTaxDecisions
<1>2. \A r \in AuditReportRoutes \cup AuditReviewRoutes \cup AuthRoutes \cup
          BankReportRoutes \cup BiSummaryRoutes : Plain(r)
  BY DEF AuditReportRoutes, AuditReviewRoutes, AuthRoutes, BankReportRoutes,
     BiSummaryRoutes, Plain, Reads, Commits, Route, Registers, Decisions, IncomeTaxDecisions
<1>3. \A r \in CompanyRoutes \cup ComplianceCalendarRoutes \cup ObligationRoutes \cup
          ObligationEvidenceRoutes \cup ComplianceReportRoutes : Plain(r)
  BY DEF CompanyRoutes, ComplianceCalendarRoutes, ObligationRoutes,
     ObligationEvidenceRoutes, ComplianceReportRoutes, Plain, Reads, Commits, Route,
     Registers, Decisions, IncomeTaxDecisions
<1>4. \A r \in ComplianceRuleRoutes \cup TaskRoutes \cup TaskEvidenceRoutes \cup
          DocumentRoutes \cup DocumentArchiveRoutes : Plain(r)
  BY DEF ComplianceRuleRoutes, TaskRoutes, TaskEvidenceRoutes, DocumentRoutes,
     DocumentArchiveRoutes, Plain, Reads, Commits, Route, Registers, Decisions,
     IncomeTaxDecisions
<1>5. \A r \in IncomeTaxReportRoutes \cup NotificationRoutes \cup TdsReviewNoteRoutes :
          Plain(r)
  BY DEF IncomeTaxReportRoutes, NotificationRoutes, TdsReviewNoteRoutes, Plain, Reads,
     Commits, Route, Registers, Decisions, IncomeTaxDecisions
<1> QED
  BY <1>1, <1>2, <1>3, <1>4, <1>5, PlainGated

LEMMA ApiGated == \A r \in Api : GatedRoute(r)
BY BooksGated, BankGated, GstGated, TdsGated, IncomeTaxGated, ImportGated, ReviewGated,
   ReportsGated, OthersGated DEF Api

\* What Passes leaves a request with: a door open to all, the platform's role, or one of the
\* permissions the operation asks for.
Admitted(role, r) ==
  \/ r.needs \in {Open, SignedIn}
  \/ role = "SUPER_ADMIN"
  \/ r.needs \cap RolePermissions[role] # {}

Apart(role, r) ==
  /\ role = "AUDITOR" => r.router \notin Registers
  /\ role = "ACCOUNTANT" => r.op \notin Decisions
  /\ r.op \in IncomeTaxDecisions => role \in {"AUDITOR", "SUPER_ADMIN"}
  /\ r.router = "users" => role \in {"COMPANY_ADMIN", "SUPER_ADMIN"}

LEMMA LacksShutsOut ==
  ASSUME NEW role \in RoleCode, role # "SUPER_ADMIN", NEW r, Admitted(role, r)
  PROVE  ~Lacks(r.needs, RolePermissions[role])
BY DEF Lacks, Admitted, Open, SignedIn

LEMMA GrantsOf ==
  /\ RolePermissions["COMPANY_ADMIN"] = AdminGrants
  /\ RolePermissions["ACCOUNTANT"] = AccountantGrants
  /\ RolePermissions["AUDITOR"] = AuditorGrants
BY DEF RolePermissions, RoleCode

LEMMA AdmittedApart ==
  ASSUME NEW role \in RoleCode, NEW r \in Api, r.commits, Admitted(role, r)
  PROVE  Apart(role, r)
<1>1. Gated(r.router, r.needs, {r.op})
  BY ApiGated DEF GatedRoute
<1>2. CASE role = "SUPER_ADMIN"
  BY <1>2 DEF Apart
<1>3. CASE role = "COMPANY_ADMIN"
  BY <1>1, <1>3, LacksShutsOut, GrantsOf DEF Apart, Gated
<1>4. CASE role = "ACCOUNTANT"
  BY <1>1, <1>4, LacksShutsOut, GrantsOf DEF Apart, Gated, Decisions
<1>5. CASE role = "AUDITOR"
  BY <1>1, <1>5, LacksShutsOut, GrantsOf DEF Apart, Gated
<1> QED
  BY <1>2, <1>3, <1>4, <1>5 DEF RoleCode

RolesInv ==
  /\ \A w \in Workers : worker[w].pc = "authorized" => Admitted(worker[w].role, worker[w].route)
  /\ acted # None => Apart(acted.role, acted.route)

LEMMA AuthorizeAdmits ==
  ASSUME NEW w \in Workers, NEW u \in Users, NEW role \in RoleCode, NEW r \in Api,
         Authorize(w, u, role, r)
  PROVE  Admitted(role, r)
BY DEF Authorize, ActingRole, Passes, Admitted

\* Of the requests only one that Authorize lets in becomes "authorized", and a worker that
\* is not it keeps its request.
LEMMA OnlyAuthorizeAdmits ==
  ASSUME Inv, RolesInv, [Next]_vars, NEW w \in Workers, worker'[w].pc = "authorized"
  PROVE  Admitted(worker'[w].role, worker'[w].route)
<1>1. CASE worker'[w] = worker[w]
  BY <1>1 DEF RolesInv
<1>2. CASE worker'[w] # worker[w]
  <2>1. Next
    BY <1>2 DEF vars
  <2>2. ASSUME NEW x \in Workers, NEW u \in Users, NEW role \in RoleCode, NEW r \in Api,
               Authorize(x, u, role, r)
        PROVE  Admitted(worker'[w].role, worker'[w].route)
    <3> DEFINE q == [Idle EXCEPT !.pc = "authorized", !.user = u, !.role = role, !.route = r]
    <3>1. worker' = [worker EXCEPT ![x] = q]
      BY <2>2 DEF Authorize
    <3>2. q.role = role /\ q.route = r
      BY DEF Idle
    <3> HIDE DEF q
    <3>3. worker'[w] = q
      BY <1>2, <3>1 DEF Inv
    <3> QED
      BY <2>2, <3>2, <3>3, AuthorizeAdmits
  <2>3. ASSUME NEW x \in Workers, NEW q, q.pc # "authorized", worker' = [worker EXCEPT ![x] = q]
        PROVE  FALSE
    BY <1>2, <2>3 DEF Inv
  <2>4. ASSUME NEW x \in Workers, NEW u \in Users, NEW role \in RoleCode \cup {None},
               NEW status \in MembershipStatus \cup {None}, LoadTarget(x, u, role, status)
        PROVE  FALSE
    <3>1. PICK q \in Query : q.pc = "loaded" /\ worker' = [worker EXCEPT ![x] = q]
      BY <2>4, LoadTargetShape
    <3> QED
      BY <2>3, <3>1
  <2>5. ASSUME NEW x \in Workers, CheckMember(x) PROVE FALSE
    <3>1. PICK p \in Query : p = worker[x]
      BY DEF Inv
    <3>2. PICK q : q = [p EXCEPT !.pc = "checked"]
      OBVIOUS
    <3>3. q.pc = "checked"
      BY <3>2 DEF Query
    <3>4. worker' = [worker EXCEPT ![x] = q]
      BY <2>5, <3>1, <3>2, Zenon DEF CheckMember
    <3> QED
      BY <2>3, <3>3, <3>4
  <2>6. ASSUME NEW x \in Workers,
               \/ Finish(x) \/ Rotate(x) \/ Revoke(x) \/ UpdateCompany(x)
               \/ InsertMember(x) \/ UpdateMember(x) \/ Refuse(x)
        PROVE  FALSE
    <3>1. worker' = [worker EXCEPT ![x] = Idle] /\ Idle.pc # "authorized"
      BY <2>6 DEF Finish, Rotate, Revoke, UpdateCompany, InsertMember, UpdateMember, Refuse, Idle
    <3> QED
      BY <2>3, <3>1
  <2>7. ASSUME NEW x \in Workers, NEW t \in Tokens, LoadForRefresh(x, t) \/ LoadForLogout(x, t)
        PROVE  FALSE
    <3>1. PICK pc \in {"refreshing", "leaving"} :
             worker' = [worker EXCEPT ![x] = [Idle EXCEPT !.pc = pc, !.token = t]]
      BY <2>7 DEF LoadForRefresh, LoadForLogout
    <3>2. [Idle EXCEPT !.pc = pc, !.token = t].pc # "authorized"
      BY DEF Idle
    <3> QED
      BY <2>3, <3>1, <3>2, Zenon
  <2>8. ASSUME (\E u \in Users : LogIn(u)) \/ (\E t \in Tokens : Expire(t)) PROVE FALSE
    BY <1>2, <2>8 DEF LogIn, Expire
  <2> QED
    BY <2>1, <2>2, <2>4, <2>5, <2>6, <2>7, <2>8, Steps, Zenon
<1> QED
  BY <1>1, <1>2

LEMMA ActedByFinish ==
  ASSUME [Next]_vars, acted' # acted
  PROVE  \E w \in Workers : Finish(w)
<1>1. Next
  BY DEF vars
<1> QED
  BY <1>1, Steps DEF Authorize, LoadTarget, Rotate, Revoke, UpdateCompany, CheckMember,
     InsertMember, UpdateMember, Refuse, LoadForRefresh, LoadForLogout, LogIn, Expire

LEMMA RolesInit == Init => RolesInv
<1> SUFFICES ASSUME Init PROVE RolesInv
  OBVIOUS
<1>1. PICK crew \in SUBSET Workers :
        worker = [w \in Workers |-> IF w \in crew THEN Idle ELSE Off]
  BY DEF Init
<1>2. Idle.pc # "authorized" /\ Off.pc # "authorized"
  BY DEF Idle, Off
<1> QED
  BY <1>1, <1>2 DEF Init, RolesInv

LEMMA RolesNext ==
  ASSUME Inv, RolesInv, [Next]_vars
  PROVE  RolesInv'
<1>1. ASSUME acted' # None PROVE Apart(acted'.role, acted'.route)
  <2>1. CASE acted' = acted
    BY <1>1, <2>1 DEF RolesInv
  <2>2. CASE acted' # acted
    <3>1. PICK w \in Workers : Finish(w)
      BY <2>2, ActedByFinish
    <3>2. /\ worker[w].route.commits
          /\ acted' = [role |-> worker[w].role, route |-> worker[w].route]
      BY <1>1, <3>1 DEF Finish
    <3>3. /\ worker[w].role \in RoleCode /\ worker[w].route \in Api
          /\ Admitted(worker[w].role, worker[w].route)
      BY <3>1 DEF Finish, Inv, QueryIn, RolesInv
    <3> QED
      BY <3>2, <3>3, AdmittedApart
  <2> QED
    BY <2>1, <2>2
<1>2. ASSUME NEW w \in Workers, worker'[w].pc = "authorized"
      PROVE  Admitted(worker'[w].role, worker'[w].route)
  BY <1>2, OnlyAuthorizeAdmits
<1> QED
  BY <1>1, <1>2 DEF RolesInv

\* Over every operation of the API (require_permission, require_any_permission and the other
\* dependencies of app/api with ROLE_PERMISSIONS): an auditor commits nothing in a register,
\* an accountant no decision, income tax is decided by auditors alone and users are managed
\* by administrators alone, the platform's own apart; the role is the one the request was
\* let in with.
THEOREM RolesAlwaysSeparated == Spec => []RolesSeparated
<1>1. RolesInv => RolesSeparated
  BY DEF RolesInv, RolesSeparated, Apart
<1> QED
  BY <1>1, InitInv, NextInv, RolesInit, RolesNext, PTL DEF Spec

=============================================================================
