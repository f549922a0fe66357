----------------------------- MODULE AccessControl -----------------------------
(* Who may do what in one company: memberships, the check every guarded       *)
(* operation starts with, and the refresh tokens that keep a user signed in   *)
(* (app/services/user_service.py and auth_service.py, app/core/               *)
(* dependencies.py, app/api/users.py and auth.py).                            *)
(*                                                                            *)
(* A worker serves one request.  The check is one step, because everything it *)
(* reads but the membership row is fixed: is_active and                       *)
(* is_platform_super_admin of a user, and the permissions of a role, are      *)
(* written by no request.  Each later SELECT is a step of its own, and the    *)
(* commit writes the columns the request changed, by primary key.             *)
(*                                                                            *)
(* desk is the kind of request a behaviour is made of: "api" for any          *)
(* operation of the API, with the memberships at rest; "people" for the       *)
(* management of members; "sessions" for sign-in, refresh and sign-out.       *)
EXTENDS Naturals, FiniteSets, RolePermissions, ApiRoutes

CONSTANTS Users,       \* user accounts, all active
          SuperAdmins, \* those with is_platform_super_admin
          Founder,     \* the user initialize_new_company made the first admin
          Rows,        \* ids for membership rows: at most so many are created
          Tokens,      \* ids for refresh tokens: at most so many are issued
          Workers, None,
          Desks,       \* the kinds of request of a run,
          Crowded      \* and those of them at which several workers serve

MembershipStatus == {"ACTIVE", "INACTIVE", "INVITED"}

(* The rows of company_memberships and of refresh_tokens.                     *)
Membership   == [user : Users, role : RoleCode, status : MembershipStatus]
RefreshToken == [user : Users, session : Tokens, next : Tokens \cup {None},
                 state : {"live", "expired", "revoked"}]

ASSUME AccessAssumption ==
  /\ SuperAdmins \subseteq Users
  /\ Founder \in Users \ SuperAdmins
  /\ Desks \subseteq {"api", "people", "sessions"} /\ Crowded \subseteq Desks \ {"api"}
  /\ None \notin Users \cup Rows \cup Tokens \cup RoleCode \cup MembershipStatus
  /\ None \notin Membership /\ None \notin RefreshToken
  /\ IsFiniteSet(Rows) /\ IsFiniteSet(Tokens) /\ IsFiniteSet(Workers)

VARIABLES desk,          \* the kind of request of this behaviour
          member,        \* company_memberships: [user, role, status] by row, or None
          companyActive, \* companies.is_active
          token,         \* refresh_tokens: [user, session, state, next] by id, or None
          worker,        \* the request each worker is serving
          acted          \* "api": the operation committed, and in which role

vars == <<desk, member, companyActive, token, worker, acted>>

Idle == [pc |-> "idle", user |-> None, role |-> None, route |-> None, target |-> None,
         newRole |-> None, newStatus |-> None, row |-> None, seen |-> None, token |-> None]
Off  == [Idle EXCEPT !.pc = "off"]
Serial == Cardinality({w \in Workers : worker[w].pc # "off"}) = 1

-------------------------------------------------------------------------------
(* The check of a request.                                                    *)

ActiveRows(u) == {i \in Rows : member[i] # None /\ member[i].user = u
                                /\ member[i].status = "ACTIVE"}
MutantRowsOf(u) == {i \in Rows : member[i] # None}

(* get_for_user_in_company.                                                   *)
RowsOf(u) == {i \in Rows : member[i] # None /\ member[i].user = u}

(* The role in which u acts: the platform's, or the active membership's.      *)
ActingRole(u) ==
  IF u \in SuperAdmins THEN {"SUPER_ADMIN"} ELSE {member[i].role : i \in ActiveRows(u)}

(* get_current_membership: a platform administrator passes without a row;     *)
(* anyone else needs an active membership of an active company.               *)
CurrentMembership(u) == u \in SuperAdmins \/ (companyActive /\ ActiveRows(u) # {})

(* require_permission and require_any_permission, and the other doors.        *)
(* list_audit_logs makes its own check, which does not look at the company.   *)
Passes(u, role, r) ==
  \/ r.needs \in {Open, SignedIn}
  \/ u \in SuperAdmins
  \/ /\ CurrentMembership(u) \/ r.op = "list_audit_logs"
     /\ r.needs \cap RolePermissions[role] # {}
     /\ r.also \subseteq RolePermissions[role]

(* A request arrives and passes its check: it holds the role it was let in    *)
(* with until it ends, whatever happens to the membership meanwhile.          *)
Authorize(w, u, role, r) ==
  /\ worker[w].pc = "idle"
  /\ acted = None   \* bound: one operation is enough to judge what a role may do
  /\ role \in ActingRole(u) /\ Passes(u, role, r)
  /\ worker' = [worker EXCEPT ![w] =
                  [Idle EXCEPT !.pc = "authorized", !.user = u, !.role = role, !.route = r]]
  /\ UNCHANGED <<desk, member, companyActive, token, acted>>

(* The handler ran and its router commits; a handler that only reads ends     *)
(* without one.                                                               *)
Finish(w) ==
  /\ desk = "api" /\ worker[w].pc = "authorized"
  /\ acted' = IF worker[w].route.commits
              THEN [role |-> worker[w].role, route |-> worker[w].route] ELSE None
  /\ worker' = [worker EXCEPT ![w] = Idle]
  /\ UNCHANGED <<desk, member, companyActive, token>>

Refuse(w) ==
  /\ worker' = [worker EXCEPT ![w] = Idle]
  /\ UNCHANGED <<desk, member, companyActive, token, acted>>

-------------------------------------------------------------------------------
(* Members.                                                                   *)

ManagementRoutes == {r \in Api : r.router = "users" /\ r.commits}
                      \cup {r \in Api : r.op = "update_company"}

(* update_company: the flag is one of the fields an administrator may set.    *)
UpdateCompany(w) ==
  /\ worker[w].pc = "authorized" /\ worker[w].route.op = "update_company"
  /\ companyActive' \in BOOLEAN
  /\ worker' = [worker EXCEPT ![w] = Idle]
  /\ UNCHANGED <<desk, member, token, acted>>

(* The row of the target, None when there is none;  *)
(* scalar_one_or_none raises when there are several.                          *)
LoadTarget(w, u, role, status) ==
  LET q == worker[w] IN
  /\ q.pc = "authorized" /\ q.route.op # "update_company"
  /\ q.route.op = "create_company_user" => role # None /\ status = None
  /\ q.route.op = "deactivate_company_user" => role = None /\ status = "INACTIVE"
  /\ q.route.op = "update_company_user" /\ role # None /\ q.user \notin SuperAdmins =>
       "ROLE_ASSIGN" \in RolePermissions[q.role]
  /\ Cardinality(RowsOf(u)) <= 1
  /\ q.route.op # "create_company_user" => RowsOf(u) # {}
  /\ LET row == IF RowsOf(u) = {} THEN None ELSE CHOOSE i \in RowsOf(u) : TRUE
         seen == IF row = None THEN None ELSE member[row] IN
     worker' = [worker EXCEPT ![w] =
       [q EXCEPT !.pc = "loaded", !.target = u, !.newRole = role, !.newStatus = status,
                 !.row = row, !.seen = seen]]
  /\ UNCHANGED <<desk, member, companyActive, token, acted>>

(* Whether the change takes an administrator away, so that it must not be the *)
(* last one.                                                                  *)
TakesAway(q) ==
  /\ q.route.op # "create_company_user"
  /\ \/ q.newRole # None /\ q.newRole # q.seen.role
     \/ q.newStatus # None /\ q.newStatus # "ACTIVE"

ActiveAdmins == {i \in Rows : member[i] # None /\ member[i].role = "COMPANY_ADMIN"
                               /\ member[i].status = "ACTIVE"}

MutantEnsureNotLastAdmin(q) ==
  TakesAway(q) /\ q.newRole = None => Cardinality(ActiveAdmins) > 1

(* _ensure_not_last_admin.                                                    *)
EnsureNotLastAdmin(q) ==
  TakesAway(q) /\ q.seen.role = "COMPANY_ADMIN" => Cardinality(ActiveAdmins) > 1

(* The count and, for a re-admission, the check that the row is not active.   *)
CheckMember(w) ==
  LET q == worker[w] IN
  /\ q.pc = "loaded"
  /\ EnsureNotLastAdmin(q)
  /\ q.route.op = "create_company_user" /\ q.row # None => q.seen.status # "ACTIVE"
  /\ worker' = [worker EXCEPT ![w].pc = "checked"]
  /\ UNCHANGED <<desk, member, companyActive, token, acted>>

(* The unique index on (user, company) where the status is ACTIVE.            *)
OneActiveRow(rows) ==
  \A i, j \in Rows : rows[i] # None /\ rows[j] # None /\ rows[i].user = rows[j].user
                       /\ rows[i].status = "ACTIVE" /\ rows[j].status = "ACTIVE" => i = j

(* The columns the request changed, written over the row as it is now.        *)
Written(q) ==
  [user |-> q.target,
   role |-> IF q.newRole # None /\ q.newRole # q.seen.role
            THEN q.newRole ELSE member[q.row].role,
   status |-> LET wanted == IF q.route.op = "create_company_user" THEN "ACTIVE"
                            ELSE q.newStatus IN
              IF wanted # None /\ wanted # q.seen.status THEN wanted ELSE member[q.row].status]

(* create_company_user of someone without a row: the INSERT, refused by the   *)
(* index when another request made the user an active member meanwhile.       *)
InsertMember(w) ==
  LET q == worker[w] IN
  /\ q.pc = "checked" /\ q.row = None
  /\ \E i \in Rows :
       /\ member[i] = None
       /\ member' = [member EXCEPT ![i] =
                       [user |-> q.target, role |-> q.newRole, status |-> "ACTIVE"]]
  /\ OneActiveRow(member')
  /\ worker' = [worker EXCEPT ![w] = Idle]
  /\ UNCHANGED <<desk, companyActive, token, acted>>

(* The UPDATE of create_company_user (a re-admission), update_company_user    *)
(* and deactivate_company_user.                                               *)
UpdateMember(w) ==
  LET q == worker[w] IN
  /\ q.pc = "checked" /\ q.row # None
  /\ member' = [member EXCEPT ![q.row] = Written(q)]
  /\ OneActiveRow(member')
  /\ worker' = [worker EXCEPT ![w] = Idle]
  /\ UNCHANGED <<desk, companyActive, token, acted>>

-------------------------------------------------------------------------------
(* Sessions.                                                                  *)

Free == {t \in Tokens : token[t] = None}

Issued(u, session) == [user |-> u, session |-> session, state |-> "live", next |-> None]

(* login: a new session, named after its first token.                         *)
LogIn(u) ==
  /\ desk = "sessions"
  /\ \E t \in Free : token' = [token EXCEPT ![t] = Issued(u, t)]
  /\ UNCHANGED <<desk, member, companyActive, worker, acted>>

MutantIsActive(t) == TRUE

(* RefreshToken.is_active: neither revoked nor past its expiry.               *)
IsActive(t) == token[t].state = "live"

(* refresh: the SELECT and the check.                                         *)
LoadForRefresh(w, t) ==
  /\ desk = "sessions" /\ worker[w].pc = "idle"
  /\ token[t] # None /\ IsActive(t)
  /\ worker' = [worker EXCEPT ![w] = [Idle EXCEPT !.pc = "refreshing", !.token = t]]
  /\ UNCHANGED <<desk, member, companyActive, token, acted>>

(* refresh: the presented token is revoked and replaced by a new one.         *)
Rotate(w) ==
  LET t == worker[w].token IN
  /\ worker[w].pc = "refreshing"
  /\ \E n \in Free :
       token' = [token EXCEPT ![t].state = "revoked", ![t].next = n,
                              ![n] = Issued(token[t].user, token[t].session)]
  /\ worker' = [worker EXCEPT ![w] = Idle]
  /\ UNCHANGED <<desk, member, companyActive, acted>>

(* logout: a token of the caller, whatever its state; it is revoked unless it *)
(* was seen revoked.                                                          *)
LoadForLogout(w, t) ==
  /\ desk = "sessions" /\ worker[w].pc = "idle"
  /\ token[t] # None /\ token[t].state # "revoked"
  /\ worker' = [worker EXCEPT ![w] = [Idle EXCEPT !.pc = "leaving", !.token = t]]
  /\ UNCHANGED <<desk, member, companyActive, token, acted>>

Revoke(w) ==
  /\ worker[w].pc = "leaving"
  /\ token' = [token EXCEPT ![worker[w].token].state = "revoked"]
  /\ worker' = [worker EXCEPT ![w] = Idle]
  /\ UNCHANGED <<desk, member, companyActive, acted>>

(* The clock passes expires_at.                                               *)
Expire(t) ==
  /\ token[t] # None /\ token[t].state = "live"
  /\ token' = [token EXCEPT ![t].state = "expired"]
  /\ UNCHANGED <<desk, member, companyActive, worker, acted>>

-------------------------------------------------------------------------------
(* The company as initialize_new_company leaves it: its creator is the active *)
(* administrator.  With the desk "api" one user has each possible role.       *)
Init ==
  /\ desk \in Desks
  /\ \E role \in RoleCode, first \in Rows :
       /\ desk # "api" => role = "COMPANY_ADMIN"
       /\ member = [i \in Rows |-> IF i = first
                      THEN [user |-> Founder, role |-> role, status |-> "ACTIVE"] ELSE None]
  /\ companyActive = TRUE
  /\ token = [t \in Tokens |-> None]
  /\ \E crew \in SUBSET Workers \ {{}} :
       /\ desk \in Crowded \/ Cardinality(crew) = 1
       /\ worker = [w \in Workers |-> IF w \in crew THEN Idle ELSE Off]
  /\ acted = None

Next ==
  \/ \E w \in Workers, u \in Users, role \in RoleCode :
       \E r \in (CASE desk = "api" -> Api [] desk = "people" -> ManagementRoutes
                   [] OTHER -> {}) : Authorize(w, u, role, r)
  \/ \E w \in Workers, u \in Users, role \in RoleCode \cup {None},
        status \in MembershipStatus \cup {None} :
       desk = "people" /\ LoadTarget(w, u, role, status)
  \/ \E w \in Workers :
       \/ Finish(w) \/ Rotate(w) \/ Revoke(w)
       \/ desk = "people" /\ (UpdateCompany(w) \/ CheckMember(w) \/ InsertMember(w)
                                \/ UpdateMember(w))
       \/ worker[w].pc \notin {"idle", "off"} /\ Refuse(w)
       \/ \E t \in Tokens : LoadForRefresh(w, t) \/ LoadForLogout(w, t)
  \/ \E u \in Users : LogIn(u)
  \/ \E t \in Tokens : Expire(t)

Spec == Init /\ [][Next]_vars

-------------------------------------------------------------------------------
(* Types: the rows the tables can hold, and requests that only carry what     *)
(* their step has loaded.                                                     *)
TypeOK ==
  /\ desk \in Desks /\ companyActive \in BOOLEAN
  /\ member \in [Rows -> {None} \cup Membership]
  /\ token \in [Tokens -> {None} \cup RefreshToken]
  /\ \A w \in Workers :
       /\ worker[w].pc \in {"idle", "off", "authorized", "loaded", "checked",
                            "refreshing", "leaving"}
       /\ worker[w].pc \in {"authorized", "loaded", "checked"} =>
            worker[w].role \in RoleCode /\ worker[w].route \in Api
       /\ worker[w].row # None => worker[w].seen.user = worker[w].target
  /\ acted = None \/ (acted.role \in RoleCode /\ acted.route \in Api)

(* Rows and requests are well formed and, with requests served one at a time, *)
(* a company never loses its last active administrator, whatever sequence of  *)
(* admissions, role changes and deactivations it goes through, and no user    *)
(* comes to have two membership rows (with two, get_for_user_in_company       *)
(* raises from then on and the user can be managed no more).  Two concurrent  *)
(* requests can break both halves.                                            *)
RosterSound ==
  /\ TypeOK
  /\ desk = "people" /\ Serial =>
       /\ ActiveAdmins # {}
       /\ \A u \in Users : Cardinality(RowsOf(u)) <= 1

(* What one role prepares another decides, over every operation of the API:   *)
(* an auditor commits nothing in the books, the registers of GST, TDS and     *)
(* income tax or the bank's; an accountant commits no approval, finalization, *)
(* verification or lock; a computation or preparation of income tax is        *)
(* approved and locked by an auditor and never by who prepares it; and only   *)
(* administrators manage users.                                               *)
Registers == {"accounting_periods", "bank_accounts", "bank_matches", "bank_statements",
              "bank_transactions", "credit_notes", "customers", "debit_notes", "deductees",
              "financial_years", "gst_profile", "gst_reconciliation", "gst_return_periods",
              "gst_tax_rates", "imports", "income_tax_capital_gains", "income_tax_deductions",
              "income_tax_income", "income_tax_losses", "income_tax_payments",
              "income_tax_profile", "journal_entries", "ledgers", "opening_balances",
              "payments", "products", "purchase_invoices", "receipts", "sales_invoices",
              "tally", "tds_challans", "tds_profile", "tds_reconciliation",
              "tds_return_periods", "tds_rules", "tds_transactions", "vendors"}

IncomeTaxDecisions == {"approve_computation", "lock_computation", "approve_preparation",
                       "lock_preparation"}
Decisions == IncomeTaxDecisions \cup
  {"approve_engagement", "mark_signed_off", "close_engagement", "lock_engagement",
   "approve_reconciliation", "reject_reconciliation", "lock_reconciliation",
   "approve_return_snapshot", "request_changes", "finalize_return_snapshot",
   "approve_or_reject_itc", "verify_task", "lock_task", "approve_obligation",
   "reject_obligation", "reopen_obligation", "close_finding"}

RolesSeparated ==
  acted # None =>
    /\ acted.role = "AUDITOR" => acted.route.router \notin Registers
    /\ acted.role = "ACCOUNTANT" => acted.route.op \notin Decisions
    /\ acted.route.op \in IncomeTaxDecisions => acted.role \in {"AUDITOR", "SUPER_ADMIN"}
    /\ acted.route.router = "users" => acted.role \in {"COMPANY_ADMIN", "SUPER_ADMIN"}

(* Refresh tokens, with requests served one at a time: rotation leaves a      *)
(* session at most one live token, and a session whose tokens have all been   *)
(* revoked is never alive again.  Two refreshes of one token, or a refresh    *)
(* racing a logout, can break it: the check reads a row nobody has locked.    *)
LiveTokens(s) == {t \in Tokens : token[t] # None /\ token[t].session = s
                                   /\ token[t].state = "live"}
SignedOut(s)  == \A t \in Tokens : token[t] # None /\ token[t].session = s =>
                                    token[t].state = "revoked"

SessionsSound ==
  [][desk = "sessions" /\ Serial =>
       \A s \in Tokens : token[s] # None =>
         /\ Cardinality(LiveTokens(s)') <= 1
         /\ SignedOut(s) => LiveTokens(s)' = {}]_vars

(* The message of _ensure_not_last_admin: "Cannot remove or demote the last   *)
(* active Company Admin for this company".  No run checks it: two overlapping *)
(* requests violate it as soon as "people" is Crowded.                        *)
LastAdminStays == desk = "people" => ActiveAdmins # {}
===============================================================================
