------------------------------- MODULE Casework -------------------------------
(* The desks that share a company: audit engagements, income tax and imports. *)
(* A request belongs to one of them and leaves the rows of the others alone.  *)
EXTENDS AuditEngagements, TaxReturns, ImportJobs

CONSTANT Incomes  \* the incomes at which the tax schedule is checked

ASSUME ScheduleAssumption ==
  Incomes \subseteq Nat /\ \A k \in DOMAIN Rules : Ascending(Rules[k])

vars == <<deskVars, auditVars, taxVars, importVars>>

Init == DeskInit /\ AuditInit /\ TaxInit /\ ImportInit

GiveUp(w) == Abandon(w) /\ UNCHANGED <<auditVars, taxVars, importVars>>

Next ==
  \E w \in Workers :
    \/ AuditRequest(w) /\ UNCHANGED <<taxVars, importVars>>
    \/ TaxRequest(w) /\ UNCHANGED <<auditVars, importVars>>
    \/ ImportRequest(w) /\ UNCHANGED <<auditVars, taxVars>>
    \/ GiveUp(w)

Spec == Init /\ [][Next]_vars

-------------------------------------------------------------------------------
(* Whatever requests overlap, an engagement is signed off, closed or locked   *)
(* only with the lead auditor's sign-off on record, and a finding that waits  *)
(* for a review has a response to review; served one at a time, every status  *)
(* agrees with the times noted beside it and nothing is signed before it is   *)
(* approved (the gates of AuditEngagementService and AuditFindingService).    *)
AuditSound == AuditTypeOK /\ AuditSteps /\ (scene.serial => AuditDated)

(* The newest snapshot is what the row of its computation says: calculate     *)
(* writes both in one commit, and no other operation touches the figures.     *)
SnapshotsKept ==
  \A c \in Computations : comp[c] # None =>
    comp[c].fig = IF snap[c] = <<>> THEN [n \in FigureNames |-> 0] ELSE Last(snap[c])

(* How far, in paise, the derived column may be from what the other columns   *)
(* come to: it was computed before they were rounded, each by half a paisa at *)
(* most, and was rounded itself.                                              *)
Slack ==
  [salary |-> 3, house |-> 2, other |-> 1, gains |-> 2, deduction |-> 0, loss |-> 1, adjustment |-> 1,
   exempt |-> 0, credit |-> 0, advance |-> 0, self |-> 0]
Follows(row) ==
  row.derived - RoundMoney(Derive(row.head, Loaded(row.given))) \in (0 - Slack[row.head])..Slack[row.head]

(* One computation is active, it is not submitted before it was calculated,   *)
(* the derived column of a row follows from its other columns, and no loss is *)
(* set off beyond its amount.                                                 *)
SetOff(loss) == loss.setoff = 0 \/ loss.setoff \in 1..loss.amount
TaxOrderly ==
  /\ Cardinality(Active) <= 1
  /\ \A c \in Active : comp[c].status # "DRAFT" => snap[c] # <<>>
  /\ \A head \in Heads : \A e \in Rows(head) : Follows(entry[e])
  /\ \A e \in Rows("loss") : SetOff(entry[e].given)

Due(income, rules)  == TaxAfterRebate(income, rules) + Surcharge(income, rules)
Kept(income, rules) == income - Due(income, rules)
Fair(rules) ==
  \A income \in Incomes :
    /\ Due(income, rules) >= Due(income - 1, rules)
    /\ \A n \in DOMAIN rules.surcharges :
         LET threshold == rules.surcharges[n].threshold IN
         income > threshold => Kept(income, rules) >= Kept(threshold, rules)
FairSchedules == {k \in DOMAIN Rules : Fair(Rules[k])}

(* By the schedule that a computation of the company is calculated by, who    *)
(* earns more never pays less tax and surcharge, and nobody above a surcharge *)
(* threshold keeps less than at the threshold: what marginal relief is for    *)
(* (compute_surcharge and compute_marginal_relief).                           *)
ScheduleFair ==
  \A c \in Active :
    <<profile, comp[c].regime>> \in DOMAIN Rules => <<profile, comp[c].regime>> \in FairSchedules

(* What a computation and its snapshots say is what was calculated, whatever  *)
(* requests overlap; one at a time, the rows of the year agree.               *)
TaxSound == SnapshotsKept /\ (scene.serial => TaxOrderly)

(* Whatever commits overlap, no row of a kind with a unique index becomes two *)
(* records, and the lines of a journal that was made balance when the file    *)
(* has no fractions of a paisa, and otherwise to a paisa a line.              *)
Surplus(file, lines) == SumOver(LineDebits(file), lines) - SumOver(LineCredits(file), lines)
InPaise(file, lines) == \A i \in lines : file[i].debit % 10 = 0 /\ file[i].credit % 10 = 0
LinesAgree(file, lines) ==
  /\ Surplus(file, lines) \in (0 - Cardinality(lines))..Cardinality(lines)
  /\ InPaise(file, lines) => Surplus(file, lines) = 0
Posted(j, i) == Lines(job[j].file, job[j].rows, "COMMITTED", job[j].file[i].number)
RecordsOnce ==
  \A j \in Jobs : job[j] # None =>
    \A i \in DOMAIN job[j].file :
      /\ IndexKey(job[j].kind, job[j].file[i]) # None => made[j][i] <= 1
      /\ job[j].kind = "JOURNALS" => LinesAgree(job[j].file, Posted(j, i))

(* One at a time, records were made of the committed rows of a finished job   *)
(* and of nothing else, each once, and no two rows of a job that share a key  *)
(* were both made.                                                            *)
JobsOrderly ==
  \A j \in Jobs : job[j] # None =>
    \A i \in DOMAIN job[j].file :
      /\ made[j][i] <= 1
      /\ made[j][i] = 1 => job[j].rows[i] = "COMMITTED"
      /\ job[j].rows[i] = "COMMITTED" =>
           /\ job[j].status \in Finished
           /\ job[j].kind # "JOURNALS" => made[j][i] = 1
           /\ \A k \in 1..(i - 1) :
                LET key(n) == DuplicateKey(job[j].kind, job[j].file[n]) IN
                key(i) # None /\ job[j].rows[k] = "COMMITTED" => key(k) # key(i)

(* The commit of an import makes a record of a row at most once, of rows that *)
(* were staged as valid, in balanced journals (ImportService.commit: the only *)
(* place staged rows become real accounting records).                         *)
ImportsSound == RecordsOnce /\ (scene.serial => JobsOrderly)

-------------------------------------------------------------------------------
(* A decision once made stands while requests are served one at a time: a     *)
(* closed or cancelled engagement keeps its status, a closed finding is only  *)
(* reopened, the figures of an approved or locked computation do not change   *)
(* and nothing but the lock follows its approval, a preparation is approved   *)
(* only while there is nothing that blocks it and, once approved or locked,   *)
(* sent back by validate alone, a finished or cancelled import stays so; and  *)
(* a calculation, which reads the year one SELECT after another, writes what  *)
(* the rows say when it commits.  Snapshots are never changed, whatever       *)
(* overlaps.                                                                  *)
YearNow(c) ==
  LET k == RulesNow(c) IN Adding(CreditsNow, Adding(RestNow(k), Adding(IncomeNow, [rules |-> k])))
EngagementStands ==
  engagement # None =>
    /\ engagement.status \in {"CLOSED", "CANCELLED"} => engagement'.status = engagement.status
    /\ engagement.locked => engagement'.locked
FindingsStand ==
  \A f \in Findings : finding[f] # None /\ finding[f].status = "CLOSED" =>
    finding'[f].status \in {"CLOSED", "REOPENED"}
ComputationsStand ==
  \A c \in Computations : comp[c] # None =>
    /\ comp[c].status \in {"READY_FOR_REVIEW", "APPROVED", "LOCKED", "CANCELLED"} => comp'[c].fig = comp[c].fig
    /\ comp[c].status = "APPROVED" => comp'[c].status \in {"APPROVED", "LOCKED"}
    /\ comp[c].status \in {"LOCKED", "CANCELLED"} => comp'[c].status = comp[c].status
PreparationsStand ==
  \A c \in Computations : prep[c] # None =>
    /\ prep[c].status # "APPROVED" /\ prep'[c].status = "APPROVED" => hasBank
    /\ \/ prep[c].status \notin {"APPROVED", "LOCKED"}
       \/ prep'[c].status \in {prep[c].status, "LOCKED"}
       \/ \E w \in Workers : worker[w] # worker'[w] /\ worker[w].op = "validate" /\ worker[w].id = c
CalculationsCurrent ==
  \A c \in Computations : snap'[c] # snap[c] =>
    comp'[c].fig = Figures(YearNow(c)) /\ comp'[c].status = Outcome(YearNow(c))
ImportsStand ==
  \A j \in Jobs : job[j] # None /\ job[j].status \in Finished \cup {"CANCELLED"} => job'[j] = job[j]

DecisionsStand ==
  [][/\ \A c \in Computations : IsPrefix(snap[c], snap'[c])
     /\ scene.serial => /\ EngagementStands /\ FindingsStand /\ ComputationsStand /\ CalculationsCurrent
                        /\ PreparationsStand /\ ImportsStand]_vars

(* The docstring of JournalEntry: an unbalanced entry is never persisted in   *)
(* the first place.                                                           *)
JournalsBalance ==
  \A j \in Jobs : job[j] # None /\ job[j].kind = "JOURNALS" =>
    \A i \in DOMAIN job[j].file : Surplus(job[j].file, Posted(j, i)) = 0

(* The module of business_income_service.py calls its two sources, invoices   *)
(* and journals, non-overlapping: what it calculates counts every document    *)
(* once.                                                                      *)
IncomeCountedOnce ==
  [][\A c \in Computations : snap'[c] # snap[c] =>
       comp'[c].fig.business = CountedOnce(BooksNow, SumDerived("adjustment"))]_vars
================================================================================
