----------------------------- MODULE MCCompliance -----------------------------
(* The scenes of the compliance desk.  Each keeps one question small: all     *)
(* operations on one task or one obligation, served one at a time and against *)
(* the scheduler; two sweeps at once; a deletion in the middle of a sweep;    *)
(* two creations for one key, at once and in order; a task made from an       *)
(* obligation; an obligation whose name is too long for a notice, beside a    *)
(* task; and every area of the readiness checks with each of its answers      *)
(* turned.                                                                    *)
EXTENDS Compliance

CONSTANTS w1, w2, t1, t2, o1, o2

(* Books without a fault, and those in which one answer is the other way.     *)
Good  == [f \in Facts |-> f \notin {"draftSales", "draftPurchases", "unallocatedTds",
                                     "openFindings", "unmatched"}]
Turned == {[Good EXCEPT ![f] = ~@] : f \in Facts}
Draft  == [Good EXCEPT !["draftSales"] = TRUE]

Plain(module, category) == [module |-> module, category |-> category, gstr3b |-> FALSE, hasYear |-> TRUE]
NatureOf ==
  [k \in Keys |->
     IF k = "gstr3b" THEN [Plain("GST", "GST") EXCEPT !.gstr3b = TRUE]
     ELSE IF k = "tds" THEN Plain("GENERAL", "TDS")
     ELSE IF k = "itr" THEN Plain("INCOME_TAX", "OTHER")
     ELSE IF k = "itr_draft" THEN [Plain("INCOME_TAX", "INCOME_TAX") EXCEPT !.hasYear = FALSE]
     ELSE IF k = "audit" THEN Plain("AUDIT", "AUDIT")
     ELSE IF k = "bank" THEN Plain("BANK_RECONCILIATION", "BANK")
     ELSE IF k = "close" THEN Plain("ACCOUNTING", "GENERAL")
     ELSE Plain("GENERAL", "OTHER")]

TaskOps == TransitionOps \cup {"create", "update", "delete", "assign"}

Scene(serial, crew, ids, ops, obligationOps, keys, allBooks) ==
  [serial |-> serial, crew |-> crew, ids |-> ids, ops |-> ops, obligationOps |-> obligationOps,
   keys |-> keys, books |-> allBooks, names |-> {FALSE}, columns |-> Columns,
   restarts |-> IF "delete" \in ops THEN 1 ELSE 0]

OneTask   == Scene(TRUE, {w1}, {t1}, TaskOps \cup {"sweep_tasks", "mark_read", "mark_all_read"}, {}, {}, {Good})
TaskRace  == Scene(FALSE, {w1}, {t1}, TaskOps \ {"delete"}, {}, {}, {Good})
ManyTasks == Scene(TRUE, {w1}, {t1, t2}, {"create", "start", "sweep_tasks"}, {}, {}, {Good})
TwoSweeps == Scene(FALSE, {w1, w2}, {t1}, {"create", "start", "sweep_tasks", "mark_read"}, {}, {}, {Good})
Deletion  == Scene(FALSE, {w1}, {t1, t2}, {"create", "delete"}, {}, {}, {Good})
OneObligation ==
  Scene(TRUE, {w1}, {o1}, {}, Moves \cup Evaluated \cup {"create", "generate", "update", "assign", "sweep_obligations"},
        {"close"}, {Good, Draft})
ObligationRace ==
  Scene(FALSE, {w1}, {o1}, {}, Moves \cup Evaluated \cup {"generate", "assign", "sweep_obligations"}, {"close"}, {Good, Draft})
TwoWriters ==
  Scene(FALSE, {w1, w2}, {o1}, {}, {"generate", "complete", "reopen"}, {"other"}, {Good})
TwoKeys ==
  Scene(FALSE, {w1, w2}, {o1, o2}, {}, {"create", "generate"}, {"gstr3b", "other"}, {Good})
OpenKeyInOrder ==
  Scene(TRUE, {w1}, {o1, o2}, {}, {"create", "generate"}, {"other"}, {Good})
FromObligation ==
  Scene(FALSE, {w1}, {o1, t1}, {"complete"}, {"create", "generate_task", "complete"}, {"other"}, {Good})
EveryCheck ==
  Scene(TRUE, {w1}, {o1}, {}, {"generate", "submit_review"}, Keys, {Good} \cup Turned)
LongName ==
  [Scene(FALSE, {w1}, {o1}, {}, {"create", "generate", "assign", "update"}, {"other"}, {Good})
     EXCEPT !.names = BOOLEAN, !.columns = {"name", "assignee"}]
InTheWayOfTasks ==
  [Scene(FALSE, {w1}, {o1, t1}, {"create"}, {"generate", "update"}, {"other"}, {Good})
     EXCEPT !.names = {TRUE}, !.columns = {"assignee"}]

AllScenes == {OneTask, ManyTasks, TaskRace, TwoSweeps, Deletion, OneObligation, ObligationRace, TwoWriters, TwoKeys,
              OpenKeyInOrder, FromObligation, EveryCheck, LongName, InTheWayOfTasks}
================================================================================
