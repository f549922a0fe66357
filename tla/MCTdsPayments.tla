--------------------------- MODULE MCTdsPayments ---------------------------
(* Instances of TdsPayments for TLC.                                        *)
EXTENDS TdsPayments, TLC

CONSTANTS c1, c2, t1

\* Workers are interchangeable.
RequestSymmetry == Permutations(Workers)

\* One worker has two challans to allocate to a transaction of 2 paise (or 0, when it is
\* imported), amounts of 0.4 and 1 paise, stored as 0 and 1, and two reconciliation runs;
\* several race over one challan, amounts of 1 and 1.5 paise, stored as 1 and 2, a
\* transaction of 1 and one run.
TwoChallans == [challans |-> {c1, c2}, txns |-> {t1}, amounts |-> {4, 10}, tds |-> {2},
                runs |-> 2]
OneChallan == [challans |-> {c1}, txns |-> {t1}, amounts |-> {10, 15}, tds |-> {1}, runs |-> 1]
=============================================================================
