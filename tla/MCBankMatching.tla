---------------------------- MODULE MCBankMatching ----------------------------
(* Instances of BankMatching for TLC.                                       *)
EXTENDS BankMatching, TLC

CONSTANTS w1, w2, t1, t2

TwoAndOne == [t \in Txns |-> IF t = t1 THEN 2 ELSE 1]

\* A receipt for the first transaction, and a journal entry in draft for it.
ReceiptAndDraft == <<[kind |-> "RECEIPT", amount |-> 2, posted |-> TRUE],
                     [kind |-> "JOURNAL_ENTRY", amount |-> 2, posted |-> FALSE]>>

Desk(first, second) == [w \in Workers |-> IF w = w1 THEN first ELSE second]

\* One worker does everything with two transactions, and matches parts of 1 by hand; while a
\* run of the engine is under way another worker matches, adjusts and reverses one of them.
Roomy == [operations |-> Desk(Operations, {}),
          txns |-> Txns, amounts |-> {1}, sources |-> 3, matches |-> 2, sessions |-> 2]
Narrow == [operations |-> Desk({"start", "run_matching"}, {"match", "reverse", "adjust"}),
           txns |-> {t1}, amounts |-> {1, 2}, sources |-> 3, matches |-> 2, sessions |-> 1]
=============================================================================
