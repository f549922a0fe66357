-------------------------- MODULE MCLedgerPosting --------------------------
(* Instances of LedgerPosting for TLC.                                      *)
EXTENDS LedgerPosting

CONSTANTS w1, inv1, inv2, v1, v2

\* w1 alone works on invoices of both kinds, w2 alone on two vouchers against one
\* invoice; together they race for one invoice and one credit note.
TwoDesks ==
    [w \in Workers |->
        {"CREDIT", inv1, v1}
          \cup (IF w = w1 THEN {"DEBIT", inv2} ELSE {"SETTLEMENT", "REFUND", v2})]

\* One sales and one purchase invoice.
BothKinds == [i \in Invoices |-> IF i = inv1 THEN "SALES" ELSE "PURCHASE"]

\* A rupee of 4 paise: 9 rounds down to 8, 6 up to 8 and 2 up to 4, so that
\* both signs of the round-off and two sheets with one grand total occur.
Sheet(b, t) == [taxable |-> b, tax |-> t]
ThreeSheets == {Sheet(8, 1), Sheet(5, 1), Sheet(2, 0)}
TwoSheets == {Sheet(8, 1), Sheet(5, 1)}
OneSheet == {Sheet(5, 1)}

\* An imported total the rupee does not divide, with a tax column below zero.
Imported == {Sheet(7, -2)}
NoSheets == {}
=============================================================================
