------------------------- MODULE MCReturnSnapshots -------------------------
(* Instances of ReturnSnapshots for TLC.                                    *)
EXTENDS ReturnSnapshots, TLC

GstReturns == {"GSTR1", "GSTR3B"}
TdsForms == {"FORM_24Q", "FORM_26Q"}

\* Requests are interchangeable.
RequestSymmetry == Permutations(Workers)

TwoVersions == [versions |-> 2, documents |-> 1]
ThreeVersions == [versions |-> 3, documents |-> 0]
OneVersion == [versions |-> 1, documents |-> 0]
=============================================================================
