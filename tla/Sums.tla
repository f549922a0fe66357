-------------------------------- MODULE Sums --------------------------------
(* The sum of a column over a set of rows, func.sum in the code.             *)
EXTENDS Integers, FiniteSetsExt

SumOver(f, S) == MapThenSumSet(LAMBDA x : f[x], S)

=============================================================================
