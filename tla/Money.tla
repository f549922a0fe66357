-------------------------------- MODULE Money --------------------------------
(***************************************************************************)
(* Money as the platform keeps it.  A payload carries an amount with as    *)
(* many decimals as the caller likes; a MONEY column has two.  Payload     *)
(* amounts are counted in tenths of a paisa, the fewest digits with both   *)
(* sides of a half, and stored amounts in paise.                           *)
(***************************************************************************)
EXTENDS Integers

\* ROUND_HALF_UP: half a paisa goes away from zero.
RoundMoney(n) == IF n >= 0 THEN (n + 5) \div 10 ELSE -((5 - n) \div 10)

\* An amount with two decimals, as a payload carries it.
Exact(paise) == 10 * paise

=============================================================================
