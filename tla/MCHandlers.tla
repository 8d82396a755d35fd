----------------------------- MODULE MCHandlers -----------------------------
(* Two wallets and amounts around the thresholds and the rounding grid.    *)
(* The second wallet can pay One, not One + 1.                             *)
(* One is 200 instead of the code's 20000: the ledger keeps two decimals   *)
(* instead of four, so that the largest limits fit TLC's 32-bit integers.  *)
EXTENDS Handlers, TLC

CONSTANTS w1, w2

MCWallet  == {w1, w2}
MCClosable == {w1, w2}
MCOpening == (w1 :> 10100 * One @@ w2 :> One)

\* Nothing, an odd half-unit, two everyday amounts, the stamp-duty threshold
\* and an amount above most single-transaction limits.
MCAmount      == {0, 3, One + 1, 10 * One, 10000 * One, 1000001 * One}
MCOnGrid      == {One + 2, 10 * One}
MCSmallAmount == {0, 3, One, 2 * One + 5}
MCRate        == {<<1, 20>>, <<3, 2>>}
MCDays        == {0, 7}
MCPoints      == {99, 100}
=============================================================================
