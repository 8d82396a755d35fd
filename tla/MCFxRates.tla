----------------------------- MODULE MCFxRates -----------------------------
(***************************************************************************)
(* A dollar wallet, a second one (overdrawn) with a first entry at 1, and  *)
(* two runs of the job.  The opening rate is joined, in any order and at   *)
(* any time, by one for the first day, which has an end of its own, and    *)
(* one for the second.  A tick is a day, and a rate is fresh for a day.    *)
(***************************************************************************)
EXTENDS FxRates, TLC

MCCurrency == {"USD"}
MCIngest   == {"usd1", "usd2"}

MCDto ==
  ("usd1" :> [currency |-> "USD", rate |-> 5, validFrom |-> 1, validUntil |-> 2]) @@
  ("usd2" :> [currency |-> "USD", rate |-> 2, validFrom |-> 2, validUntil |-> Open])

MCOpeningRates ==
  {[id |-> "OPENING", currency |-> "USD", rate |-> 3,
    validFrom |-> 0, validUntil |-> Open, capturedAt |-> 0]}

MCPosition == {1, 2}

MCHolding ==
  (1 :> [currency |-> "USD", balance |-> 4, since |-> 0]) @@
  (2 :> [currency |-> "USD", balance |-> -1, since |-> 1])

Symmetry == Permutations(Run)
=============================================================================
