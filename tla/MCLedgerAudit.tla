--------------------------- MODULE MCLedgerAudit ---------------------------
(***************************************************************************)
(* A sale with a fee, its pay-out in the next period, and a backdated      *)
(* write-down against a contra-asset that also credits an expense.  The    *)
(* oldest period may be archived, and one row of the sale may be updated.  *)
(***************************************************************************)
EXTENDS LedgerAudit, TLC

MCAccountType ==
  ("cash" :> "ASSET") @@ ("merchant" :> "LIABILITY") @@ ("fees" :> "REVENUE") @@
  ("provision" :> "CONTRA_ASSET") @@ ("cost" :> "EXPENSE")

MCAccount == DOMAIN MCAccountType

Line(a, e, n) == [account |-> a, entryType |-> e, amount |-> n]

MCJournal ==
  ("sale" :> [effective |-> 1, ref |-> "ref1",
              lines |-> <<Line("cash", "DEBIT", 3), Line("merchant", "CREDIT", 2),
                          Line("fees", "CREDIT", 1)>>]) @@
  ("payout" :> [effective |-> 2, ref |-> "ref2",
                lines |-> <<Line("merchant", "DEBIT", 2), Line("cash", "CREDIT", 2)>>]) @@
  ("writedown" :> [effective |-> 1, ref |-> "ref3",
                   lines |-> <<Line("cost", "CREDIT", 1), Line("provision", "DEBIT", 1)>>])

MCPosting == DOMAIN MCJournal

MCCorrected == {<<"sale", 2>>}
=============================================================================
