-------------------------- MODULE MCLedgerPosting --------------------------
(***************************************************************************)
(* A small ledger: wallets 1 and 2, a platform account 3, and four         *)
(* concurrent calls.  "transfer" and "sweep" both spend from wallet 1,     *)
(* which can pay for one of them until "deposit" commits; then the daily   *)
(* cap on wallet 1 is what keeps the second one out.  Both lock accounts 1 *)
(* and 2, and "sweep" spends amounts finer than the ledger's scale.        *)
(* "skewed" is not balanced.  Accounts 2 and 3 collide on a lock key.      *)
(***************************************************************************)
EXTENDS LedgerRefinement, TLC

Line(a, t, h) == [account |-> a, entryType |-> t, amount |-> h]

MCRequest == {"transfer", "sweep", "deposit", "skewed"}
MCAccount == 1 .. 3
MCLockKey == (1 :> 1) @@ (2 :> 2) @@ (3 :> 2)
MCType    == {"P2P_TRANSFER", "DEPOSIT_BANK"}

MCJournal ==
  [r \in MCRequest |->
     CASE r = "transfer" ->
            [lines  |-> << Line(1, "CREDIT", 4), Line(2, "DEBIT", 4) >>,
             check  |-> {1},
             limits |-> {[account |-> 1, amount |-> 2], [account |-> 2, amount |-> 2]},
             type   |-> "P2P_TRANSFER", inside |-> Window]
       [] r = "sweep" ->
            [lines  |-> << Line(1, "CREDIT", 3), Line(2, "CREDIT", 1), Line(3, "DEBIT", 4) >>,
             check  |-> {1, 2}, limits |-> {[account |-> 1, amount |-> 2]},
             type   |-> "P2P_TRANSFER", inside |-> Window]
       [] r = "deposit" ->
            [lines  |-> << Line(1, "DEBIT", 2), Line(3, "CREDIT", 2) >>,
             check  |-> {}, limits |-> {},
             type   |-> "DEPOSIT_BANK", inside |-> Window]
       [] r = "skewed" ->
            [lines  |-> << Line(1, "DEBIT", 2), Line(3, "CREDIT", 4) >>,
             check  |-> {}, limits |-> {},
             type   |-> "DEPOSIT_BANK", inside |-> Window]]

MCLimit == (<<1, "P2P_TRANSFER">> :> [maxPerTx |-> 3, maxPerDay |-> 3, maxPerMonth |-> NoCap])

Opening(i, a, t, n) ==
  [id |-> <<"OPENING", i>>, account |-> a, entryType |-> t, amount |-> n,
   type |-> "DEPOSIT_BANK", inside |-> Window,
   prev |-> IF i = 1 THEN Genesis ELSE <<"OPENING", i - 1>>, at |-> i - 3]

MCOpeningRows    == {Opening(1, 1, "DEBIT", 3), Opening(2, 2, "DEBIT", 1), Opening(3, 3, "CREDIT", 4)}
MCOpeningBalance == (1 :> 3) @@ (2 :> 1) @@ (3 :> -4)
=============================================================================
