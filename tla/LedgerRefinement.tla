-------------------------- MODULE LedgerRefinement --------------------------
(***************************************************************************)
(* LedgerPosting implements AbstractLedger: the lock, check, insert and    *)
(* retry steps of a posting are invisible, and COMMIT is the instant at    *)
(* which its journal takes effect.                                         *)
(***************************************************************************)
EXTENDS LedgerPosting

\* The change a journal makes: the sum of its lines on the account, rounded.
LineDelta(r) ==
  [i \in DOMAIN Lines(r) |-> Signed(Lines(r)[i].entryType, toFixed(Lines(r)[i].amount))]
EffectOf     ==
  [r \in Request |-> [a \in Account |-> SumFunctionOnSet(LineDelta(r), Touching(r, a))]]

PostedRequests == {r \in Request : Posted(r)}
Answer         == [r \in Request |-> IF pc[r] \in Outcomes THEN pc[r] ELSE "none"]

Books == INSTANCE AbstractLedger WITH
  Acceptable <- {r \in Request : Valid(r)},
  Effect     <- EffectOf,
  Protected  <- GuardedAccount,
  posted     <- PostedRequests,
  balance    <- bal,
  answer     <- Answer

\* Every behaviour of the posting service is one of the abstract ledger:
\* whatever conflicts, retries, failures and lost acknowledgements happen, a
\* journal takes effect atomically, once, in full, and the answer is honest.
ImplementsAbstractLedger == Books!Spec
=============================================================================
