----------------------------- MODULE Reversals -----------------------------
(***************************************************************************)
(* ReversalsService: concurrent calls of reverseTransaction() (a mirror of *)
(* the original journal) and partialRefund() (a refund with a fee policy)  *)
(* against originals that are already posted.  A call looks for a reversal *)
(* with its idempotency key, builds its journal from the original entries, *)
(* and then, in one transaction that holds the advisory lock of the        *)
(* original, checks what was reversed before, posts, and records the       *)
(* reversal.  The journal is posted with the caller's transaction, so it   *)
(* commits with the record; the snapshots follow the commit.               *)
(*                                                                         *)
(* Persisted amounts are whole units of 0.0001; the client's amounts are   *)
(* half-units, the coarsest grid that toFixed(4) still rounds.             *)
(***************************************************************************)
EXTENDS Integers, Sequences, FiniteSets, FiniteSetsExt, Functions

CONSTANTS
  Request,   \* the calls
  Original,  \* transaction ids
  Account,
  Platform,  \* the Platform Operating Cash account, code 1050
  Entries,   \* the POSTED ledger entries of each original, empty when unknown
  Req,       \* the arguments of each call, see ReqType
  Key,       \* idempotency keys
  MaxRetries \* withRetryTransaction's maxRetries

EntryType == {"DEBIT", "CREDIT"}
LineType  == [account : Account, entryType : EntryType, amount : Int]
Policy    == {"PROPORTIONAL", "FULL", "NONE"}
ReqType   == [original : Original, key : Key, kind : {"full", "partial"},
              refund : Int, policy : Policy, fee : Nat]

ASSUME ReversalAssumption ==
  /\ Req \in [Request -> ReqType]
  /\ Entries \in [Original -> Seq(LineType)]
  /\ \A o \in Original : \A i \in DOMAIN Entries[o] : Entries[o][i].amount > 0
  /\ MaxRetries \in Nat \ {0}

-----------------------------------------------------------------------------
(* What the code computes from the original entries.                       *)

toFixed(h) == (h + 1) \div 2

\* deriveOriginalAmount(): the largest line off the platform's cash account.
Economic(o) ==
  LET off == {i \in DOMAIN Entries[o] : Entries[o][i].account # Platform}
  IN  IF off = {} THEN DOMAIN Entries[o] ELSE off
OriginalAmount ==
  [o \in Original |-> Max({0} \cup {Entries[o][i].amount : i \in Economic(o)})]

\* Every debit becomes a credit and vice versa.
Flip(t) == IF t = "DEBIT" THEN "CREDIT" ELSE "DEBIT"
MirrorLines(o) ==
  [i \in DOMAIN Entries[o] |-> [Entries[o][i] EXCEPT !.entryType = Flip(@)]]

\* The fee part of a refund in half-units; a proportional one is rounded half
\* up to a whole unit.  (The code divides first, to 20 digits: where that
\* quotient does not terminate an exact tie falls one unit lower.)
FeeRefund(q) ==
  CASE q.policy = "FULL" -> q.fee
    [] q.policy = "NONE" -> 0
    [] q.policy = "PROPORTIONAL" ->
         LET n == OriginalAmount[q.original]
         IN  IF n = 0 THEN 0 ELSE 2 * ((q.refund * q.fee + 2 * n) \div (4 * n))

Line(a, t, n) == [account |-> a, entryType |-> t, amount |-> n]

\* The two largest entries are taken for the wallet and the merchant.  The
\* query has no ORDER BY, so ties, and which CREDIT entry stands for the fee,
\* are the database's choice.
Largest(es, S) == {i \in S : \A j \in S : es[j].amount <= es[i].amount}

RefundLines(q) ==
  LET es == Entries[q.original]
      f  == FeeRefund(q)
      Fees(w) == {i \in DOMAIN es : es[i].entryType = "CREDIT" /\ es[i].account # es[w].account}
      Refund(w, m, fee) ==
        << Line(es[m].account, "DEBIT", toFixed(q.refund)) >> \o fee
        \o << Line(es[w].account, "CREDIT", toFixed(q.refund + f)) >>
      FeeLines(w) ==
        IF f > 0 /\ Len(es) > 2 /\ Fees(w) # {}
        THEN {<< Line(es[k].account, "DEBIT", toFixed(f)) >> : k \in Fees(w)}
        ELSE {<< >>}
      Journals(w) ==
        {Refund(w, m, fee) : m \in Largest(es, DOMAIN es \ {w}), fee \in FeeLines(w)}
  IN  UNION {Journals(w) : w \in Largest(es, DOMAIN es)}

\* The journals a call may try to post.
Plans ==
  [r \in Request |-> IF Req[r].kind = "full" THEN {MirrorLines(Req[r].original)}
                     ELSE RefundLines(Req[r])]

\* What postJournalEntry() validates: positive amounts, debits equal credits.
Amounts(lines) == [i \in DOMAIN lines |-> lines[i].amount]
Sum(lines, t) ==
  SumFunctionOnSet(Amounts(lines), {i \in DOMAIN lines : lines[i].entryType = t})
Valid(lines) ==
  /\ \A i \in DOMAIN lines : lines[i].amount > 0
  /\ Sum(lines, "DEBIT") = Sum(lines, "CREDIT")

\* The row of the reversals table a call creates.
RowOf ==
  [r \in Request |->
     LET q == Req[r]
         full == q.kind = "full"
     IN  [by |-> r, original |-> q.original, key |-> q.key,
          amount |-> IF full THEN OriginalAmount[q.original] ELSE toFixed(q.refund),
          policy |-> IF full THEN "FULL" ELSE q.policy,
          fee    |-> IF full THEN 0 ELSE toFixed(FeeRefund(q))]]

-----------------------------------------------------------------------------
VARIABLES
  pc,       \* the next statement of each call, or its outcome
  attempt,  \* the attempt of withRetryTransaction
  plan,     \* the journal each call has built
  holder,   \* who holds the advisory lock of each original
  rows,     \* the committed reversals
  journal,  \* the committed journal of each call, empty when there is none
  refunded  \* SUM(amount) over the committed reversals of each original

vars == <<pc, attempt, plan, holder, rows, journal, refunded>>

Nobody   == <<>>
TxStates == {"lock", "check", "limit", "post", "record", "commit"}
Outcomes == {"done", "replayed", "rejected", "error"}

Init ==
  /\ pc = [r \in Request |-> "find"]
  /\ attempt = [r \in Request |-> 1]
  /\ plan = [r \in Request |-> <<>>]
  /\ holder = [o \in Original |-> Nobody]
  /\ rows = {}
  /\ journal = [r \in Request |-> <<>>]
  /\ refunded = [o \in Original |-> 0]

Goto(r, s) == pc' = [pc EXCEPT ![r] = s]

\* The transaction ends: the advisory lock it holds, if any, is released.
ReleaseLock(r) ==
  holder' = [o \in Original |-> IF holder[o] = <<r>> THEN Nobody ELSE holder[o]]

\* The call is over: its local variables are gone.
Leave(r, s) ==
  /\ Goto(r, s)
  /\ attempt' = [attempt EXCEPT ![r] = 1]
  /\ plan' = [plan EXCEPT ![r] = <<>>]

\* Mutant: a lock that outlives the rolled-back transaction.
AbandonKeepsLock(r, s) == Leave(r, s) /\ UNCHANGED <<holder, rows, journal, refunded>>

\* The transaction is rolled back and its error goes to the caller.
Abandon(r, s) ==
  /\ Leave(r, s)
  /\ ReleaseLock(r)
  /\ UNCHANGED <<rows, journal, refunded>>

-----------------------------------------------------------------------------
\* A refund above the original, or of an original that does not have two
\* entries, is refused.
Acceptable(q) ==
  /\ Entries[q.original] # <<>>
  /\ q.kind = "partial" =>
       /\ q.refund <= 2 * OriginalAmount[q.original]
       /\ Len(Entries[q.original]) >= 2

\* Before the transaction: replay the reversal recorded under the key, or
\* build the journal.
FindExisting(r) ==
  LET q == Req[r] IN
  /\ pc[r] = "find"
  /\ \/ /\ \E x \in rows : x.original = q.original /\ x.key = q.key
        /\ Goto(r, "replayed") /\ UNCHANGED plan
     \/ /\ \A x \in rows : x.original # q.original \/ x.key # q.key
        /\ ~Acceptable(q)
        /\ Goto(r, "rejected") /\ UNCHANGED plan
     \/ /\ \A x \in rows : x.original # q.original \/ x.key # q.key
        /\ Acceptable(q)
        /\ \E p \in Plans[r] : plan' = [plan EXCEPT ![r] = p]
        /\ Goto(r, "lock")
  /\ UNCHANGED <<attempt, holder, rows, journal, refunded>>

\* Mutant: the transaction takes no lock.
AcquireNothing(r) ==
  /\ pc[r] = "lock"
  /\ Goto(r, "check")
  /\ UNCHANGED <<attempt, plan, holder, rows, journal, refunded>>

\* acquireAdvisoryLocks(tx, [originalTransactionId])
AcquireLock(r) ==
  /\ pc[r] = "lock"
  /\ holder[Req[r].original] = Nobody
  /\ holder' = [holder EXCEPT ![Req[r].original] = <<r>>]
  /\ Goto(r, "check")
  /\ UNCHANGED <<attempt, plan, rows, journal, refunded>>

\* Mutant: only an earlier full reversal blocks a full reversal.
BlockedByFull(r) ==
  \E x \in rows : /\ x.original = Req[r].original
                  /\ x.policy = "FULL" /\ x.amount = OriginalAmount[x.original]

\* assertNotAlreadyReversed() refuses after any reversal of the original,
\* assertNotFullyReversed() after one that looks like a full reversal.
Blocked(r) ==
  LET q == Req[r] IN
  \E x \in rows :
    /\ x.original = q.original
    /\ q.kind = "partial" => x.policy = "FULL" /\ x.amount = OriginalAmount[q.original]

CheckPrior(r) ==
  /\ pc[r] = "check"
  /\ \/ Blocked(r) /\ Abandon(r, "rejected")
     \/ /\ ~Blocked(r)
        /\ Goto(r, IF Req[r].kind = "full" THEN "post" ELSE "limit")
        /\ UNCHANGED <<attempt, plan, holder, rows, journal, refunded>>

\* assertCumulativeRefundLimit(): the unrounded amount on top of the sum of
\* the recorded ones.
Exceeds(r) ==
  2 * refunded[Req[r].original] + Req[r].refund > 2 * OriginalAmount[Req[r].original]

CheckLimit(r) ==
  /\ pc[r] = "limit"
  /\ \/ Exceeds(r) /\ Abandon(r, "rejected")
     \/ /\ ~Exceeds(r)
        /\ Goto(r, "post")
        /\ UNCHANGED <<attempt, plan, holder, rows, journal, refunded>>

\* postJournalEntry() with the caller's transaction: no balance check, rows
\* invisible until the commit.
Post(r) ==
  /\ pc[r] = "post"
  /\ \/ ~Valid(plan[r]) /\ Abandon(r, "rejected")
     \/ /\ Valid(plan[r])
        /\ Goto(r, "record")
        /\ UNCHANGED <<attempt, plan, holder, rows, journal, refunded>>

\* Mutant: no UNIQUE (original_transaction_id, idempotency_key).
TakenNever(r) == FALSE

\* UNIQUE (original_transaction_id, idempotency_key)
Taken(r) == \E x \in rows : x.original = Req[r].original /\ x.key = Req[r].key

\* reversal.create() and, for a full reversal, the update of the transaction's
\* status (no transaction row is ever created, so it changes nothing).  A
\* unique violation rolls back and is not retried.
CreateReversal(r) ==
  /\ pc[r] = "record"
  /\ \/ Taken(r) /\ Abandon(r, "error")
     \/ /\ ~Taken(r)
        /\ Goto(r, "commit")
        /\ UNCHANGED <<attempt, plan, holder, rows, journal, refunded>>

Publish(r, s) ==
  /\ rows' = rows \cup {RowOf[r]}
  /\ journal' = [journal EXCEPT ![r] = plan[r]]
  /\ refunded' = [refunded EXCEPT ![Req[r].original] = @ + RowOf[r].amount]
  /\ ReleaseLock(r)
  /\ Leave(r, s)

\* The commit, and the snapshots that follow it (see LedgerPosting).
Commit(r) == pc[r] = "commit" /\ Publish(r, "done")

\* Mutant: one attempt too many.
ConflictOnceMore(r) ==
  /\ pc[r] \in TxStates
  /\ attempt[r] <= MaxRetries
  /\ attempt' = [attempt EXCEPT ![r] = @ + 1]
  /\ ReleaseLock(r)
  /\ Goto(r, "lock")
  /\ UNCHANGED <<plan, rows, journal, refunded>>

\* A conflict, deadlock or serialization error rolls back and retries.
Conflict(r) ==
  /\ pc[r] \in TxStates
  /\ attempt[r] < MaxRetries
  /\ attempt' = [attempt EXCEPT ![r] = @ + 1]
  /\ ReleaseLock(r)
  /\ Goto(r, "lock")
  /\ UNCHANGED <<plan, rows, journal, refunded>>

\* Any other error or a crash before the commit.
Fail(r) == pc[r] \in TxStates /\ Abandon(r, "error")

\* The commit takes effect and the caller sees an error: a lost
\* acknowledgement, or a failed snapshot.
FailAfterCommit(r) == pc[r] = "commit" /\ Publish(r, "error")

-----------------------------------------------------------------------------
Step(r) ==
  \/ FindExisting(r)
  \/ AcquireLock(r)
  \/ CheckPrior(r)
  \/ CheckLimit(r)
  \/ Post(r)
  \/ CreateReversal(r)
  \/ Commit(r)

Fault(r) == Conflict(r) \/ Fail(r) \/ FailAfterCommit(r)

\* Every call has returned.
AllReturned == (\A r \in Request : pc[r] \in Outcomes) /\ UNCHANGED vars

Next == (\E r \in Request : Step(r) \/ Fault(r)) \/ AllReturned

Spec == Init /\ [][Next]_vars

\* Statements of an open connection are eventually executed, and a lock that
\* stays free is granted.
FairSpec == Spec /\ \A r \in Request : WF_vars(Step(r))

-----------------------------------------------------------------------------
(* Properties.                                                             *)

RowType == [by : Request, original : Original, key : Key, amount : Int,
            policy : Policy, fee : Int]

\* The states calls, locks and rows stay in; no call starts more than
\* MaxRetries transactions.
TypeOK ==
  /\ pc \in [Request -> {"find"} \cup TxStates \cup Outcomes]
  /\ attempt \in [Request -> 1 .. MaxRetries]
  /\ plan \in [Request -> Seq(LineType)]
  /\ holder \in [Original -> {Nobody} \cup {<<r>> : r \in Request}]
  /\ rows \subseteq RowType
  /\ journal \in [Request -> Seq(LineType)]
  /\ refunded \in [Original -> Int]

RowsOf(o) == {x \in rows : x.original = o}

\* "total refunded across all partial refunds must never exceed the original
\* transaction amount", however refunds and full reversals race and although
\* the guard adds an unrounded amount to rounded ones.
NeverOverRefunded ==
  \A o \in Original :
    /\ refunded[o] <= OriginalAmount[o]
    /\ refunded[o] = SumFunctionOnSet([x \in RowsOf(o) |-> x.amount], RowsOf(o))

LinesOn(lines, a, t) ==
  {i \in DOMAIN lines : lines[i].account = a /\ lines[i].entryType = t}

Effect(lines, a) ==
  SumFunctionOnSet(Amounts(lines), LinesOn(lines, a, "DEBIT"))
  - SumFunctionOnSet(Amounts(lines), LinesOn(lines, a, "CREDIT"))

ReversalsOf(o) == {r \in Request : Req[r].original = o /\ journal[r] # <<>>}

\* A full reversal stands alone: nothing is refunded before or after it, and
\* the original and its reversals leave every account as it was.
FullReversalStandsAlone ==
  \A o \in Original : \A r \in ReversalsOf(o) :
    Req[r].kind = "full" =>
      /\ ReversalsOf(o) = {r}
      /\ \A a \in Account : Effect(Entries[o], a) + Effect(journal[r], a) = 0

\* The reversals table and the ledger agree: every corrective journal has its
\* record and vice versa, and a key is spent at most once per original, also
\* when a call that was told "error" is repeated.
RecordMatchesJournal ==
  /\ {x.by : x \in rows} = {r \in Request : journal[r] # <<>>}
  /\ \A x, y \in rows : x.original = y.original /\ x.key = y.key => x = y
  /\ \A r \in Request : pc[r] = "done" => journal[r] # <<>>

\* Every call returns: no lock outlives the transaction that took it.
EveryCallReturns == <>(\A r \in Request : pc[r] \in Outcomes)

\* "They create new mirror entries that economically negate the original":
\* what a refund does to the wallet is opposite to what the original did.
RefundsNegateOriginal ==
  \A r \in Request : \A i \in DOMAIN Entries[Req[r].original] :
    LET o == Req[r].original
        w == Entries[o][i]
    IN  w.amount = OriginalAmount[o] /\ journal[r] # <<>> =>
          Effect(Entries[o], w.account) * Effect(journal[r], w.account) < 0
=============================================================================
