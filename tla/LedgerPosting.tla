--------------------------- MODULE LedgerPosting ---------------------------
(***************************************************************************)
(* LedgerService.postJournalEntry(): concurrent calls that validate a      *)
(* journal, open a READ COMMITTED transaction, take advisory locks, check  *)
(* balances and limits, read the tail of the hash chain, insert the lines, *)
(* commit, and then refresh the balance snapshots outside the transaction. *)
(*                                                                         *)
(* One step of a request is one database statement, so every interleaving  *)
(* the server's event loop and PostgreSQL allow between two statements is  *)
(* a behaviour of the model.                                               *)
(*                                                                         *)
(* Data.  Requested amounts are counted in half-units of the ledger's      *)
(* smallest unit (0.0001), the coarsest grid on which Decimal.toFixed(4)   *)
(* still rounds; persisted amounts, balances and limits are in whole       *)
(* units.  An entry's hash is its identity: the row <<r, i>> is line i of  *)
(* the journal of request r, and previousHash is the identity of the row   *)
(* it chains from.  All lines are in one currency.                         *)
(***************************************************************************)
EXTENDS Integers, Sequences, FiniteSets, FiniteSetsExt

CONSTANTS
  Request,        \* the calls of postJournalEntry()
  Account,        \* account ids; as numbers they are ordered as the UUIDs are
  LockKey,        \* uuidToLockKey(): account -> advisory lock key
  Journal,        \* the arguments of each request, see JournalType
  Type,           \* transaction (reference) types
  Limit,          \* active TransactionLimit rows: <<account, type>> -> caps
  OpeningRows,    \* ledger rows committed before the modelled calls
  OpeningBalance, \* the balance of each account over OpeningRows
  MaxRetries      \* withRetryTransaction's maxRetries

Genesis == <<"GENESIS", 0>>  \* stands for the genesis hash
NoCap   == -1                \* a NULL column of a TransactionLimit row
Window  == {"day", "month"}

EntryType   == {"DEBIT", "CREDIT"}
LineType    == [account : Account, entryType : EntryType, amount : Int]
JournalType == [lines  : Seq(LineType),                             \* dto.lines
                check  : SUBSET Account,                            \* options.checkBalanceOn
                limits : SUBSET [account : Account, amount : Int],  \* options.limitChecks
                type   : Type,                                      \* dto.referenceType
                inside : SUBSET Window]  \* the windows dto.effectiveDate falls into
CapType     == [maxPerTx : Int, maxPerDay : Int, maxPerMonth : Int]

RowId   == (Request \cup {"OPENING", "GENESIS"}) \X Nat
RowType == [id : RowId, account : Account, entryType : EntryType, amount : Int,
            type : Type, inside : SUBSET Window, prev : RowId, at : Int]

Signed(entryType, amount) == IF entryType = "DEBIT" THEN amount ELSE -amount

\* deriveBalance(): SUM of DEBIT - CREDIT over the rows of one account.
Delta(rows)      == [x \in rows |-> Signed(x.entryType, x.amount)]
SumRows(rows, a) == SumFunctionOnSet(Delta(rows), {x \in rows : x.account = a})

ASSUME AccountAssumption ==
  /\ Account \subseteq Nat
  /\ LockKey \in [Account -> Nat]
  \* the key is the first 15 hex digits of the UUID: order-preserving, not injective
  /\ \A a, b \in Account : a < b => LockKey[a] <= LockKey[b]

ASSUME JournalAssumption ==
  /\ Journal \in [Request -> JournalType]
  /\ \A r \in Request : Journal[r].lines # << >>
  /\ MaxRetries \in Nat \ {0}

\* The opening rows were posted by earlier calls: a primary key each, and
\* chained from one another.
ASSUME OpeningAssumption ==
  /\ OpeningRows \subseteq RowType
  /\ IsFiniteSet(OpeningRows)
  /\ OpeningBalance \in [Account -> Int]
  /\ \A x \in OpeningRows :
       /\ x.at <= 0
       /\ x.id[1] \notin Request /\ x.id # Genesis
       /\ \A y \in OpeningRows : x.id = y.id => x = y
       /\ x.prev = Genesis \/ \E y \in OpeningRows : y.id = x.prev /\ y.at < x.at

ASSUME OpeningSums ==
  /\ DOMAIN Limit \subseteq Account \X Type
  /\ \A k \in DOMAIN Limit : Limit[k] \in CapType
  /\ \A a \in Account : OpeningBalance[a] = SumRows(OpeningRows, a)

-----------------------------------------------------------------------------
(* Helpers over the arguments of a request.                                *)

Lines(r) == Journal[r].lines

\* Decimal.toFixed(4): round half up from half-units to whole units.
toFixed(h) == (h + 1) \div 2

\* lines.find((l) => l.accountId === a): the first line on the account.
FirstLine(r, a) ==
  CHOOSE i \in DOMAIN Lines(r) :
    /\ Lines(r)[i].account = a
    /\ \A j \in DOMAIN Lines(r) : Lines(r)[j].account = a => i <= j

Affected(r) == {Lines(r)[i].account : i \in DOMAIN Lines(r)}

\* checkBalanceOn accounts that have a line; the others are skipped.
BalanceChecks(r) == Journal[r].check \cap Affected(r)

\* Balance-checked and limit-checked accounts are all locked.
LockAccounts(r) == Journal[r].check \cup {c.account : c \in Journal[r].limits}

Total(r, entryType) ==
  SumFunctionOnSet([i \in DOMAIN Lines(r) |-> Lines(r)[i].amount],
                   {i \in DOMAIN Lines(r) : Lines(r)[i].entryType = entryType})

\* Every amount is positive and assertBalanced() holds on the unrounded amounts.
Valid(r) ==
  /\ \A i \in DOMAIN Lines(r) : Lines(r)[i].amount > 0
  /\ Total(r, "DEBIT") = Total(r, "CREDIT")

-----------------------------------------------------------------------------
VARIABLES
  pc,        \* the next statement of each request, or its outcome
  attempt,   \* the attempt of withRetryTransaction each request is in
  tx,        \* the state of each request's open transaction
  ledger,    \* the committed rows of ledger_entries
  bal,       \* deriveBalance() of each account over the committed rows
  snapTodo,  \* accounts whose snapshot the request has still to write
  snapRead,  \* the balance updateSnapshot() has read and not yet stored
  snapshot   \* the latest balance_snapshots row of each account

vars == <<pc, attempt, tx, ledger, bal, snapTodo, snapRead, snapshot>>

TxStates == {"lock", "check", "limit", "tail", "tailWait", "insert", "commit"}
Outcomes == {"done", "rejected", "error"}
States   == {"validate", "snapshot"} \cup TxStates \cup Outcomes

\* What a transaction holds: advisory locks (by account), the checks passed,
\* the previousHash in hand, the row locked FOR UPDATE, the next line to
\* insert, its own uncommitted rows and their effect on each balance.
TxType ==
  [locked : SUBSET Account, checked : SUBSET Account,
   limited : SUBSET [account : Account, amount : Int],
   prev : RowId, rowLock : RowId, next : Nat,
   pending : SUBSET RowType, delta : [Account -> Int]]

NoTx ==
  [locked |-> {}, checked |-> {}, limited |-> {},
   prev |-> Genesis, rowLock |-> Genesis, next |-> 1,
   pending |-> {}, delta |-> [a \in Account |-> 0]]

NoRead == <<>>

\* The order of the statements before the tail is read, given what the
\* transaction has done so far.
Phase(r, t) ==
  CASE LockAccounts(r) \ t.locked # {}        -> "lock"
    [] /\ LockAccounts(r) \ t.locked = {}
       /\ BalanceChecks(r) \ t.checked # {}   -> "check"
    [] /\ LockAccounts(r) \ t.locked = {}
       /\ BalanceChecks(r) \ t.checked = {}
       /\ Journal[r].limits \ t.limited # {}  -> "limit"
    [] OTHER                                  -> "tail"

Init ==
  /\ pc = [r \in Request |-> "validate"]
  /\ attempt = [r \in Request |-> 1]
  /\ tx = [r \in Request |-> NoTx]
  /\ ledger = OpeningRows
  /\ bal = OpeningBalance
  /\ snapTodo = [r \in Request |-> {}]
  /\ snapRead = [r \in Request |-> NoRead]
  /\ snapshot = OpeningBalance

Goto(r, s) == pc' = [pc EXCEPT ![r] = s]

\* Mutant: the rows of a rolled-back attempt survive into the next one.
EndTxKeepsRows(r) == tx' = [tx EXCEPT ![r] = [NoTx EXCEPT !.pending = tx[r].pending]]

\* COMMIT or ROLLBACK ends the transaction: its locks, progress and private
\* rows are gone, and so is the retry loop when the call leaves it.
EndTx(r)     == tx' = [tx EXCEPT ![r] = NoTx]
LeaveLoop(r) == EndTx(r) /\ attempt' = [attempt EXCEPT ![r] = 1]

SnapVars == <<snapTodo, snapRead, snapshot>>

-----------------------------------------------------------------------------
\* Mutant: assertBalanced() and the amount checks left out.
ValidateNothing(r) ==
  /\ pc[r] = "validate"
  /\ Goto(r, Phase(r, NoTx))
  /\ UNCHANGED <<attempt, tx, ledger, bal, SnapVars>>

Validate(r) ==
  /\ pc[r] = "validate"
  /\ Goto(r, IF Valid(r) THEN Phase(r, NoTx) ELSE "rejected")
  /\ UNCHANGED <<attempt, tx, ledger, bal, SnapVars>>

\* Mutant: no advisory lock is taken.
KeyFreeAlways(r, k) == TRUE

\* pg_advisory_xact_lock() returns when no other transaction holds the key.
KeyFree(r, k) ==
  \A q \in Request \ {r} : \A b \in tx[q].locked : LockKey[b] # k

\* Mutant: the accounts are locked in the order of the arguments.
AcquireAdvisoryLockUnsorted(r) ==
  /\ pc[r] = "lock"
  /\ \E a \in LockAccounts(r) \ tx[r].locked :
       /\ KeyFree(r, LockKey[a])
       /\ tx' = [tx EXCEPT ![r].locked = @ \cup {a}]
       /\ Goto(r, Phase(r, tx'[r]))
  /\ UNCHANGED <<attempt, ledger, bal, SnapVars>>

\* acquireAdvisoryLocks(): the accounts in ascending order, one statement each.
AcquireAdvisoryLock(r) ==
  /\ pc[r] = "lock"
  /\ \E a \in LockAccounts(r) \ tx[r].locked :
       /\ \A b \in LockAccounts(r) \ tx[r].locked : a <= b
       /\ KeyFree(r, LockKey[a])
       /\ tx' = [tx EXCEPT ![r].locked = @ \cup {a}]
       /\ Goto(r, Phase(r, tx'[r]))
  /\ UNCHANGED <<attempt, ledger, bal, SnapVars>>

\* Mutant: the cached balance snapshot is checked instead of the rows.
SufficientSnapshot(r, a) == 2 * snapshot[a] >= Lines(r)[FirstLine(r, a)].amount

\* The balance must cover the first line on the account, whatever its side.
Sufficient(r, a) == 2 * bal[a] >= Lines(r)[FirstLine(r, a)].amount

CheckBalance(r) ==
  /\ pc[r] = "check"
  /\ \E a \in BalanceChecks(r) \ tx[r].checked :
       \/ /\ Sufficient(r, a)
          /\ tx' = [tx EXCEPT ![r].checked = @ \cup {a}]
          /\ Goto(r, Phase(r, tx'[r]))
          /\ UNCHANGED attempt
       \/ /\ ~Sufficient(r, a)
          /\ LeaveLoop(r)
          /\ Goto(r, "rejected")
  /\ UNCHANGED <<ledger, bal, SnapVars>>

\* SUM(amount) over the account's rows of the type, effective in the window;
\* debits and credits count alike.
sumPostedAmount(rows, a, t, w) ==
  SumFunctionOnSet([x \in rows |-> x.amount],
                   {x \in rows : x.account = a /\ x.type = t /\ w \in x.inside})

\* Mutant: the caps are compared with the amount alone.
assertWithinLimitsPerTx(c, t) ==
  <<c.account, t>> \in DOMAIN Limit =>
    LET cap == Limit[<<c.account, t>>]
    IN  \A max \in {cap.maxPerTx, cap.maxPerDay, cap.maxPerMonth} :
          max = NoCap \/ c.amount <= max

assertWithinLimits(c, t) ==
  <<c.account, t>> \in DOMAIN Limit =>
    LET cap == Limit[<<c.account, t>>]
        Within(max, used) == max = NoCap \/ used + c.amount <= max
    IN  /\ Within(cap.maxPerTx, 0)
        /\ Within(cap.maxPerDay, sumPostedAmount(ledger, c.account, t, "day"))
        /\ Within(cap.maxPerMonth, sumPostedAmount(ledger, c.account, t, "month"))

CheckLimit(r) ==
  /\ pc[r] = "limit"
  /\ \E c \in Journal[r].limits \ tx[r].limited :
       \/ /\ assertWithinLimits(c, Journal[r].type)
          /\ tx' = [tx EXCEPT ![r].limited = @ \cup {c}]
          /\ Goto(r, Phase(r, tx'[r]))
          /\ UNCHANGED attempt
       \/ /\ ~assertWithinLimits(c, Journal[r].type)
          /\ LeaveLoop(r)
          /\ Goto(r, "rejected")
  /\ UNCHANGED <<ledger, bal, SnapVars>>

\* The row with the greatest (posted_at, id); the genesis hash when there is none.
Tails(rows) ==
  IF rows = {} THEN {Genesis}
  ELSE {x.id : x \in {z \in rows : \A y \in rows : y.at <= z.at}}

\* Committed or not, every row that exists.
AllRows == ledger \cup UNION {tx[q].pending : q \in Request}

\* Mutant: a dirty read of rows other transactions have not committed.
ReadTailUncommitted(r) ==
  /\ pc[r] = "tail"
  /\ \E id \in Tails(AllRows) : tx' = [tx EXCEPT ![r].prev = id]
  /\ Goto(r, "tailWait")
  /\ UNCHANGED <<attempt, ledger, bal, SnapVars>>

\* getLastPostedEntry(), the snapshot of the statement: only committed rows.
ReadTail(r) ==
  /\ pc[r] = "tail"
  /\ \E id \in Tails(ledger) : tx' = [tx EXCEPT ![r].prev = id]
  /\ Goto(r, "tailWait")
  /\ UNCHANGED <<attempt, ledger, bal, SnapVars>>

\* getLastPostedEntry(), FOR UPDATE: wait for the row lock.  The holder never
\* updates the row, so READ COMMITTED returns the row found by the snapshot
\* even when a newer one was committed during the wait.  No row, no lock.
LockTail(r) ==
  /\ pc[r] = "tailWait"
  /\ tx[r].prev # Genesis =>
       \A q \in Request \ {r} : tx[q].rowLock # tx[r].prev
  /\ tx' = [tx EXCEPT ![r].rowLock = tx[r].prev]
  /\ Goto(r, "insert")
  /\ UNCHANGED <<attempt, ledger, bal, SnapVars>>

\* The row insertEntry() stores for the next line.
NewRow(r, at) ==
  LET i == tx[r].next
      l == Lines(r)[i]
  IN  [id |-> <<r, i>>, account |-> l.account, entryType |-> l.entryType,
       amount |-> toFixed(l.amount), type |-> Journal[r].type,
       inside |-> Journal[r].inside, prev |-> tx[r].prev, at |-> at]

\* Mutant: insertEntry() on the pooled client instead of the transaction's.
InsertEntryOutsideTx(r) ==
  /\ pc[r] = "insert"
  /\ \E n \in {0} \cup {y.at : y \in AllRows} :
       LET x == NewRow(r, n + 1)
       IN  /\ \A y \in AllRows : y.at <= n
           /\ ledger' = ledger \cup {x}
           /\ bal' = [bal EXCEPT ![x.account] = @ + Signed(x.entryType, x.amount)]
           /\ tx' = [tx EXCEPT ![r].prev = x.id, ![r].next = @ + 1]
  /\ Goto(r, IF tx[r].next = Len(Lines(r)) THEN "commit" ELSE "insert")
  /\ UNCHANGED <<attempt, SnapVars>>

\* postedAt is the server's clock: later than that of every existing row.
InsertEntry(r) ==
  /\ pc[r] = "insert"
  /\ \E n \in {0} \cup {y.at : y \in AllRows} :
       LET x == NewRow(r, n + 1)
       IN  /\ \A y \in AllRows : y.at <= n
           /\ tx' = [tx EXCEPT ![r].pending = @ \cup {x},
                                ![r].delta[x.account] = @ + Signed(x.entryType, x.amount),
                                ![r].prev = x.id,
                                ![r].next = @ + 1]
  /\ Goto(r, IF tx[r].next = Len(Lines(r)) THEN "commit" ELSE "insert")
  /\ UNCHANGED <<attempt, ledger, bal, SnapVars>>

\* COMMIT makes the rows visible and releases every lock of the transaction.
Publish(r) ==
  /\ ledger' = ledger \cup tx[r].pending
  /\ bal' = [a \in Account |-> bal[a] + tx[r].delta[a]]
  /\ LeaveLoop(r)
  /\ UNCHANGED <<snapRead, snapshot>>

Commit(r) ==
  /\ pc[r] = "commit"
  /\ Publish(r)
  /\ Goto(r, "snapshot")
  /\ snapTodo' = [snapTodo EXCEPT ![r] = Affected(r)]

\* updateSnapshot() for each affected account, in the order of the lines:
\* derive the balance, then create the row.
DeriveSnapshot(r) ==
  /\ pc[r] = "snapshot"
  /\ snapRead[r] = NoRead
  /\ \E a \in snapTodo[r] :
       /\ \A b \in snapTodo[r] : FirstLine(r, a) <= FirstLine(r, b)
       /\ snapRead' = [snapRead EXCEPT ![r] = <<a, bal[a]>>]
  /\ UNCHANGED <<pc, attempt, tx, ledger, bal, snapTodo, snapshot>>

CreateSnapshot(r) ==
  /\ pc[r] = "snapshot"
  /\ snapRead[r] # NoRead
  /\ LET a == snapRead[r][1]
     IN  /\ snapshot' = [snapshot EXCEPT ![a] = snapRead[r][2]]
         /\ snapTodo' = [snapTodo EXCEPT ![r] = @ \ {a}]
         /\ Goto(r, IF snapTodo[r] \ {a} = {} THEN "done" ELSE "snapshot")
  /\ snapRead' = [snapRead EXCEPT ![r] = NoRead]
  /\ UNCHANGED <<attempt, tx, ledger, bal>>

-----------------------------------------------------------------------------
(* What the database and the network may do to a request.                  *)

\* Mutant: one attempt too many.
ConflictOnceMore(r) ==
  /\ pc[r] \in TxStates
  /\ attempt[r] <= MaxRetries
  /\ attempt' = [attempt EXCEPT ![r] = @ + 1]
  /\ EndTx(r)
  /\ Goto(r, Phase(r, NoTx))
  /\ UNCHANGED <<ledger, bal, SnapVars>>

\* A write conflict, deadlock or serialization error: rolled back, retried.
Conflict(r) ==
  /\ pc[r] \in TxStates
  /\ attempt[r] < MaxRetries
  /\ attempt' = [attempt EXCEPT ![r] = @ + 1]
  /\ EndTx(r)
  /\ Goto(r, Phase(r, NoTx))
  /\ UNCHANGED <<ledger, bal, SnapVars>>

\* Any other error, a timeout, a crash, or a conflict on the last attempt.
Fail(r) ==
  /\ pc[r] \in TxStates
  /\ LeaveLoop(r)
  /\ Goto(r, "error")
  /\ UNCHANGED <<ledger, bal, SnapVars>>

\* Mutant: a lost acknowledgement is taken for a conflict and retried.
CommitRetried(r) ==
  /\ pc[r] = "commit"
  /\ attempt[r] < MaxRetries
  /\ ledger' = ledger \cup tx[r].pending
  /\ bal' = [a \in Account |-> bal[a] + tx[r].delta[a]]
  /\ attempt' = [attempt EXCEPT ![r] = @ + 1]
  /\ EndTx(r)
  /\ Goto(r, Phase(r, NoTx))
  /\ UNCHANGED SnapVars

\* The COMMIT takes effect and its acknowledgement is lost: the caller sees
\* an error that is not retried.
CommitUnacknowledged(r) ==
  /\ pc[r] = "commit"
  /\ Publish(r)
  /\ Goto(r, "error")
  /\ UNCHANGED snapTodo

\* A snapshot statement fails (or the server dies) after the commit.
SnapshotFail(r) ==
  /\ pc[r] = "snapshot"
  /\ Goto(r, "error")
  /\ snapTodo' = [snapTodo EXCEPT ![r] = {}]
  /\ snapRead' = [snapRead EXCEPT ![r] = NoRead]
  /\ UNCHANGED <<attempt, tx, ledger, bal, snapshot>>

-----------------------------------------------------------------------------
Step(r) ==
  \/ Validate(r)
  \/ AcquireAdvisoryLock(r)
  \/ CheckBalance(r)
  \/ CheckLimit(r)
  \/ ReadTail(r)
  \/ LockTail(r)
  \/ InsertEntry(r)
  \/ Commit(r)
  \/ DeriveSnapshot(r)
  \/ CreateSnapshot(r)

Fault(r) == Conflict(r) \/ Fail(r) \/ CommitUnacknowledged(r) \/ SnapshotFail(r)

\* Every call has returned; keeps deadlock checking meaningful.
AllReturned ==
  /\ \A r \in Request : pc[r] \in Outcomes
  /\ UNCHANGED vars

Next == (\E r \in Request : Step(r) \/ Fault(r)) \/ AllReturned

Spec == Init /\ [][Next]_vars

\* Statements of an open connection are eventually executed, and PostgreSQL
\* grants a lock that stays available.
FairSpec == Spec /\ \A r \in Request : WF_vars(Step(r))

-----------------------------------------------------------------------------
(* Properties.                                                             *)

\* The states the requests, the ledger and the snapshots stay in; no call
\* starts more than MaxRetries attempts.
TypeOK ==
  /\ pc \in [Request -> States]
  /\ attempt \in [Request -> 1 .. MaxRetries]
  /\ tx \in [Request -> TxType]
  /\ ledger \subseteq RowType
  /\ bal \in [Account -> Int]
  /\ snapTodo \in [Request -> SUBSET Account]
  /\ snapRead \in [Request -> {NoRead} \cup (Account \X Int)]
  /\ snapshot \in [Account -> Int]

\* The accounts the balance check protects: every journal that credits the
\* account balance-checks it, a journal that balance-checks it has a single
\* line on it, and the account did not start overdrawn.
Touching(r, a) == {i \in DOMAIN Lines(r) : Lines(r)[i].account = a}
GuardedAccount ==
  {a \in Account :
     /\ OpeningBalance[a] >= 0
     /\ \A r \in Request :
          /\ a \in Journal[r].check => \A i, j \in Touching(r, a) : i = j
          /\ a \notin Journal[r].check =>
               \A i \in Touching(r, a) : Lines(r)[i].entryType = "DEBIT"}

\* No interleaving of balance-checked postings overdraws an account, although
\* the amount is rounded to the ledger's scale only after it was checked.
NoOverdraft == \A a \in GuardedAccount : bal[a] >= 0

\* A balance check is never stale: from the check to the end of the
\* transaction the balance still covers the checked line, whatever commits in
\* between, because only a holder of the account's lock can lower it.
CheckNeverStale ==
  \A r \in Request : \A a \in GuardedAccount \cap tx[r].checked : Sufficient(r, a)

\* The rows stay within the daily and the monthly cap of the pair.
WithinCaps(rows, k) ==
  \A c \in {<<"day", Limit[k].maxPerDay>>, <<"month", Limit[k].maxPerMonth>>} :
    c[2] = NoCap \/ sumPostedAmount(rows, k[1], k[2], c[1]) <= c[2]

\* <<account, type>> pairs within their caps at the start whose every journal
\* limit-checks the amount it persists, on one line, with an effective date
\* inside the windows.
LimitedPair ==
  {k \in DOMAIN Limit :
     /\ WithinCaps(OpeningRows, k)
     /\ \A r \in Request : \A i \in Touching(r, k[1]) :
          Journal[r].type = k[2] =>
            /\ Touching(r, k[1]) = {i}
            /\ Journal[r].inside = Window
            /\ [account |-> k[1], amount |-> toFixed(Lines(r)[i].amount)] \in Journal[r].limits}

\* Concurrent postings never push an account past its daily or monthly cap:
\* the total the check read is the total the commit adds to.
LimitNeverExceeded == \A k \in LimitedPair : WithinCaps(ledger, k)

RowsOf(r) == {x \in ledger : x.id[1] = r}
Posted(r) == RowsOf(r) # {}

\* "No partial journal entries can exist": a journal is in the ledger with
\* exactly one row per line, chained to one another in order, or not at all;
\* a caller told "posted" finds it there, a caller told "rejected" does not,
\* and a retried attempt leaves no row of the rolled-back one.
AllOrNothing ==
  \A r \in Request :
    /\ Posted(r) =>
         /\ {x.id[2] : x \in RowsOf(r)} = DOMAIN Lines(r)
         /\ Cardinality(RowsOf(r)) = Len(Lines(r))
         /\ \A x \in RowsOf(r) : x.id[2] > 1 => x.prev = <<r, x.id[2] - 1>>
    /\ pc[r] \in {"snapshot", "done"} => Posted(r)
    /\ pc[r] \in TxStates \cup {"validate", "rejected"} => ~Posted(r)

OnGrid(r) == \A i \in DOMAIN Lines(r) : Lines(r)[i].amount % 2 = 0

\* The books balance: the balance every check reads is the sum of the
\* committed rows, and a journal whose amounts are on the ledger's grid is
\* stored with equal debits and credits.
BooksBalance ==
  /\ \A a \in Account : bal[a] = SumRows(ledger, a)
  /\ \A r \in Request :
       OnGrid(r) => SumFunctionOnSet(Delta(ledger), RowsOf(r)) = 0

\* Every committed row chains from a row committed before it was inserted.
ChainLinksBack ==
  \A x \in ledger :
    x.prev = Genesis \/ \E y \in ledger : y.id = x.prev /\ y.at < x.at

\* Two journals chain from the same row only when no account lock orders
\* them: the advisory locks, not the FOR UPDATE, keep the chain linear.
ForkOnlyWithoutSharedLock ==
  \A x, y \in ledger \ OpeningRows :
    x.prev = y.prev /\ x.id[1] # y.id[1] =>
      {LockKey[a] : a \in LockAccounts(x.id[1])}
        \cap {LockKey[a] : a \in LockAccounts(y.id[1])} = {}

\* "Fetches the last entry's hash (FOR UPDATE - prevents race)": two rows
\* never chain from the same predecessor.
ChainIsLinear ==
  \A x, y \in ledger : x.prev = y.prev => x = y

\* "the dashboard is never more than one committed transaction behind actual
\* state": the latest snapshot of an account is its balance, or its balance
\* before one of the posted journals.
SnapshotAtMostOneBehind ==
  \A a \in Account :
    \/ snapshot[a] = bal[a]
    \/ \E r \in Request : Posted(r) /\ snapshot[a] = bal[a] - SumRows(RowsOf(r), a)

\* The ledger is append-only and grows by one whole journal at a time.
OneJournalPerCommit ==
  [][ /\ ledger \subseteq ledger'
      /\ \E r \in Request :
           {x.id : x \in ledger' \ ledger} = {r} \X DOMAIN Lines(r) ]_ledger

\* Every call returns, whatever the other calls hold: lock waits end.
EveryCallReturns == <>(\A r \in Request : pc[r] \in Outcomes)
=============================================================================
