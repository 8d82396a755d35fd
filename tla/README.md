# A TLA+ model of the double-entry ledger

The repository is a NestJS / Prisma / PostgreSQL service that posts double-entry
journals: clients send transactions of 22 types, each becomes a balanced journal
in an append-only, hash-chained `ledger_entries` table, and balances are always
derived from the rows. Paths below are relative to the application's `src/`.

## 1. Inventory

| Component | State it keeps | Operations | What makes it correct |
|---|---|---|---|
| `ledger/` posting: `LedgerService`, `BalanceService`, `TransactionLimitService`, `LedgerRepository` | ledger rows with their hash links; balance snapshots | `postJournalEntry()`: validate, lock, check balances and limits, read the chain's tail, insert, commit, refresh snapshots | no overdraft, no exceeded cap, no partial journal, rows balance, one chain |
| `database/` `DatabaseService` | open transactions, advisory locks | `withRetryTransaction`, `withSerializableTransaction`, `acquireAdvisoryLocks` | locks end with their transaction, no deadlock, bounded retries |
| `transactions/` `TransactionsService`, `IdempotencyService` | idempotency keys: PROCESSING, COMPLETED, FAILED | `process()`: reserve, replay or execute, record the outcome | one intent per key, honest replays, at most one journal per key |
| `transactions/handlers/` 22 handlers | none: a handler is a function from payload to journal, checks and limits | `execute()` | what is checked is what is booked; nothing is lost in the balancing leg |
| `reversals/` `ReversalsService` | reversal records | `reverseTransaction()`, `partialRefund()` | never refund more than the original; record and journal agree |
| `accounts/` | chart of accounts, account status | create, queries, `deactivate()` | a deactivated wallet is not spent from |
| `ledger/hash-chain.service.ts`, `audit/` | none | compute and verify hashes, anomaly queries | a chain the service wrote verifies |
| `fx/` rates and revaluation | rate snapshots with validity windows | create a rate, find the current one, convert, revalue | one current rate per pair; a run books a gain once |
| `database/triggers/`, `scripts/manage-partitions.ts` | monthly partitions, attached or detached | refuse updates and deletes of posted rows; archive a partition | rows are immutable; archiving loses none |
| `reporting/` | none | trial balance, balance sheet, income statement, statements, reconciliation | agree with the rows |
| guards, filters, config, health, scripts | none | request plumbing | - |

The components interact by calls in one process and through the database.
`TransactionsController` calls `process()`, which reserves a key in one
transaction, resolves the accounts, and calls a handler; the handler calls
`postJournalEntry()`, which runs a second transaction and then writes snapshots
outside it; the key is settled by a third statement. `ReversalsService` opens
its own transaction and passes it to `postJournalEntry()`.

Hard behaviours: every `await` is a point where other requests run; the
transactions are READ COMMITTED, so only advisory locks and row locks order
them; a conflict rolls back and retries; a statement, the server, or the answer
to a COMMIT can be lost at any point; amounts are checked before they are
rounded to the ledger's four decimals; and each handler computes the journal, the
accounts to check and the amount to meter in three separate methods. The
`hazards` of `PROJECT.json` list each with its line and its properties.

## 2. Modules

| Module | Models | Granularity |
|---|---|---|
| `LedgerPosting` | concurrent `postJournalEntry()` calls | one action per SQL statement |
| `Idempotency` | concurrent `process()` calls with keys | one action per statement; posting is one step |
| `Reversals` | concurrent reversals and refunds | one action per statement |
| `Handlers` | what the 22 handlers book, check and meter, and `deactivate()` | one action per handler; posting is one step |
| `AbstractLedger` | what `postJournalEntry()` promises | one action per journal or answer |
| `LedgerRefinement` | the mapping from `LedgerPosting` to `AbstractLedger` | - |
| `FxRates` | concurrent rate ingestions and revaluation runs, and the exposure report | one action per statement; posting is one step |
| `Reports` | the financial reports and reconciliation, as operators on rows | one query |
| `LedgerAudit` | rows after they are posted: triggers, archiving, chain verification, export, and the `Reports` at every instant | one action per statement; the inserts of a posting are one step |
| `SumTheorems` | what a sum over a finite set is, for all proofs about amounts | - |
| `LedgerPostingProofs`, `LedgerJournalProofs` | theorems about `LedgerPosting`: types and overdrafts; journals, chain, books, limits and the refinement | - |
| `IdempotencyProofs`, `ReversalsProofs`, `HandlersProofs`, `FxRatesProofs`, `LedgerAuditProofs` | theorems about the module of that name (`LedgerAudit` with the `Reports`) | - |
| `MC*` | instances for TLC | - |

The modules meet at `postJournalEntry()`. `LedgerPosting` shows that a posting
is all or nothing (`AllOrNothing`), which is why `Idempotency`, `Reversals` and
`Handlers` may take it as one step (with its late failures: committed, but the
caller sees an error). In the other direction `LedgerPosting` protects an
account only if the journals that credit it ask for a balance check on a single
line (`GuardedAccount`) and meter the amount they store (`LimitedPair`);
`Handlers` shows which handlers do (`CheckedAndMetered`).

### LedgerPosting

`pc[r]` is the statement request `r` executes next; `tx[r]` is what its open
transaction holds (advisory locks, checks passed, the previous hash in hand, the
row locked FOR UPDATE, its uncommitted rows and their effect); `ledger` and
`bal` are the committed rows and the balances they give; `snapTodo`,
`snapRead` and `snapshot` are the refresh of `balance_snapshots`.

* `Validate` is `assertBalanced()` and the positive-amount loop, on the amounts
  as sent. `AcquireAdvisoryLock` takes the accounts in ascending order, and is
  blocked by a holder of the same *key*: the key is a prefix of the UUID and two
  accounts may share it. `CheckBalance` and `CheckLimit` read committed rows.
* `ReadTail` and `LockTail` split `SELECT ... ORDER BY ... LIMIT 1 FOR UPDATE`
  in what PostgreSQL does: choose the row by the statement's snapshot, then wait
  for its lock. Under READ COMMITTED the waiter re-evaluates only the locked
  row, which nobody changed, and returns it.
* `InsertEntry` rounds and chains one line; `Commit` publishes; `DeriveSnapshot`
  and `CreateSnapshot` are the two statements of `updateSnapshot()`.
* Faults: `Conflict` (rolled back and retried), `Fail`, `CommitUnacknowledged`
  (committed, reported as an error), `SnapshotFail`.

Requested amounts are counted in half-units of 0.0001, so that odd ones are
rounded by `toFixed(4)`. `postedAt` is taken to be strictly increasing: one clock,
and ties within a millisecond broken by the time-ordered uuidv7. All lines are in
one currency. A row's hash is its identity, i.e. SHA-256 is collision-free.

### Idempotency

A call's journal and its response are named by the call. `FindKey` is the
look-up of `checkAndReserve()` with its three outcomes, `CreateKey` and
`LoseRace` the insert and its commit. The transaction is SERIALIZABLE: losing
the race is reported as a serialization failure (retried) or as a unique
violation (not retried); the model allows both. `Execute` may post, refuse, or
post and throw. `MarkCompleted` and `MarkFailed` are unconditional updates by
id. `Abort` is a crash or a failing statement anywhere. Keys never expire: no
code reads `expiresAt`. The HTTP route requires a key, so calls without one are
not modelled.

### Reversals

`Entries` are the posted rows of each original, `Req` the calls. `FindExisting`
is everything before the transaction; the journal to post (`plan`) is one of
`Plans`: the mirror of the original, or the refund lines. The refund takes the
two largest entries for the wallet and the merchant and the first other CREDIT
for the fee from a query without ORDER BY, so ties and the fee entry are a
choice. `refunded` is the sum of the recorded amounts that
`assertCumulativeRefundLimit()` computes. The original's status update changes
nothing, since no code creates rows of that table. The posting inside the
caller's transaction is the step `Post`; the snapshot refresh after the commit
is folded into `Commit` and `FailAfterCommit`.

### Handlers

One action per handler with its guards (status, limits, amounts), its lines in
order and the checks it asks for. A refused call changes nothing and is simply
not enabled. `ResolveAccounts` reads the account statuses before the
transaction, and `Deactivate` may come between. Balances are kept per currency:
nothing ties a line's currency to its account, and `deriveBalance()` answers with
the first currency group of the query, which the model leaves open. `parseFloat`
arithmetic (`merchant-payment-online`) and quotients cut to 20 digits
(`refund-partial`) may round an exact tie either way. Only fx-conversion uses a
second currency ("target"); like the code it takes the client's rate. The FX
handler's requirement that a current rate exists is taken as met.

One call is under way at a time (`call` is the status map it has resolved): the
interleaving of postings is `LedgerPosting`'s subject, and with several calls under
way each of them may be late once. `late` records, with each journal, the wallets it
took from that were no longer active. The merchant and the biller are parties of their
own, apart from the customer wallets.

### AbstractLedger and LedgerRefinement

`AbstractLedger` is the view of a caller: the set of journals in the books, the
balances, and the answer each call has been given. A journal takes effect in one
step, whole, at most once, and never overdraws a protected account; a call told
"done" is in the books, one told "rejected" is not, and one that saw an error
knows nothing. `LedgerRefinement` maps `ledger`, `bal` and `pc` to these; `COMMIT`
is the visible step. What a journal does to an account is `EffectOf`, the sum of its
rounded lines on it.

### FxRates

`ClosePrevious` and `InsertRate` are the two statements of
`FxRateRepository.create()`, which no transaction joins; `IngestFail` is a call
that dies between them. The trigger on `exchange_rate_snapshots` guards the update.
A run (`rpc`) reads, position after position, the rate of a day before its date,
the fallback if there is none (`ReadFallbackRate`) and the closing rate, then posts
one journal. The code catches around the first and the third read and takes every
failure for a missing rate, so the model lets either read fail; nobody catches
around the second. `PostUnacknowledged` commits and reports an error. `late` and
`overlap` are history variables for stating when the rate of an instant is settled.
`Exposure` is `FxExposureService` as an operator on the same rows.

Rates are in half-units against INR, so that a product can need rounding; a tick is
a day. The lookups that order by `validFrom` without a tiebreak may return any
of several latest rows.

### Reports and LedgerAudit

`Reports` defines each report from the rows its query finds. `LedgerAudit` lets
them be evaluated against a ledger that postings, maintenance and archiving change.
A posting is `ReadTail`, `InsertEntries` and `Commit` (or `Rollback`), so that a
fork of the chain and a transaction that commits after a query began can happen.
`UpdateRow` is an UPDATE by an operator, allowed by the trigger's rule `mayUpdate`;
the application issues none, and DELETE always raises. It changes a row's status
and amount, never its stored hashes. `ArchiveCopy` and `ArchiveDetach` are the two
statements of `archivePartition()`: COPY reads what is committed, DETACH waits for
every transaction that uses the table, and a call that died between the two is
simply repeated. `VerifyChain` and `Export` are the two queries behind
`exportForRegulator()`.

A hash is the tuple of its inputs, i.e. SHA-256 is collision-free. Instants number
the rows in the order (`posted_at`, `id`). PENDING is left out as a new status: no
query tells it from REVERSED.

## 3. What is checked

`EveryCallReturns` and `EveryCallAnswered` are liveness; `OneJournalPerCommit`,
`SettledKeyIsFinal` and `HistoryFixedBeforeValidFrom` are action properties;
`ImplementsAbstractLedger` is a refinement; the rest are invariants.

| Run | Instance | Shows |
|---|---|---|
| `ledger_posting` | 4 calls: two spend from a wallet that can pay for one of them (one with amounts off the grid and two balance checks), a deposit, an unbalanced journal; two accounts with one lock key; a daily cap; 3 attempts; ~59,000 states | no overdraft; a passed check never goes stale; caps hold; journals all or nothing, also across retries; balances are the sums of the rows; links go back to committed rows; two journals share a predecessor only if they share no account lock; every call returns; the service implements `AbstractLedger` |
| `idempotency` | 5 calls: a request, its retry, an edited body under the same key, another user's key, an unimplemented type; 3 attempts; ~766,000 states | every 201 is backed by a committed journal of the same request; two bodies never both post under a key; a settled key is final; every call is answered |
| `reversals` | 6 calls on a payment of 6 units: a full reversal, refunds that fit together or not, a reused key, a refund whose rounded lines do not balance, an unknown original; 2 attempts; ~77,000 states | never over-refunded; a full reversal stands alone and restores every account; record and journal agree; every call returns |
| `handlers` | 2 wallets, every pair of transactions, amounts zero, off-grid, everyday, at the stamp-duty threshold, above the limits; a deactivation of either wallet at any time; ~238,000 states | stored rows balance per currency except from three handlers given off-grid amounts; no wallet is overdrawn except by a closure sweep or when it holds two currencies; every debit of a wallet is checked and metered with the stored amount; the payer's loss is what payee, revenue and tax accounts receive; after a deactivation only the call under way still spends from the wallet |
| `fx_rates` | an opening rate and two ingestions, one with an end of its own; two runs, for the present or the day before, over two positions of which one is overdrawn and one starts later; three days; ~1,512,000 states | a currency loses its rate only between the two statements of an ingestion, after one that died there, or at a stated end; two open rates need overlapping ingestions; an ingestion never changes the rate of an instant before its `validFrom`; all runs see one rate for a settled instant; a run is booked once; nightly runs add up to the change of value; the exposure report agrees with the run up to rounding |
| `ledger_audit` | three journals over two periods, one of them backdated, with a contra-asset and an expense account in credit; two UPDATEs; the older partition archived; ranges that start at or after the first row and end in the past or ahead; ~200,000 states | a verdict `valid` means exactly that the rows are as posted, hang together to genesis and do not fork; an export of a past period holds all that was verified, and besides only what was in flight; archiving loses no row; the reports agree, and where the balance sheet is off, by how much; statements connect, and where they do not, by how much; a statement of what was posted reconciles but for archived journals |

Runs that end in a counterexample, each a disagreement between the code and what
the repository says of it (details in `findings`):

| Run | The repository says | The code |
|---|---|---|
| `chain_fork` | "FOR UPDATE — prevents race" | a posting that waited for the tail row still gets the old tail: two journals chain from one row |
| `snapshot_lag` | snapshots are "never more than one committed transaction behind" | they are refreshed after the commit, may be stored out of order or not at all |
| `duplicate_posting` | "Exactly-once processing guarantee" | a key found PROCESSING or FAILED is executed again |
| `refund_direction` | refunds "economically negate the original" | `partialRefund()` credits the wallet the payment credited |
| `unbalanced_rows` | "no unbalanced journal entry could ever reach the ledger" | totals are compared before the lines are rounded |
| `loan_receivable` | a loan "creates a new receivable asset" | the disbursement credits the receivable, as the repayments do |

**Bounds.** Two conflicting spenders, a third posting that changes what they read,
and one refused journal give every order of lock, check, read, insert and commit
between two transactions; more postings repeat these. Three (two) attempts let a
retry meet the result of another call, and reach the limit of the loop. Two
postings let every handler act on the state any other one leaves. `MCHandlers`
sets `One` to 200 half-units where the code has 20000 (two decimals instead of
four), so that the largest limits fit TLC's integers; thresholds and rates are the
code's. In `fx_rates` two ingestions and two runs give every overlap of two calls
with each other and with the clock; three days are enough for a rate announced
ahead, a stated end and a stale rate. In `ledger_audit` a page has one line and the
tolerance is 0, so that every statement with two lines has two pages and a
difference of one unit counts. `fx_rates` declares the two runs symmetric: they
differ in nothing but their name, and the run checks no liveness. The other runs use
no symmetry.

**Fairness.** Weak fairness of each call's next statement: the event loop runs
what is ready and PostgreSQL grants a lock that stays free. Faults are never
required to happen. `handlers`, `fx_rates` and `ledger_audit` are checked without
fairness and without deadlock checking: they are bounded histories with no liveness
claim.

Each property of a passing run has a mutant of the code (a lock not taken, a
guard dropped, a retry too many, an amount not rounded, ...) that TLC shows to
break it; the mutants stand before the definition they replace.

## 4. What is proved

For all values of the constants: any number of calls, accounts, journals, lines,
rates, positions and partitions. The assumptions are the named ASSUMEs of the
modules, which TLC evaluates on every instance:

* arguments are typed and journals non-empty (the DTO requires lines), lock keys
  preserve the order of account ids, `MaxRetries` is positive;
* what was there before is what earlier calls left: the opening rows are finite, have
  a primary key and a posting time in the past and are chained from one another, the
  opening balances are their sums; the opening rates are finite and one per currency;
* instants lie after the value that stands for "no end"; the chart of accounts is
  finite; in `LedgerAudit` a reference belongs to one journal, which balances;
* in `Handlers` the wallets are finitely many and none of the system accounts, what they
  held before is on the grid, and `One` is a multiple of 200 half-units (the code's
  20000), so that the fees the code writes as constants are on the grid too. Amounts are
  any integers, rates any fractions.

**Sums.** `SumTheorems` shows that `SumFunctionOnSet`, which takes the elements of a
set out in an order CHOOSE picks, is the sum in any order: it splits over disjoint
sets, adds up pointwise, is carried over by a bijection, is monotone. The prover
cannot instantiate the library's induction rules, but it can use that the proper
subset relation on a finite set is well-founded: a smallest subset for which a claim
fails (`SubsetMin`) leads to a contradiction. The existence of the recursively defined
functions (`Sums`, the hashes of a journal in `LedgerAudit`) is proved the same way.

**Posting** (`LedgerPostingProofs`, `LedgerJournalProofs`).

* `TypeCorrect`: `TypeOK`, with `TxShape` (outside a transaction nothing is held; the
  next line to insert exists).
* `NeverOverdrawn`, `ChecksStayValid`: `NoOverdraft` and `CheckNeverStale`. Neither is
  inductive: the balance is lowered at commit, long after it was checked. `SafeInv`
  adds that a lock key has one holder (`LockExclusion`), that a request past a phase
  holds the locks and has passed the checks of that phase (`Discipline`), and that the
  uncommitted effect of a transaction on a guarded account is bounded by the checked
  line after rounding (`Covered`). A commit then lowers a guarded account only under
  its lock, by no more than the check allowed (`RoundingCovered`).
* `JournalsAreWhole`, `CommitsAreWholeJournals`: `JournalInv` says that the uncommitted
  rows of a call are exactly the lines inserted so far, in order, and its committed
  rows all of them or none.
* `ChainIsRooted`, `ForksShareNoLock`: `ChainInv` adds that the tail a call has read is
  committed, and that no committed row of a call it shares a lock with is later
  (`TailKnown`). Such a call cannot commit while the locks are held, which is why the
  locks order what FOR UPDATE does not.
* `BooksAlwaysBalance`: `BooksInv` ties `bal` and each uncommitted effect to the sums of
  the rows; the second conjunct follows since rounding is exact on the grid.
* `LimitsHold`: `LimitInv` says that a limit check that passed stays true until its
  transaction ends (`LimitsHeld`), as for balances: every metered posting of the
  account takes its lock.
* `PostingImplementsLedger`: initial states map to initial states and every action to
  the abstract action it implements or to a stutter, from `SafeInv`, `JournalInv` and
  `BooksInv`.

**Idempotency.** `CallsAreTyped`; `KeyHasOneIntent` and `AnswersBacked`: a call past its
reservation matches its key's record (`Reserved`), so does every posted call
(`Matching`), and stored responses name posted journals (`Stored`). `SettledKeysStay`
is the action property: a call that starts after the key is settled can only be
replayed or refused.

**Reversals.** `IInv`: only the holder of an original's lock is past its checks
(`Holding`), its journal is one of `Plans` (`Planned`), and what it found out about
earlier reversals is still true (`Cleared`); the records are those of the committed
journals (`Recorded`), a full reversal is alone (`Alone`), and the total the guard reads
is the sum of the records and within the original (`Totalled`). From it follow
`ReversalsAreTyped`, `RefundsStayWithinOriginal`, `RecordsMatchJournals` and, with the
fact that a mirrored line has the opposite effect, `FullReversalsStandAlone`.

**Handlers.** A journal is a list of lines, and each sum the properties speak of
(totals as sent, totals as stored per currency, the effect on an account, what reaches
the other parties) is the sum of a weight over its lines (`TotalIsSum`, `EffectIsSum`,
...), which an appended line raises by its own weight (`SumAppend`). So each builder has
a lemma: `computeBalancingLeg()` adds nothing or one line on the grid, on Platform
Operating Cash (`BalancingLeg`); a levy adds what it is worth (`PaymentCharge`). For each
of the 22 handlers a lemma shows that the journal it posts is `Sane`: its rows balance in
each currency, or it is one of the three that pass a raw amount on; it takes nothing from
any wallet (`Giving`), or one line's worth from the wallet it checks and meters
(`Paying`), or it is a closure sweep; and the payer's loss arrives. The arithmetic is that
of the grid: rounding commutes with adding what is on the grid (`ToFixedPlus`), two
conversions of a Number differ by at most one 0.0001 (`NumberDrift`), and so do the parts
of an instalment (`InstalmentDrift`), because the payment covers what is due. Then
`PostIInv`: posting a sane journal keeps `IInv`. `NoOverdraft` needs that balances are on
the grid: a balance not below the unrounded amount is not below the rounded one either
(`CheckedPayment`). `OneLatePayment` needs `LateStopped`: a wallet that was paid from late
is inactive, and no call under way has read otherwise. The theorems are `TypeCorrect`,
`RowsBalance`, `NoOverdraft`, `LossesChecked`, `PaymentsArrive` and `OneLatePayment`.

**FX.** `TableInv`: without an overlap one ingestion at a time is between its
statements, and then no rate is open (`Exclusive`); an instant without a rate has an
ingestion to blame, whose `validFrom` lies before it (`NoGap`). This gives
`OpenRatesAreSingle`, `GapsHaveACause` and `HistoryIsFixed`. `ReadInv`: what a run has
read for an instant is still the rate of that instant unless an ingestion reached back
(`Standing`), and a run has one line per position; hence `InstantsHaveOneRate` and
`ExposureTiesToRuns`, where each rounding is off by at most half a unit. `BookInv`: the
accounts hold the sums of the posted runs; hence `RunsBookedOnce`, and
`NightsTelescope` by pairing the closing value of each night with the opening value of
the next.

**Archive, audit and reports** (`LedgerAuditProofs`). `RowsInv` says where rows are: a
call's own before its commit (`Pending`), in the table or in one detached partition
after it, with identity and hashes as posted (`Kept`), and that what a CSV misses was
touched after the COPY (`Copied`); hence `ArchiveLosesNothing`. `ChainInv`: committed
rows form a forest that hangs from genesis. That the walk of `verifyChain()` is exact
is then a lemma about any rows it may read (`VerdictIsExact`), and `VerdictInv` carries
the verdict on; hence `ChainVerdictsAreExact`. `ExportInv`: a row of a past period that
appears after the verification was in flight; hence `ExportsAreVerified`. `WholeInv`:
until a row is updated, a call's rows are exactly its lines; hence
`OwnStatementsReconcile` and, with the sums of a journal's two sides, `ReportsAlwaysTie`.
`StatementsDoConnect` splits the rows of an account by period and page.

Only model-checked: liveness (`EveryCallReturns`, `EveryCallAnswered`), since the
prover has neither ENABLED nor fairness. Every other property of a passing run is a
theorem.

## 5. Not modelled, and observations

Authentication, configuration, error formatting, health checks, seeds and one-off
scripts keep no ledger state. `cleanupStaleKeys()` has no caller; account creation
relies on a unique constraint. `computeConversion()` of the FX service is a quote that
nothing posts. The anomaly queries of the audit service are heuristics with no
promise to check. `createFuturePartitions` and the one-off conversion to a
partitioned table run while nobody posts.

Seen while modelling, without a run of their own:

* `account-closure.handler.ts:16-22` says the sweep zeroes the wallet, matches the
  balance exactly and is followed by CLOSED; the code compares nothing and no code
  sets CLOSED. A sweep can overdraw a wallet (the exception in
  `WalletsNeverOverdrawn`).
* `balance.service.ts:58` takes the first currency group; a wallet with rows in two
  currencies can be overdrawn in one against its balance in the other (the other
  exception).
* `fx-conversion.handler.ts:51-58` says the client's rate is not trusted; it only
  requires that some current rate exists and then uses the client's.
* The FULL fee policy returns the whole fee with every partial refund; the
  cumulative guard does not count fees.
* A concurrent duplicate of a reversal gets an error, not the replay that
  `reversals.controller.ts` promises; the same key with another body is replayed.
* The refund and chargeback transaction types have no cumulative guard at all.
* An EMI without interest or principal and a full refund without a fee produce a
  zero line, which posting always refuses.
* `fx-revaluation.service.ts:74-77` says that a run is measured "relative to the
  PREVIOUS run's closing valuation". It is measured against the rate of 24 hours
  before its date: a second run for a date books the change again, a skipped night
  is never caught up, and the closing rate is the present's whatever the date.
* A position without a closing rate (or whose closing query fails) is skipped in
  silence; one without a prior and a current rate ends the whole run.
* A rate announced further ahead than `FX_RATE_MAX_AGE_MINUTES` is stale when it
  takes effect: its age counts from the ingestion.
* The exposure report values a currency without a rate at 1.
* `audit.service.ts:40` offers to verify a date range; a range that does not start at
  the first row is never valid, since the loop starts from genesis. So is a ledger
  whose oldest partition was archived; and if no POSTED row is left, the next posting
  starts a chain from genesis.
* The trigger allows POSTED to REVERSED with any other column changed, and any update
  of a REVERSED row, where ADR-003 says that "direct database access" cannot mutate
  posted entries. Marking rows REVERSED breaks the chain and the trial balance.
* Rows committed between COPY and DETACH are in the detached table but in no CSV. A
  posting backdated into a detached partition is refused.
* The balance sheet "satisfying: Assets = Liabilities + Equity"
  (`balance-sheet.service.ts:38`) is off by exactly the amounts in `ReportsTie`:
  income that nothing closes into equity, and contra-assets added instead of
  subtracted.
* An account statement starts every page from the opening balance, takes a
  credit-normal account with no earlier entry for an ASSET, and has no tiebreak in
  its ORDER BY. Reconciliation compares the largest line of a journal, ignores
  currencies, and lets the last of two equal references win.
* `incident-002` relies on a job that fails stale keys; it is not scheduled.

## 6. Plan

Done: the modules of section 2, their instances, and the proofs of section 4. Left, in
the order of use: several calls under way at once in `Handlers`, with the postings of
`LedgerPosting` in place of the one step; the merchant as one of the wallets; and
`TransactionLimit` rows in `Handlers`, where none is configured.
