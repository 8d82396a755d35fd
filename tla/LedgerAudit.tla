---------------------------- MODULE LedgerAudit ----------------------------
(***************************************************************************)
(* The life of a ledger row after it is posted: the immutability triggers, *)
(* the archiving of partitions, the verification of the hash chain, the    *)
(* export for the regulator, and the reports, all against postings that    *)
(* are still running.                                                      *)
(*                                                                         *)
(* A posting reads the tail of the chain, locks it and inserts its rows,   *)
(* and commits, in three steps (LedgerPosting has every statement of it).  *)
(* A hash is the tuple of what was hashed, so two hashes are equal exactly *)
(* when their inputs are.  Instants number the rows in the order           *)
(* (posted_at, id); a partition holds one period of effective dates.       *)
(***************************************************************************)
EXTENDS Reports, Sequences

CONSTANTS
  Posting,     \* calls of postJournalEntry()
  Journal,     \* their arguments, see JournalType
  Opening,     \* the call whose journal is in the books from the start
  Period,      \* effective dates, one partition each
  Archivable,  \* the partitions `manage-partitions --action archive` is run on
  Corrected,   \* the rows maintenance statements UPDATE
  NewAmount,   \* the amounts they may write
  MaxUpdates,  \* bound on the number of UPDATE statements
  RangeStart,  \* the `from` instants an audit may ask for
  RangeEnd     \* and the `to` instants

LineType    == [account : Account, entryType : {"DEBIT", "CREDIT"}, amount : Nat \ {0}]
JournalType == [lines : Seq(LineType), effective : Period, ref : STRING]

Lines(p) == Journal[p].lines

ASSUME AuditAssumption ==
  /\ Opening \in Posting
  /\ Period \subseteq Nat \ {0}
  /\ Archivable \subseteq Period
  /\ Journal \in [Posting -> JournalType]
  /\ \A p, q \in Posting : Journal[p].ref = Journal[q].ref => p = q
  \* what postJournalEntry() accepts
  /\ \A p \in Posting :
       LET Sum(e) == SumFunctionOnSet([i \in DOMAIN Lines(p) |-> Lines(p)[i].amount],
                                      {i \in DOMAIN Lines(p) : Lines(p)[i].entryType = e})
       IN  Lines(p) # << >> /\ Sum("DEBIT") = Sum("CREDIT")
  /\ NewAmount \subseteq Nat \ {0}
  /\ MaxUpdates \in Nat
  /\ RangeStart \subseteq Nat /\ RangeEnd \subseteq Nat

Genesis == << >>

-----------------------------------------------------------------------------
VARIABLES
  now,        \* the clock
  tx,         \* the transaction of each posting
  ledger,     \* the committed rows of ledger_entries, all attached partitions
  script,     \* how far archivePartition() has come with each partition
  csv,        \* the rows its COPY wrote, per partition
  standalone, \* the rows of detached partitions
  updates,    \* UPDATE statements so far
  audit,      \* exportForRegulator(): the verification and the package
  posted,     \* history: every committed row, as it was committed
  touched     \* history: ids committed or updated since the partition's COPY

vars == <<now, tx, ledger, script, csv, standalone, updates, audit, posted, touched>>

NoTx    == [step |-> "read", upto |-> 0, lock |-> Genesis, rows |-> {}]
NoAudit == [step |-> "verify", from |-> 0, to |-> 0, rows |-> {}, valid |-> TRUE,
            firstBreakAt |-> Genesis, startedAt |-> 0, inFlight |-> {},
            maintained |-> FALSE, entries |-> {}]

\* computeHash(): of what an UPDATE may change, the amount stands for all.
computeHash(id, amount, previousHash) == <<id, amount, previousHash>>

\* The hashes of a journal's rows, each chained from the one before.
Hashes(p, tail) ==
  LET hashAt[i \in 0..Len(Lines(p))] ==
        IF i = 0 THEN tail
        ELSE computeHash(<<p, i>>, Lines(p)[i].amount, hashAt[i - 1])
  IN  hashAt

\* The rows of a journal, each inserted an instant after the one before.
NewRows(p, tail, start) ==
  LET hashAt == Hashes(p, tail)
  IN  {[id |-> <<p, i>>, account |-> Lines(p)[i].account,
        entryType |-> Lines(p)[i].entryType, amount |-> Lines(p)[i].amount,
        effective |-> Journal[p].effective, ref |-> Journal[p].ref,
        status |-> "POSTED", at |-> start + i,
        previousHash |-> hashAt[i - 1], hash |-> hashAt[i]] : i \in DOMAIN Lines(p)}

Init ==
  /\ now = Len(Lines(Opening))
  /\ tx = [p \in Posting |-> IF p = Opening THEN [NoTx EXCEPT !.step = "done"] ELSE NoTx]
  /\ ledger = NewRows(Opening, Genesis, 0)
  /\ script = [d \in Archivable |-> "idle"]
  /\ csv = [d \in Archivable |-> {}]
  /\ standalone = {}
  /\ updates = 0
  /\ audit = NoAudit
  /\ posted = ledger
  /\ touched = [d \in Archivable |-> {}]

PostingVars == <<now, tx>>
ArchiveVars == <<script, csv, standalone>>

Live(rows) == {x \in rows : x.status = "POSTED"}
Detached   == {d \in Archivable : script[d] = "detached"}
IsOpen(p)  == tx[p].step \in {"lock", "commit"}

\* Rows committed or changed in a partition outdate the copy made of it.
Touch(rows) ==
  touched' = [d \in Archivable |-> touched[d] \cup {x.id : x \in {y \in rows : y.effective = d}}]

-----------------------------------------------------------------------------
(* Posting.                                                                *)

\* getLastPostedEntry(): the greatest (posted_at, id) among POSTED rows.
Last(rows) == CHOOSE x \in rows : \A y \in rows : y.at <= x.at
TailHash(rows) == IF rows = {} THEN Genesis ELSE Last(rows).hash

\* The snapshot of the tail query.
ReadTail(p) ==
  /\ tx[p].step = "read"
  /\ tx' = [tx EXCEPT ![p] = [NoTx EXCEPT !.step = "lock",
              !.upto = IF Live(ledger) = {} THEN 0 ELSE Last(Live(ledger)).at]]
  /\ UNCHANGED <<now, ledger, ArchiveVars, updates, audit, posted, touched>>

\* FOR UPDATE returns the row the snapshot found (or the next older one, if an
\* UPDATE took its status away meanwhile) once no other posting has it locked;
\* then the rows go into the attached partition of the journal's date.
InsertEntries(p) ==
  /\ tx[p].step = "lock"
  /\ Journal[p].effective \notin Detached
  /\ LET tail == TailHash({x \in Live(ledger) : x.at <= tx[p].upto})
     IN  /\ tail # Genesis =>
              \A q \in Posting \ {p} : tx[q].step = "commit" => tx[q].lock # tail
         /\ tx' = [tx EXCEPT ![p].step = "commit", ![p].lock = tail,
                             ![p].rows = NewRows(p, tail, now)]
  /\ now' = now + Len(Lines(p))
  /\ UNCHANGED <<ledger, ArchiveVars, updates, audit, posted, touched>>

\* No partition for the row, or any other failure: nothing is kept.
Rollback(p) ==
  /\ IsOpen(p)
  /\ tx' = [tx EXCEPT ![p] = [NoTx EXCEPT !.step = "failed"]]
  /\ UNCHANGED <<now, ledger, ArchiveVars, updates, audit, posted, touched>>

Commit(p) ==
  /\ tx[p].step = "commit"
  /\ ledger' = ledger \cup tx[p].rows
  /\ posted' = posted \cup tx[p].rows
  /\ Touch(tx[p].rows)
  /\ tx' = [tx EXCEPT ![p] = [NoTx EXCEPT !.step = "done"]]
  /\ UNCHANGED <<now, ArchiveVars, updates, audit>>

-----------------------------------------------------------------------------
(* The triggers.  A DELETE always raises, so it is no step at all.         *)

\* prevent_ledger_entry_mutation(): the updates that do not raise.
mayUpdate(old, new) ==
  \/ old.status = "PENDING" /\ new.status = "POSTED"
  \/ old.status = "POSTED" /\ new.status = "REVERSED"
  \/ old.status # "POSTED"

\* A maintenance UPDATE of a row's status and amount; the row must not be
\* locked by a posting that chains from it.  The application issues none.
\* (PENDING as the new status is left out: no query tells it from REVERSED.)
UpdateRow(x) ==
  /\ updates < MaxUpdates
  /\ x.id \in Corrected
  /\ \A p \in Posting : tx[p].step = "commit" => tx[p].lock # x.hash
  /\ \E status \in {"POSTED", "REVERSED"}, amount \in NewAmount \cup {x.amount} :
       LET new == [x EXCEPT !.status = status, !.amount = amount]
       IN  /\ new # x
           /\ mayUpdate(x, new)
           /\ ledger' = (ledger \ {x}) \cup {new}
  /\ updates' = updates + 1
  /\ audit' = [audit EXCEPT !.maintained = @ \/ audit.step = "export"]
  /\ Touch({x})
  /\ UNCHANGED <<PostingVars, ArchiveVars, posted>>

-----------------------------------------------------------------------------
(* archivePartition(): two statements, without a transaction around them.  *)

\* Mutant: a file left by an earlier, interrupted call is not written again.
ArchiveCopyOnce(d) ==
  /\ script[d] \in {"idle", "copied"}
  /\ script' = [script EXCEPT ![d] = "copied"]
  /\ csv' = IF script[d] = "copied" THEN csv
            ELSE [csv EXCEPT ![d] = {x \in ledger : x.effective = d}]
  /\ touched' = [touched EXCEPT ![d] = {}]
  /\ UNCHANGED <<PostingVars, ledger, standalone, updates, audit, posted>>

\* COPY ... TO csv; a call that died after it is simply made again.
ArchiveCopy(d) ==
  /\ script[d] \in {"idle", "copied"}
  /\ script' = [script EXCEPT ![d] = "copied"]
  /\ csv' = [csv EXCEPT ![d] = {x \in ledger : x.effective = d}]
  /\ touched' = [touched EXCEPT ![d] = {}]
  /\ UNCHANGED <<PostingVars, ledger, standalone, updates, audit, posted>>

\* DETACH PARTITION waits for every transaction that has used the table.
ArchiveDetach(d) ==
  /\ script[d] = "copied"
  /\ \A p \in Posting : ~IsOpen(p)
  /\ script' = [script EXCEPT ![d] = "detached"]
  /\ LET rows == {x \in ledger : x.effective = d}
     IN  /\ ledger' = ledger \ rows
         /\ standalone' = standalone \cup rows
  /\ audit' = [audit EXCEPT !.maintained = @ \/ audit.step = "export"]
  /\ UNCHANGED <<PostingVars, csv, updates, posted, touched>>

-----------------------------------------------------------------------------
(* AuditService and HashChainService.                                      *)

\* findMany: POSTED rows by posting time.
Found(from, to) == {x \in Live(ledger) : from <= x.at /\ x.at <= to}

\* Mutant: the stored hash is compared with its neighbours only.
breaksLinkOnly(rows, x) ==
  x.previousHash # TailHash({y \in rows : y.at < x.at})

\* What ends the loop of verifyChain() at entry x: it does not chain from the
\* entry before it (from genesis, if it is the first), or does not hash to
\* what it stores.
breaks(rows, x) ==
  \/ x.previousHash # TailHash({y \in rows : y.at < x.at})
  \/ computeHash(x.id, x.amount, x.previousHash) # x.hash

firstBreak(rows) ==
  CHOOSE x \in rows : breaks(rows, x) /\ \A y \in rows : breaks(rows, y) => x.at <= y.at

\* verifyChain(): `to` may lie ahead; without it, it is the present.
VerifyChain(from, to) ==
  /\ audit.step = "verify"
  /\ LET rows == Found(from, to)
         valid == \A x \in rows : ~breaks(rows, x)
     IN  audit' = [audit EXCEPT
           !.step = "export", !.from = from, !.to = to, !.rows = rows, !.valid = valid,
           !.firstBreakAt = IF valid THEN Genesis ELSE firstBreak(rows).id,
           !.startedAt = now,
           !.inFlight = UNION {tx[p].rows : p \in Posting}]
  /\ UNCHANGED <<PostingVars, ledger, ArchiveVars, updates, posted, touched>>

\* Mutant: the second query reads up to the present.
ExportToNow ==
  /\ audit.step = "export"
  /\ audit' = [audit EXCEPT !.step = "done", !.entries = Found(audit.from, now)]
  /\ UNCHANGED <<PostingVars, ledger, ArchiveVars, updates, posted, touched>>

\* exportForRegulator(): the entries are queried again, after the verification.
Export ==
  /\ audit.step = "export"
  /\ audit' = [audit EXCEPT !.step = "done", !.entries = Found(audit.from, audit.to)]
  /\ UNCHANGED <<PostingVars, ledger, ArchiveVars, updates, posted, touched>>

Next ==
  \/ \E p \in Posting : ReadTail(p) \/ InsertEntries(p) \/ Rollback(p) \/ Commit(p)
  \/ \E x \in ledger : UpdateRow(x)
  \/ \E d \in Archivable : ArchiveCopy(d) \/ ArchiveDetach(d)
  \/ \E from \in RangeStart, to \in RangeEnd : VerifyChain(from, to)
  \/ Export

Spec == Init /\ [][Next]_vars

-----------------------------------------------------------------------------
(* Properties.                                                             *)

\* The id of the committed row whose hash x was chained from.
Parent(x) == {y.id : y \in {z \in posted : z.hash = x.previousHash}}

\* The row says what was posted, and the row it was chained from is among rows.
Sound(rows, x) ==
  /\ \E y \in posted : y.id = x.id /\ y.amount = x.amount
  /\ x.previousHash # Genesis => Parent(x) \cap {y.id : y \in rows} # {}

\* verifyChain() answers `valid` exactly when the rows it read say what was
\* posted, hang together back to genesis, and no two of them were chained
\* from one row; and every row before the break it reports is sound.  So a
\* range that leaves out the first row is never valid once it holds a row,
\* whatever is in it, and neither is a ledger whose oldest partition was
\* archived under it or whose postings forked.
ChainVerdictIsExact ==
  audit.step # "verify" =>
    /\ audit.valid <=>
         /\ \A x \in audit.rows : Sound(audit.rows, x)
         /\ \A x, y \in audit.rows : x.previousHash = y.previousHash => x = y
    /\ ~audit.valid =>
         \E b \in audit.rows :
           /\ b.id = audit.firstBreakAt
           /\ \A x \in audit.rows : x.at < b.at => Sound(audit.rows, x)

\* The export packs a verdict and entries read by two queries.  For a period
\* that was over when the verification ran, and without maintenance between
\* the two, nothing verified is missing from the package, and what it holds
\* besides was inserted before the verification and committed after it.
ExportIsWhatWasVerified ==
  (audit.step = "done" /\ ~audit.maintained /\ audit.to <= audit.startedAt) =>
    /\ audit.rows \subseteq audit.entries
    /\ audit.entries \ audit.rows \subseteq audit.inFlight

\* Archiving moves rows and loses none: every committed row is in the table or
\* in a detached partition, never in both, and the CSV differs from the
\* partition it was made of only in rows committed or updated after the last
\* COPY.  (Those it does miss: COPY and DETACH are two statements.)
ArchiveKeepsEveryRow ==
  LET Ids(rows) == {x.id : x \in rows}
  IN  /\ Ids(ledger) \cup Ids(standalone) = Ids(posted)
      /\ Ids(ledger) \cap Ids(standalone) = {}
      /\ \A x \in ledger : x.effective \notin Detached
      /\ \A d \in Detached :
           LET table == {x \in standalone : x.effective = d}
           IN  Ids((table \ csv[d]) \cup (csv[d] \ table)) \subseteq touched[d]

\* The three financial reports agree, at any date.  The trial balance is off
\* only when maintenance changed rows; archiving, which takes whole journals,
\* leaves it balanced.  The balance sheet is off by exactly the income nobody
\* closed into equity, twice the contra-assets it adds instead of subtracting,
\* and twice the expense accounts in credit that the income statement folds.
ReportsTie ==
  \A asOf \in Period :
    LET found == Posted(ledger, 0, asOf)
        CreditNet == [a \in Account |-> -Net(Of(found, a))]
        CreditExcess == [a \in Account |-> IF CreditNet[a] > 0 THEN CreditNet[a] ELSE 0]
        trial == trialBalance(ledger, asOf).discrepancy
    IN  /\ updates = 0 => trial = 0
        /\ trialBalanceCheck(ledger, asOf) = trial
        /\ Discrepancy(balanceSheet(ledger, asOf)) =
             trial + incomeStatement(ledger, 0, asOf).netIncome
             + 2 * SumFunctionOnSet(CreditNet, OfType({"CONTRA_ASSET"}))
             + 2 * SumFunctionOnSet(CreditExcess, OfType({"EXPENSE", "CONTRA_REVENUE"}))

\* The statement of a period closes where the next one opens, except for two
\* amounts: the lines on its other pages, and, for a credit-normal account
\* with no entry before the period, the sign of everything on the page.
StatementsConnect ==
  \A a \in Account, from, to \in Period, page \in {1, 2} :
    LET lines == Of(Posted(ledger, from, to), a)
        onPage == OnPage(lines, page)
        isNew == Of(Posted(ledger, 0, from - 1), a) = {}
    IN  from <= to =>
          accountStatement(ledger, a, to + 1, to + 1, 1).openingBalance
            - accountStatement(ledger, a, from, to, page).closingBalance
          = normalBalanceSign(a) * Net(lines \ onPage)
            + (IF isNew THEN (normalBalanceSign(a) - 1) * Net(onPage) ELSE 0)

\* The largest line of each journal committed for a period: what the other
\* side's statement lists.
OwnStatement(from, to) ==
  LET done == {p \in Posting : /\ tx[p].step = "done"
                               /\ from <= Journal[p].effective /\ Journal[p].effective <= to}
      Of1(ref) == CHOOSE p \in done : Journal[p].ref = ref
  IN  [ref \in {Journal[p].ref : p \in done} |->
         Max({Lines(Of1(ref))[i].amount : i \in DOMAIN Lines(Of1(ref))})]

\* Reconciling a period with a statement that lists exactly what was posted
\* for it, whenever postings have committed, finds every reference once and
\* matches it, but for the journals whose partition was archived: those are
\* reported as never recorded.  (Maintenance may change what is found.)
OwnStatementReconciles ==
  updates = 0 =>
    \A from, to \in Period :
      LET external == OwnStatement(from, to)
          report == reconcile(ledger, from, to, external)
          archived == {x.ref : x \in standalone} \cap DOMAIN external
      IN  /\ report.missingInLedger = archived
          /\ report.matched = DOMAIN external \ archived
          /\ isFullyReconciled(report) <=> archived = {}
          /\ isFullyReconciled(report) => report.totalDiscrepancy = 0
=============================================================================
