------------------------ MODULE LedgerJournalProofs ------------------------
(***************************************************************************)
(* For every set of requests, journals, lock keys and limits: a journal is *)
(* in the ledger whole or not at all, the hash chain links back and forks  *)
(* only where no lock orders two postings, the balances are the sums of    *)
(* the rows, the limits hold, and LedgerPosting implements AbstractLedger. *)
(***************************************************************************)
EXTENDS LedgerPostingProofs, LedgerRefinement, SumTheorems

-----------------------------------------------------------------------------
(* The shapes a step can have, as far as the ledger and the transactions   *)
(* are concerned.                                                          *)

\* A transaction that is opened, rolled back, retried or rejected.
Restart(r) ==
  /\ pc[r] \in TxStates \cup {"validate"}
  /\ \E s \in States :
       /\ pc' = [pc EXCEPT ![r] = s]
       /\ s \in {"rejected", "error"} \/ (s = Phase(r, NoTx) /\ Valid(r))
  /\ tx' = [tx EXCEPT ![r] = NoTx]
  /\ UNCHANGED <<ledger, bal>>

\* A lock is taken or a check is passed.
Advance(r) ==
  /\ pc[r] \in {"lock", "check", "limit"}
  /\ \E t \in TxType :
       /\ tx' = [tx EXCEPT ![r] = t]
       /\ pc' = [pc EXCEPT ![r] = Phase(r, t)]
       /\ t.prev = tx[r].prev /\ t.rowLock = tx[r].rowLock /\ t.next = tx[r].next
       /\ t.pending = tx[r].pending /\ t.delta = tx[r].delta
       /\ tx[r].locked \subseteq t.locked
       /\ \/ t.limited = tx[r].limited
          \/ \E c \in Journal[r].limits :
               /\ t.limited = tx[r].limited \cup {c}
               /\ assertWithinLimits(c, Journal[r].type)
               /\ pc[r] = "limit"
  /\ UNCHANGED <<ledger, bal>>

\* The journal becomes visible.
Publication(r) ==
  /\ pc[r] = "commit"
  /\ \E s \in {"snapshot", "error"} : pc' = [pc EXCEPT ![r] = s]
  /\ tx' = [tx EXCEPT ![r] = NoTx]
  /\ ledger' = ledger \cup tx[r].pending
  /\ bal' = [a \in Account |-> bal[a] + tx[r].delta[a]]

\* A snapshot statement, or its failure.
AfterCommit(r) ==
  /\ pc[r] = "snapshot"
  /\ \E s \in {"snapshot", "done", "error"} : pc' = [pc EXCEPT ![r] = s]
  /\ UNCHANGED <<tx, ledger, bal>>

\* A line is inserted: the new row is later than every row there is.
Insertion(r) ==
  /\ pc[r] = "insert"
  /\ \E x \in RowType, t \in TxType :
       /\ \E at \in Int : x = NewRow(r, at) /\ \A y \in AllRows : y.at < at
       /\ tx' = [tx EXCEPT ![r] = t]
       /\ t.pending = tx[r].pending \cup {x}
       /\ t.delta = [tx[r].delta EXCEPT ![x.account] = @ + Signed(x.entryType, x.amount)]
       /\ t.prev = x.id /\ t.next = tx[r].next + 1
       /\ t.rowLock = tx[r].rowLock /\ t.locked = tx[r].locked /\ t.limited = tx[r].limited
  /\ pc' = [pc EXCEPT ![r] = IF tx[r].next = Len(Lines(r)) THEN "commit" ELSE "insert"]
  /\ UNCHANGED <<ledger, bal>>

\* The tail of the chain is read and locked.
TailStep(r) ==
  \/ /\ pc[r] = "tail"
     /\ \E id \in Tails(ledger) : tx' = [tx EXCEPT ![r].prev = id]
     /\ pc' = [pc EXCEPT ![r] = "tailWait"]
     /\ UNCHANGED <<ledger, bal>>
  \/ /\ pc[r] = "tailWait"
     /\ tx' = [tx EXCEPT ![r].rowLock = tx[r].prev]
     /\ pc' = [pc EXCEPT ![r] = "insert"]
     /\ UNCHANGED <<ledger, bal>>

\* Every step has one of these shapes.
LEMMA StepShape ==
  ASSUME TypeInv, SafeInv, [Next]_vars
  PROVE  \/ \E r \in Request : \/ Restart(r) \/ Advance(r) \/ TailStep(r) \/ Insertion(r)
                               \/ Publication(r) \/ AfterCommit(r)
         \/ UNCHANGED <<pc, tx, ledger, bal>>
  <1>a. /\ tx \in [Request -> TxType]
        /\ \A r \in Request : pc[r] \notin TxStates => tx[r] = NoTx
    BY DEF TypeInv, TypeOK, TxShape
  <1>b. \A r \in Request : pc[r] \in TxStates => Valid(r)
    BY DEF SafeInv, Discipline
  <1>p. \A r, t : Phase(r, t) \in States
    BY PhaseType DEF States, TxStates
  <1>1. ASSUME NEW r \in Request, Validate(r) PROVE Restart(r)
    <2>1. tx' = [tx EXCEPT ![r] = NoTx] /\ UNCHANGED <<ledger, bal>>
      BY <1>1, <1>a DEF Validate, TxStates
    <2>2. QED
      BY <1>1, <1>p, <2>1 DEF Validate, Goto, Restart, States, Outcomes
  <1>2. ASSUME NEW r \in Request, AcquireAdvisoryLock(r) PROVE Advance(r)
    <2>1. PICK a \in LockAccounts(r) : tx' = [tx EXCEPT ![r].locked = @ \cup {a}]
      BY <1>2 DEF AcquireAdvisoryLock
    <2> DEFINE t == [tx[r] EXCEPT !.locked = @ \cup {a}]
    <2>2. tx' = [tx EXCEPT ![r] = t] /\ tx'[r] = t
      BY <1>a, <2>1
    <2>3. a \in Account
      BY LinesType
    <2>4. /\ t \in TxType
          /\ t.prev = tx[r].prev /\ t.rowLock = tx[r].rowLock /\ t.next = tx[r].next
          /\ t.pending = tx[r].pending /\ t.delta = tx[r].delta /\ t.limited = tx[r].limited
          /\ tx[r].locked \subseteq t.locked
      BY <1>a, <2>3 DEF TxType
    <2> HIDE DEF t
    <2>5. QED
      BY <1>2, <2>2, <2>4 DEF AcquireAdvisoryLock, Goto, Advance
  <1>3. ASSUME NEW r \in Request, CheckBalance(r) PROVE Restart(r) \/ Advance(r)
    <2>0. pc[r] = "check" /\ UNCHANGED <<ledger, bal>>
      BY <1>3 DEF CheckBalance
    <2>1. PICK a \in BalanceChecks(r) :
            \/ tx' = [tx EXCEPT ![r].checked = @ \cup {a}] /\ Goto(r, Phase(r, tx'[r]))
            \/ LeaveLoop(r) /\ Goto(r, "rejected")
      BY <1>3 DEF CheckBalance
    <2>2. CASE LeaveLoop(r) /\ Goto(r, "rejected")
      BY <2>0, <2>2 DEF LeaveLoop, EndTx, Goto, Restart, TxStates, States, Outcomes
    <2>3. CASE tx' = [tx EXCEPT ![r].checked = @ \cup {a}] /\ Goto(r, Phase(r, tx'[r]))
      <3> DEFINE t == [tx[r] EXCEPT !.checked = @ \cup {a}]
      <3>1. tx' = [tx EXCEPT ![r] = t] /\ tx'[r] = t
        BY <1>a, <2>3
      <3>2. a \in Account
        BY LinesType DEF BalanceChecks
      <3>3. /\ t \in TxType
            /\ t.prev = tx[r].prev /\ t.rowLock = tx[r].rowLock /\ t.next = tx[r].next
            /\ t.pending = tx[r].pending /\ t.delta = tx[r].delta /\ t.limited = tx[r].limited
            /\ tx[r].locked \subseteq t.locked
        BY <1>a, <3>2 DEF TxType
      <3> HIDE DEF t
      <3>4. QED
        BY <2>0, <2>3, <3>1, <3>3 DEF Goto, Advance
    <2>4. QED
      BY <2>1, <2>2, <2>3
  <1>4. ASSUME NEW r \in Request, CheckLimit(r) PROVE Restart(r) \/ Advance(r)
    <2>0. pc[r] = "limit" /\ UNCHANGED <<ledger, bal>>
      BY <1>4 DEF CheckLimit
    <2>1. PICK c \in Journal[r].limits :
            \/ /\ assertWithinLimits(c, Journal[r].type)
               /\ tx' = [tx EXCEPT ![r].limited = @ \cup {c}] /\ Goto(r, Phase(r, tx'[r]))
            \/ LeaveLoop(r) /\ Goto(r, "rejected")
      BY <1>4 DEF CheckLimit
    <2>2. CASE LeaveLoop(r) /\ Goto(r, "rejected")
      BY <2>0, <2>2 DEF LeaveLoop, EndTx, Goto, Restart, TxStates, States, Outcomes
    <2>3. CASE /\ assertWithinLimits(c, Journal[r].type)
               /\ tx' = [tx EXCEPT ![r].limited = @ \cup {c}] /\ Goto(r, Phase(r, tx'[r]))
      <3> DEFINE t == [tx[r] EXCEPT !.limited = @ \cup {c}]
      <3>1. tx' = [tx EXCEPT ![r] = t] /\ tx'[r] = t
        BY <1>a, <2>3
      <3>2. c \in [account : Account, amount : Int]
        BY LinesType DEF JournalType
      <3>3. /\ t \in TxType
            /\ t.prev = tx[r].prev /\ t.rowLock = tx[r].rowLock /\ t.next = tx[r].next
            /\ t.pending = tx[r].pending /\ t.delta = tx[r].delta
            /\ t.limited = tx[r].limited \cup {c}
            /\ tx[r].locked \subseteq t.locked
        BY <1>a, <3>2 DEF TxType
      <3> HIDE DEF t
      <3>4. QED
        BY <2>0, <2>3, <3>1, <3>3 DEF Goto, Advance
    <2>4. QED
      BY <2>1, <2>2, <2>3
  <1>5. ASSUME NEW r \in Request, ReadTail(r) \/ LockTail(r) PROVE TailStep(r)
    BY <1>5 DEF ReadTail, LockTail, TailStep, Goto
  <1>6. ASSUME NEW r \in Request, InsertEntry(r) PROVE Insertion(r)
    <2>1. tx[r].next \in DOMAIN Lines(r)
      BY <1>6 DEF InsertEntry, TypeInv, TxShape
    <2>2. \A y \in AllRows : y.at \in Int
      BY <1>a DEF AllRows, TypeInv, TypeOK, TxType, RowType
    <2>3. PICK n \in {0} \cup {y.at : y \in AllRows} :
            /\ \A y \in AllRows : y.at <= n
            /\ tx' = [tx EXCEPT ![r].pending = @ \cup {NewRow(r, n + 1)},
                             ![r].delta[NewRow(r, n + 1).account] =
                                @ + Signed(NewRow(r, n + 1).entryType, NewRow(r, n + 1).amount),
                             ![r].prev = NewRow(r, n + 1).id,
                             ![r].next = @ + 1]
      BY <1>6 DEF InsertEntry
    <2>n. n \in Int /\ n + 1 \in Int /\ \A y \in AllRows : y.at < n + 1
      BY <2>2, <2>3
    <2> DEFINE x == NewRow(r, n + 1)
    <2>4. x \in RowType
      BY <2>1, <2>n, NewRowType DEF TypeInv
    <2>5. x.account \in Account /\ x.id \in RowId /\ Signed(x.entryType, x.amount) \in Int
      BY <2>4 DEF RowType, Signed
    <2>6. \E at \in Int : x = NewRow(r, at) /\ \A y \in AllRows : y.at < at
      BY <2>n
    <2> HIDE DEF x
    <2> DEFINE d == [tx[r].delta EXCEPT ![x.account] = @ + Signed(x.entryType, x.amount)]
               t == [tx[r] EXCEPT !.pending = @ \cup {x}, !.delta = d, !.prev = x.id, !.next = @ + 1]
    <2>7. tx' = [tx EXCEPT ![r] = t]
      BY <2>3 DEF x
    <2>8. d \in [Account -> Int]
      BY <1>a, <2>5 DEF TxType
    <2> HIDE DEF d
    <2>p. tx[r].pending \cup {x} \in SUBSET RowType /\ tx[r].next + 1 \in Nat
      BY <1>a, <2>4 DEF TxType
    <2>9. /\ t \in TxType
          /\ t.pending = tx[r].pending \cup {x} /\ t.delta = d
          /\ t.prev = x.id /\ t.next = tx[r].next + 1
          /\ t.rowLock = tx[r].rowLock /\ t.locked = tx[r].locked /\ t.limited = tx[r].limited
      BY <1>a, <2>p, <2>5, <2>8 DEF TxType
    <2> HIDE DEF t
    <2>10. pc[r] = "insert" /\ UNCHANGED <<ledger, bal>>
           /\ pc' = [pc EXCEPT ![r] = IF tx[r].next = Len(Lines(r)) THEN "commit" ELSE "insert"]
      BY <1>6 DEF InsertEntry, Goto
    <2>11. QED
      BY <2>4, <2>6, <2>7, <2>9, <2>10 DEF Insertion, d
  <1>7. ASSUME NEW r \in Request, Commit(r) \/ CommitUnacknowledged(r) PROVE Publication(r)
    BY <1>7 DEF Commit, CommitUnacknowledged, Publish, LeaveLoop, EndTx, Goto, Publication
  <1>8. ASSUME NEW r \in Request, DeriveSnapshot(r) PROVE UNCHANGED <<pc, tx, ledger, bal>>
    BY <1>8 DEF DeriveSnapshot
  <1>9. ASSUME NEW r \in Request, CreateSnapshot(r) \/ SnapshotFail(r) PROVE AfterCommit(r)
    BY <1>9 DEF CreateSnapshot, SnapshotFail, Goto, AfterCommit
  <1>10. ASSUME NEW r \in Request, Conflict(r) PROVE Restart(r)
    BY <1>10, <1>b, <1>p DEF Conflict, EndTx, Goto, Restart
  <1>11. ASSUME NEW r \in Request, Fail(r) PROVE Restart(r)
    BY <1>11 DEF Fail, LeaveLoop, EndTx, Goto, Restart, States, Outcomes
  <1>12. CASE UNCHANGED vars
    BY <1>12 DEF vars
  <1>13. QED
    BY <1>1, <1>2, <1>3, <1>4, <1>5, <1>6, <1>7, <1>8, <1>9, <1>10, <1>11, <1>12
    DEF Next, Step, Fault, AllReturned

-----------------------------------------------------------------------------
(* A journal is stored whole.                                              *)

\* x is line i of the journal of r as insertEntry() stores it, chained from p.
StoredLine(r, i, p, x) ==
  /\ x.id = <<r, i>>
  /\ x.account = Lines(r)[i].account /\ x.entryType = Lines(r)[i].entryType
  /\ x.amount = toFixed(Lines(r)[i].amount)
  /\ x.type = Journal[r].type /\ x.inside = Journal[r].inside
  /\ x.prev = p

\* The rows are the first n lines of r, one row each, in the order they were
\* inserted, each chained from the one before and the first from tail.
IsJournal(r, rows, n, tail) ==
  /\ \A x \in rows : \E i \in 1 .. n :
       StoredLine(r, i, IF i = 1 THEN tail ELSE <<r, i - 1>>, x)
  /\ \A i \in 1 .. n : \E x \in rows : x.id = <<r, i>>
  /\ \A x, y \in rows : /\ x.id = y.id => x = y
                        /\ x.id[2] < y.id[2] => x.at < y.at

\* The uncommitted rows of r are the lines inserted so far; what it will chain
\* the next line from; nothing is missing when it commits.
Building(r) ==
  /\ IsJournal(r, tx[r].pending, tx[r].next - 1, tx[r].rowLock)
  /\ pc[r] = "insert" =>
       tx[r].prev = IF tx[r].next = 1 THEN tx[r].rowLock ELSE <<r, tx[r].next - 1>>
  /\ pc[r] = "commit" => tx[r].next = Len(Lines(r)) + 1

\* The committed rows of r are a whole valid journal or nothing, as its
\* position says.
Settled(r) ==
  /\ Posted(r) => Valid(r) /\ \E tail : IsJournal(r, RowsOf(r), Len(Lines(r)), tail)
  /\ pc[r] \in {"snapshot", "done"} => Posted(r)
  /\ pc[r] \in TxStates \cup {"validate", "rejected"} => ~Posted(r)

JournalInv ==
  /\ OpeningRows \subseteq ledger
  /\ \A x \in ledger \ OpeningRows : x.id[1] \in Request
  /\ \A r \in Request : Building(r) /\ Settled(r)

\* A transaction without rows.
LEMMA NoRows ==
  ASSUME NEW r, NEW rows, NEW tail
  PROVE  IsJournal(r, rows, 0, tail) <=> rows = {}
  BY DEF IsJournal

\* Every row of a journal has the identity of one of its lines.
LEMMA JournalIds ==
  ASSUME NEW r, NEW rows, NEW n, NEW tail, IsJournal(r, rows, n, tail)
  PROVE  /\ \A x \in rows : \E i \in 1 .. n : x.id = <<r, i>>
         /\ \A x \in rows : x.id[1] = r /\ x.id[2] \in 1 .. n
         /\ {x.id : x \in rows} = {r} \X (1 .. n)
  <1>1. ASSUME NEW x \in rows PROVE \E i \in 1 .. n : x.id = <<r, i>>
    <2>1. PICK i \in 1 .. n : StoredLine(r, i, IF i = 1 THEN tail ELSE <<r, i - 1>>, x)
      BY DEF IsJournal
    <2>2. QED
      BY <2>1 DEF StoredLine
  <1>2. \A i \in 1 .. n : \E x \in rows : x.id = <<r, i>>
    BY DEF IsJournal
  <1>3. QED
    BY <1>1, <1>2

\* One more line.
LEMMA OneMoreLine ==
  ASSUME NEW r, NEW rows, NEW n \in Nat, NEW tail, NEW x,
         IsJournal(r, rows, n, tail),
         StoredLine(r, n + 1, IF n + 1 = 1 THEN tail ELSE <<r, n>>, x),
         \A y \in rows : y.at < x.at
  PROVE  IsJournal(r, rows \cup {x}, n + 1, tail)
  <1> DEFINE R == rows \cup {x}
  <1>0. \A i \in 1 .. n + 1 : i \in 1 .. n \/ i = n + 1
    OBVIOUS
  <1>1. \A y \in rows : \E i \in 1 .. n : /\ StoredLine(r, i, IF i = 1 THEN tail ELSE <<r, i - 1>>, y)
                                         /\ y.id = <<r, i>>
    BY DEF IsJournal, StoredLine
  <1>2. x.id = <<r, n + 1>> /\ StoredLine(r, n + 1, IF n + 1 = 1 THEN tail ELSE <<r, (n + 1) - 1>>, x)
    BY DEF StoredLine
  <1>3. ASSUME NEW y \in R
        PROVE  \E i \in 1 .. n + 1 : StoredLine(r, i, IF i = 1 THEN tail ELSE <<r, i - 1>>, y)
    <2>1. CASE y \in rows
      <3>1. PICK i \in 1 .. n : StoredLine(r, i, IF i = 1 THEN tail ELSE <<r, i - 1>>, y)
        BY <1>1, <2>1
      <3>2. QED
        BY <3>1
    <2>2. CASE y = x
      <3>1. n + 1 \in 1 .. n + 1
        OBVIOUS
      <3>2. QED
        BY <1>2, <2>2, <3>1
    <2>3. QED
      BY <2>1, <2>2
  <1>4. \A i \in 1 .. n + 1 : \E y \in R : y.id = <<r, i>>
    BY <1>0, <1>2 DEF IsJournal
  <1>5. \A y \in rows : y.id # x.id /\ y.id[2] < x.id[2]
    <2> SUFFICES ASSUME NEW y \in rows PROVE y.id # x.id /\ y.id[2] < x.id[2]
      OBVIOUS
    <2>1. PICK i \in 1 .. n : y.id = <<r, i>>
      BY <1>1
    <2>2. QED
      BY <1>2, <2>1
  <1>6. ASSUME NEW y \in R, NEW z \in R
        PROVE  (y.id = z.id => y = z) /\ (y.id[2] < z.id[2] => y.at < z.at)
    <2>1. CASE y \in rows /\ z \in rows
      BY <2>1 DEF IsJournal
    <2>2. CASE y = x /\ z = x
      BY <1>2, <2>2
    <2>3. CASE y \in rows /\ z = x
      BY <1>5, <2>3
    <2>4. CASE y = x /\ z \in rows
      <3>1. PICK i \in 1 .. n : z.id = <<r, i>>
        BY <1>1, <2>4
      <3>2. y.id[2] = n + 1 /\ z.id[2] = i
        BY <1>2, <2>4, <3>1
      <3>3. QED
        BY <1>5, <2>4, <3>2
    <2>5. QED
      BY <2>1, <2>2, <2>3, <2>4
  <1> HIDE DEF R
  <1>7. IsJournal(r, R, n + 1, tail)
    BY <1>3, <1>4, <1>6 DEF IsJournal
  <1>8. QED
    BY <1>7 DEF R

\* Before the first call every journal is still to be posted.
LEMMA JournalInit == Init => JournalInv
  <1> SUFFICES ASSUME Init PROVE JournalInv
    OBVIOUS
  <1>1. \A r \in Request : pc[r] = "validate" /\ tx[r] = NoTx /\ ledger = OpeningRows
    BY DEF Init
  <1>2. NoTx.pending = {} /\ NoTx.next - 1 = 0
    BY DEF NoTx
  <1>3. \A r \in Request : RowsOf(r) = {}
    BY <1>1, OpeningAssumption DEF RowsOf
  <1>4. \A r \in Request : Building(r)
    BY <1>1, <1>2, NoRows DEF Building
  <1>5. \A r \in Request : Settled(r)
    BY <1>1, <1>3 DEF Settled, Posted
  <1>6. QED
    BY <1>1, <1>4, <1>5 DEF Init, JournalInv

\* What a request's own facts depend on.
LEMMA JournalFrame ==
  ASSUME NEW q \in Request, pc'[q] = pc[q], tx'[q] = tx[q], RowsOf(q)' = RowsOf(q),
         Building(q), Settled(q)
  PROVE  Building(q)' /\ Settled(q)'
  BY DEF Building, Settled, Posted

\* Every statement keeps the stored journals whole.
LEMMA JournalNext == TypeInv /\ SafeInv /\ JournalInv /\ [Next]_vars => JournalInv'
  <1> SUFFICES ASSUME TypeInv, SafeInv, JournalInv, [Next]_vars PROVE JournalInv'
    OBVIOUS
  <1>a. /\ tx \in [Request -> TxType] /\ pc \in [Request -> States]
        /\ \A r \in Request : pc[r] \notin TxStates => tx[r] = NoTx
        /\ \A r \in Request : pc[r] \in TxStates \ {"insert", "commit"} => tx[r].next = 1
        /\ \A r \in Request : pc[r] = "insert" => tx[r].next \in DOMAIN Lines(r)
    BY DEF TypeInv, TypeOK, TxShape
  <1>b. \A r \in Request : Building(r) /\ Settled(r)
    BY DEF JournalInv
  <1>n. NoTx.pending = {} /\ NoTx.next - 1 = 0
    BY DEF NoTx
  <1>o. ASSUME NEW r \in Request, ledger' = ledger,
               \A q \in Request \ {r} : pc'[q] = pc[q] /\ tx'[q] = tx[q],
               Building(r)', Settled(r)'
        PROVE  JournalInv'
    <2>1. \A q \in Request : RowsOf(q)' = RowsOf(q)
      BY <1>o DEF RowsOf
    <2>2. \A q \in Request \ {r} : Building(q)' /\ Settled(q)'
      BY <1>b, <1>o, <2>1, JournalFrame
    <2>3. QED
      BY <1>o, <2>2 DEF JournalInv
  <1>1. ASSUME NEW r \in Request, Restart(r) PROVE JournalInv'
    <2>1. /\ tx'[r] = NoTx /\ ledger' = ledger /\ pc[r] \in TxStates \cup {"validate"}
          /\ \A q \in Request \ {r} : pc'[q] = pc[q] /\ tx'[q] = tx[q]
      BY <1>1, <1>a DEF Restart
    <2>2. pc'[r] \in {"lock", "check", "limit", "tail", "rejected", "error"}
      BY <1>1, <1>a, PhaseType DEF Restart
    <2>3. ~Posted(r) /\ Posted(r)' = Posted(r)
      BY <1>b, <2>1 DEF Settled, Posted, RowsOf
    <2>4. Building(r)'
      BY <1>n, <2>1, <2>2, NoRows DEF Building
    <2>5. Settled(r)'
      BY <2>2, <2>3 DEF Settled
    <2>6. QED
      BY <1>o, <2>1, <2>4, <2>5
  <1>2. ASSUME NEW r \in Request, Advance(r) PROVE JournalInv'
    <2>1. /\ tx'[r].rowLock = tx[r].rowLock /\ tx'[r].pending = tx[r].pending
          /\ tx'[r].next = tx[r].next /\ ledger' = ledger
          /\ \A q \in Request \ {r} : pc'[q] = pc[q] /\ tx'[q] = tx[q]
      BY <1>2, <1>a DEF Advance
    <2>2. /\ pc'[r] \in {"lock", "check", "limit", "tail"} /\ pc[r] \in TxStates
      BY <1>2, <1>a, PhaseType DEF Advance, TxStates
    <2>3. ~Posted(r) /\ Posted(r)' = Posted(r)
      BY <1>b, <2>1, <2>2 DEF Settled, Posted, RowsOf
    <2>4. Building(r)'
      BY <1>b, <2>1, <2>2 DEF Building
    <2>5. Settled(r)'
      BY <2>2, <2>3 DEF Settled
    <2>6. QED
      BY <1>o, <2>1, <2>4, <2>5
  <1>3. ASSUME NEW r \in Request, TailStep(r) PROVE JournalInv'
    <2>1. /\ tx'[r].pending = tx[r].pending /\ tx'[r].next = tx[r].next /\ ledger' = ledger
          /\ \A q \in Request \ {r} : pc'[q] = pc[q] /\ tx'[q] = tx[q]
      BY <1>3, <1>a DEF TailStep, TxType
    <2>2. pc[r] \in {"tail", "tailWait"} /\ pc'[r] \in {"tailWait", "insert"}
      BY <1>3, <1>a DEF TailStep
    <2>3. tx[r].next = 1 /\ pc[r] \in TxStates
      BY <1>a, <2>2 DEF TxStates
    <2>4. pc'[r] = "insert" => tx'[r].prev = tx'[r].rowLock
      BY <1>3, <1>a DEF TailStep, TxType
    <2>5. ~Posted(r) /\ Posted(r)' = Posted(r)
      BY <1>b, <2>1, <2>3 DEF Settled, Posted, RowsOf
    <2>6. tx[r].pending = {}
      <3>1. IsJournal(r, tx[r].pending, tx[r].next - 1, tx[r].rowLock)
        BY <1>b DEF Building
      <3>2. tx[r].next - 1 = 0
        BY <2>3
      <3>3. QED
        BY <3>1, <3>2, NoRows
    <2>7. Building(r)'
      BY <2>1, <2>2, <2>3, <2>4, <2>6, NoRows DEF Building
    <2>8. Settled(r)'
      BY <2>2, <2>5 DEF Settled
    <2>9. QED
      BY <1>o, <2>1, <2>7, <2>8
  <1>4. ASSUME NEW r \in Request, Insertion(r) PROVE JournalInv'
    <2>1. PICK x \in RowType, at \in Int :
            /\ x = NewRow(r, at) /\ \A y \in AllRows : y.at < at
            /\ tx'[r].pending = tx[r].pending \cup {x}
            /\ tx'[r].prev = x.id /\ tx'[r].next = tx[r].next + 1
            /\ tx'[r].rowLock = tx[r].rowLock
      BY <1>4, <1>a DEF Insertion
    <2>2. /\ ledger' = ledger /\ pc[r] = "insert"
          /\ pc'[r] = IF tx[r].next = Len(Lines(r)) THEN "commit" ELSE "insert"
          /\ \A q \in Request \ {r} : pc'[q] = pc[q] /\ tx'[q] = tx[q]
      BY <1>4, <1>a DEF Insertion
    <2> DEFINE n == tx[r].next - 1
    <2>3. n \in Nat /\ n + 1 = tx[r].next /\ n + 1 \in DOMAIN Lines(r) /\ tx[r].next \in Nat
      BY <1>a, <2>2, LinesType DEF TxType
    <2>4. StoredLine(r, n + 1, IF n + 1 = 1 THEN tx[r].rowLock ELSE <<r, n>>, x)
      BY <1>b, <2>1, <2>2, <2>3 DEF StoredLine, NewRow, Building
    <2>5. \A y \in tx[r].pending : y.at < x.at
      BY <2>1 DEF AllRows, NewRow
    <2>6. IsJournal(r, tx[r].pending, n, tx[r].rowLock)
      BY <1>b DEF Building
    <2>m. x.id = <<r, n + 1>>
      BY <2>4 DEF StoredLine
    <2> HIDE DEF n
    <2>7. IsJournal(r, tx[r].pending \cup {x}, n + 1, tx[r].rowLock)
      BY <2>3, <2>4, <2>5, <2>6, OneMoreLine
    <2>8. tx'[r].next - 1 = n + 1 /\ tx'[r].next # 1
      BY <2>1, <2>3
    <2>9. pc'[r] = "commit" => tx'[r].next = Len(Lines(r)) + 1
      BY <2>1, <2>2
    <2>10. Building(r)'
      BY <2>1, <2>m, <2>7, <2>8, <2>9 DEF Building
    <2>11. ~Posted(r) /\ Posted(r)' = Posted(r)
      BY <1>b, <2>2 DEF Settled, Posted, RowsOf, TxStates
    <2>12. Settled(r)'
      BY <2>2, <2>11 DEF Settled
    <2>13. QED
      BY <1>o, <2>2, <2>10, <2>12
  <1>5. ASSUME NEW r \in Request, Publication(r) PROVE JournalInv'
    <2>1. /\ ledger' = ledger \cup tx[r].pending /\ tx'[r] = NoTx
          /\ pc[r] = "commit" /\ pc'[r] \in {"snapshot", "error"}
          /\ \A q \in Request \ {r} : pc'[q] = pc[q] /\ tx'[q] = tx[q]
      BY <1>5, <1>a DEF Publication
    <2>2. IsJournal(r, tx[r].pending, Len(Lines(r)), tx[r].rowLock)
      <3>1. IsJournal(r, tx[r].pending, tx[r].next - 1, tx[r].rowLock)
        BY <1>b DEF Building
      <3>2. tx[r].next = Len(Lines(r)) + 1
        BY <1>b, <2>1 DEF Building
      <3>3. tx[r].next - 1 = Len(Lines(r))
        BY <3>2, LinesType
      <3>4. QED
        BY <3>1, <3>3
    <2>3. \A x \in tx[r].pending : x.id[1] = r
      BY <2>2, JournalIds
    <2>4. RowsOf(r) = {}
      BY <1>b, <2>1 DEF Settled, Posted, TxStates
    <2>5. RowsOf(r)' = tx[r].pending
      BY <2>1, <2>3, <2>4 DEF RowsOf
    <2>6. \A q \in Request \ {r} : RowsOf(q)' = RowsOf(q)
      BY <2>1, <2>3 DEF RowsOf
    <2>7. tx[r].pending # {}
      BY <2>2, LinesType DEF IsJournal
    <2>8. Valid(r)
      BY <2>1 DEF SafeInv, Discipline, TxStates
    <2>9. Settled(r)'
      BY <2>1, <2>2, <2>5, <2>7, <2>8 DEF Settled, Posted, TxStates
    <2>10. Building(r)'
      BY <1>n, <2>1, NoRows DEF Building
    <2>11. \A q \in Request \ {r} : Building(q)' /\ Settled(q)'
      BY <1>b, <2>1, <2>6, JournalFrame
    <2>12. \A x \in ledger' \ OpeningRows : x.id[1] \in Request
      BY <2>1, <2>3 DEF JournalInv
    <2>13. QED
      BY <2>1, <2>9, <2>10, <2>11, <2>12 DEF JournalInv
  <1>6. ASSUME NEW r \in Request, AfterCommit(r) PROVE JournalInv'
    <2>1. /\ pc[r] = "snapshot" /\ pc'[r] \in {"snapshot", "done", "error"}
          /\ \A q \in Request \ {r} : pc'[q] = pc[q]
          /\ UNCHANGED <<tx, ledger>>
      BY <1>6, <1>a DEF AfterCommit
    <2>2. Posted(r) /\ RowsOf(r)' = RowsOf(r)
      BY <1>b, <2>1 DEF Settled, RowsOf
    <2>3. Building(r)'
      BY <1>b, <2>1 DEF Building
    <2>4. Settled(r)'
      BY <1>b, <2>1, <2>2 DEF Settled, Posted, TxStates
    <2>5. QED
      BY <1>o, <2>1, <2>3, <2>4
  <1>7. CASE UNCHANGED <<pc, tx, ledger, bal>>
    BY <1>7 DEF JournalInv, Building, Settled, Posted, RowsOf
  <1>8. QED
    BY <1>1, <1>2, <1>3, <1>4, <1>5, <1>6, <1>7, StepShape

\* The journal as a function from its lines to its rows.
RowFn(r, rows, n) == [i \in 1 .. n |-> CHOOSE x \in rows : x.id = <<r, i>>]

\* Lines and rows correspond one to one.
LEMMA RowFunction ==
  ASSUME NEW r, NEW rows, NEW n \in Nat, NEW tail, IsJournal(r, rows, n, tail), NEW f,
         f = RowFn(r, rows, n)
  PROVE  /\ f \in [1 .. n -> rows]
         /\ \A i \in 1 .. n : StoredLine(r, i, IF i = 1 THEN tail ELSE <<r, i - 1>>, f[i])
         /\ \A i, j \in 1 .. n : f[i] = f[j] => i = j
         /\ \A x \in rows : \E i \in 1 .. n : x = f[i] /\ x.id[2] = i
  <1>1. ASSUME NEW i \in 1 .. n PROVE f[i] \in rows /\ f[i].id = <<r, i>>
    <2>1. \E x \in rows : x.id = <<r, i>>
      BY DEF IsJournal
    <2>2. f[i] = CHOOSE x \in rows : x.id = <<r, i>>
      BY DEF RowFn
    <2>3. QED
      BY <2>1, <2>2
  <1>2. f \in [1 .. n -> rows]
    BY <1>1 DEF RowFn
  <1>3. ASSUME NEW i \in 1 .. n
        PROVE  StoredLine(r, i, IF i = 1 THEN tail ELSE <<r, i - 1>>, f[i])
    <2>1. PICK j \in 1 .. n : StoredLine(r, j, IF j = 1 THEN tail ELSE <<r, j - 1>>, f[i])
      BY <1>1 DEF IsJournal
    <2>2. <<r, j>> = <<r, i>>
      BY <1>1, <2>1 DEF StoredLine
    <2>3. QED
      BY <2>1, <2>2
  <1>4. ASSUME NEW i \in 1 .. n, NEW j \in 1 .. n, f[i] = f[j] PROVE i = j
    <2>1. <<r, j>> = <<r, i>>
      BY <1>1, <1>4
    <2>2. QED
      BY <2>1
  <1>5. ASSUME NEW x \in rows PROVE \E i \in 1 .. n : x = f[i] /\ x.id[2] = i
    <2>1. PICK i \in 1 .. n : x.id = <<r, i>>
      BY JournalIds
    <2>2. f[i].id = x.id /\ f[i] \in rows
      BY <1>1, <2>1
    <2>3. f[i] = x
      BY <2>2 DEF IsJournal
    <2>4. QED
      BY <2>1, <2>3
  <1>6. QED
    BY <1>2, <1>3, <1>4, <1>5

\* A journal has as many rows as lines.
LEMMA JournalCount ==
  ASSUME NEW r, NEW rows, NEW n \in Nat, NEW tail, IsJournal(r, rows, n, tail)
  PROVE  IsFiniteSet(rows) /\ Cardinality(rows) = n
  <1> DEFINE f == RowFn(r, rows, n)
  <1>1. /\ f \in [1 .. n -> rows]
        /\ \A i, j \in 1 .. n : f[i] = f[j] => i = j
        /\ \A x \in rows : \E i \in 1 .. n : x = f[i]
    BY RowFunction
  <1> HIDE DEF f
  <1>2. f \in Bijection(1 .. n, rows)
    BY <1>1 DEF Bijection, Injection, Surjection, IsInjective
  <1>3. ExistsBijection(1 .. n, rows)
    BY <1>2 DEF ExistsBijection
  <1>4. QED
    BY <1>3, FS_CountingElements, FS_NatBijection

\* The inductive invariant of the stored journals.
LEMMA JournalAlways == Spec => [](TypeInv /\ SafeInv /\ JournalInv)
  <1>1. Init => JournalInv
    BY JournalInit
  <1>2. TypeInv /\ SafeInv /\ JournalInv /\ [Next]_vars => JournalInv'
    BY JournalNext
  <1>3. QED
    BY <1>1, <1>2, SafeAlways, PTL DEF Spec

\* No partial journal entries can exist: whatever fails, conflicts or loses
\* its acknowledgement, a journal is in the ledger with exactly one row per
\* line, chained in order, or not at all, and the caller's answer is honest.
THEOREM JournalsAreWhole == Spec => []AllOrNothing
  <1>1. ASSUME JournalInv PROVE AllOrNothing
    <2> SUFFICES ASSUME NEW r \in Request, Posted(r)
                 PROVE  /\ {x.id[2] : x \in RowsOf(r)} = DOMAIN Lines(r)
                        /\ Cardinality(RowsOf(r)) = Len(Lines(r))
                        /\ \A x \in RowsOf(r) : x.id[2] > 1 => x.prev = <<r, x.id[2] - 1>>
      BY <1>1 DEF AllOrNothing, JournalInv, Settled
    <2> DEFINE n == Len(Lines(r))
               f == RowFn(r, RowsOf(r), n)
    <2>1. PICK tail : IsJournal(r, RowsOf(r), n, tail)
      BY <1>1 DEF JournalInv, Settled
    <2>2. n \in Nat /\ DOMAIN Lines(r) = 1 .. n
      BY LinesType
    <2>3. /\ f \in [1 .. n -> RowsOf(r)]
          /\ \A i \in 1 .. n : StoredLine(r, i, IF i = 1 THEN tail ELSE <<r, i - 1>>, f[i])
          /\ \A x \in RowsOf(r) : \E i \in 1 .. n : x = f[i] /\ x.id[2] = i
      BY <2>1, <2>2, RowFunction
    <2>4. Cardinality(RowsOf(r)) = n
      BY <2>1, <2>2, JournalCount
    <2> HIDE DEF n, f
    <2>5. ASSUME NEW i \in 1 .. n PROVE f[i].id[2] = i /\ f[i] \in RowsOf(r)
      <3>1. f[i].id = <<r, i>>
        BY <2>3 DEF StoredLine
      <3>2. QED
        BY <2>3, <3>1
    <2>6. {x.id[2] : x \in RowsOf(r)} = 1 .. n
      BY <2>3, <2>5
    <2>7. ASSUME NEW x \in RowsOf(r), x.id[2] > 1 PROVE x.prev = <<r, x.id[2] - 1>>
      <3>1. PICK i \in 1 .. n : x = f[i] /\ x.id[2] = i
        BY <2>3
      <3>2. i # 1
        BY <2>2, <2>7, <3>1
      <3>3. QED
        BY <2>3, <3>1, <3>2 DEF StoredLine
    <2>8. QED
      BY <2>2, <2>4, <2>6, <2>7 DEF n
  <1>2. QED
    BY <1>1, JournalAlways, PTL

\* The ledger is append-only, and each step that changes it adds the rows of
\* exactly one whole journal: what COMMIT publishes and ROLLBACK never does.
THEOREM CommitsAreWholeJournals == Spec => OneJournalPerCommit
  <1> DEFINE A == /\ ledger \subseteq ledger'
                  /\ \E r \in Request : {x.id : x \in ledger' \ ledger} = {r} \X DOMAIN Lines(r)
  <1>1. ASSUME TypeInv, SafeInv, JournalInv, [Next]_vars PROVE [A]_ledger
    <2>1. ASSUME NEW r \in Request, Publication(r) PROVE A
      <3>1. ledger' = ledger \cup tx[r].pending /\ pc[r] = "commit"
        BY <2>1 DEF Publication
      <3>2. Building(r) /\ Settled(r)
        BY <1>1 DEF JournalInv
      <3>3. tx[r].next - 1 = Len(Lines(r)) /\ DOMAIN Lines(r) = 1 .. Len(Lines(r))
        BY <3>1, <3>2, LinesType DEF Building
      <3>4. IsJournal(r, tx[r].pending, Len(Lines(r)), tx[r].rowLock)
        BY <3>2, <3>3 DEF Building
      <3>5. /\ \A x \in tx[r].pending : x.id[1] = r
            /\ {x.id : x \in tx[r].pending} = {r} \X DOMAIN Lines(r)
        BY <3>3, <3>4, JournalIds
      <3>6. RowsOf(r) = {}
        BY <3>1, <3>2 DEF Settled, Posted, TxStates
      <3>7. ledger' \ ledger = tx[r].pending
        BY <3>1, <3>5, <3>6 DEF RowsOf
      <3>8. QED
        BY <3>1, <3>5, <3>7
    <2>2. ASSUME NEW r \in Request,
                 \/ Restart(r) \/ Advance(r) \/ TailStep(r) \/ Insertion(r) \/ AfterCommit(r)
          PROVE  ledger' = ledger
      BY <2>2 DEF Restart, Advance, TailStep, Insertion, AfterCommit
    <2>3. QED
      BY <1>1, <2>1, <2>2, StepShape
  <1>2. QED
    BY <1>1, JournalAlways, PTL DEF Spec, OneJournalPerCommit

-----------------------------------------------------------------------------
(* The hash chain.                                                         *)

\* The statements that follow the read of the tail, and the row it returned.
Chained == {"tailWait", "insert", "commit"}
TailRead(r) == IF pc[r] = "tailWait" THEN tx[r].prev ELSE tx[r].rowLock

SharesLock(p, q) ==
  {LockKey[a] : a \in LockAccounts(p)} \cap {LockKey[a] : a \in LockAccounts(q)} # {}

\* The tail r has read is committed and older than the rows it inserts, and
\* no row of a journal that shares a lock with r is later than the tail:
\* while r holds its locks such a journal cannot commit.
TailKnown(r) ==
  pc[r] \in Chained =>
    /\ TailRead(r) = Genesis \/ \E y \in ledger : y.id = TailRead(r) /\ \A x \in tx[r].pending : y.at < x.at
    /\ \A x \in ledger \ OpeningRows :
         SharesLock(x.id[1], r) => \E y \in ledger : y.id = TailRead(r) /\ x.at <= y.at

ChainInv ==
  /\ ChainLinksBack
  /\ ForkOnlyWithoutSharedLock
  /\ \A r \in Request : TailKnown(r)

\* A row is known by its identity, and none is the genesis hash.
LEMMA LedgerIds ==
  ASSUME JournalInv
  PROVE  \A x \in ledger : x.id # Genesis /\ \A y \in ledger : x.id = y.id => x = y
  <1>1. ASSUME NEW x \in ledger \ OpeningRows
        PROVE  /\ x.id[1] \in Request /\ x.id # Genesis
               /\ \A y \in ledger : x.id = y.id => x = y
    <2> DEFINE r == x.id[1]
    <2>1. r \in Request /\ x \in RowsOf(r)
      BY DEF JournalInv, RowsOf
    <2> HIDE DEF r
    <2>2. PICK tail : IsJournal(r, RowsOf(r), Len(Lines(r)), tail)
      BY <2>1 DEF JournalInv, Settled, Posted
    <2>3. PICK i \in 1 .. Len(Lines(r)) : x.id = <<r, i>>
      BY <2>1, <2>2, JournalIds
    <2>4. x.id # Genesis
      BY <2>3, LinesType DEF Genesis
    <2>5. ASSUME NEW y \in ledger, x.id = y.id PROVE x = y
      <3>1. y \in RowsOf(r)
        BY <2>3, <2>5 DEF RowsOf
      <3>2. QED
        BY <2>1, <2>2, <2>5, <3>1 DEF IsJournal
    <2>6. QED
      BY <2>1, <2>4, <2>5 DEF r
  <1>2. ASSUME NEW x \in OpeningRows
        PROVE  x.id # Genesis /\ \A y \in ledger : x.id = y.id => x = y
    <2>1. x.id # Genesis /\ x.id[1] \notin Request
      BY OpeningAssumption
    <2>2. ASSUME NEW y \in ledger, x.id = y.id PROVE x = y
      <3>1. y \in OpeningRows
        BY <1>1, <2>1, <2>2
      <3>2. QED
        BY <2>2, <3>1, OpeningAssumption
    <2>3. QED
      BY <2>1, <2>2
  <1>3. QED
    BY <1>1, <1>2

\* The opening rows are chained, and no call has read the tail yet.
LEMMA ChainInit == Init => ChainInv
  <1> SUFFICES ASSUME Init PROVE ChainInv
    OBVIOUS
  <1>1. ledger = OpeningRows /\ \A r \in Request : pc[r] \notin Chained
    BY DEF Init, Chained
  <1>2. ChainLinksBack
    BY <1>1, OpeningAssumption DEF ChainLinksBack
  <1>3. ForkOnlyWithoutSharedLock
    BY <1>1 DEF ForkOnlyWithoutSharedLock
  <1>4. QED
    BY <1>1, <1>2, <1>3 DEF ChainInv, TailKnown

\* Two requests that both run between their last lock and COMMIT share none.
LEMMA ChainedApart ==
  ASSUME SafeInv, NEW r \in Request, NEW q \in Request, r # q,
         pc[r] \in TxStates \ {"lock"}, pc[q] \in TxStates \ {"lock"}
  PROVE  ~SharesLock(r, q)
  <1>1. LockAccounts(r) \subseteq tx[r].locked /\ LockAccounts(q) \subseteq tx[q].locked
    BY DEF SafeInv, Discipline
  <1>2. \A a \in LockAccounts(r), b \in LockAccounts(q) : LockKey[a] # LockKey[b]
    BY <1>1 DEF SafeInv, LockExclusion
  <1>3. QED
    BY <1>2 DEF SharesLock

\* Every statement keeps the chain linked and its forks apart.
LEMMA ChainNext == TypeInv /\ SafeInv /\ JournalInv /\ ChainInv /\ [Next]_vars => ChainInv'
  <1> SUFFICES ASSUME TypeInv, SafeInv, JournalInv, ChainInv, [Next]_vars PROVE ChainInv'
    OBVIOUS
  <1>a. /\ tx \in [Request -> TxType] /\ pc \in [Request -> States] /\ ledger \subseteq RowType
        /\ \A r \in Request : pc[r] \in TxStates \ {"insert", "commit"} => tx[r].next = 1
    BY DEF TypeInv, TypeOK, TxShape
  <1>b. \A r \in Request : Building(r) /\ Settled(r)
    BY DEF JournalInv
  <1>c. \A r \in Request : TailKnown(r)
    BY DEF ChainInv
  <1>at. \A x \in ledger : x.at \in Int
    BY <1>a DEF RowType
  <1>o. ASSUME NEW r \in Request, ledger' = ledger,
               \A q \in Request \ {r} : pc'[q] = pc[q] /\ tx'[q] = tx[q],
               TailKnown(r)'
        PROVE  ChainInv'
    <2>1. \A q \in Request \ {r} : TailKnown(q)'
      BY <1>c, <1>o DEF TailKnown, TailRead
    <2>2. ChainLinksBack' /\ ForkOnlyWithoutSharedLock'
      BY <1>o DEF ChainInv, ChainLinksBack, ForkOnlyWithoutSharedLock
    <2>3. QED
      BY <1>o, <2>1, <2>2 DEF ChainInv
  <1>1. ASSUME NEW r \in Request, Restart(r) \/ Advance(r) PROVE ChainInv'
    <2>1. ledger' = ledger /\ \A q \in Request \ {r} : pc'[q] = pc[q] /\ tx'[q] = tx[q]
      BY <1>1, <1>a DEF Restart, Advance
    <2>2. pc'[r] \in {"lock", "check", "limit", "tail", "rejected", "error"}
      BY <1>1, <1>a, PhaseType DEF Restart, Advance
    <2>3. TailKnown(r)'
      BY <2>2 DEF TailKnown, Chained
    <2>4. QED
      BY <1>o, <2>1, <2>3
  <1>2. ASSUME NEW r \in Request, TailStep(r) PROVE ChainInv'
    <2>1. /\ tx'[r].pending = tx[r].pending /\ ledger' = ledger
          /\ \A q \in Request \ {r} : pc'[q] = pc[q] /\ tx'[q] = tx[q]
      BY <1>2, <1>a DEF TailStep, TxType
    <2>2. tx[r].next = 1
      BY <1>2, <1>a DEF TailStep, TxStates
    <2>3. tx[r].pending = {}
      <3>1. IsJournal(r, tx[r].pending, tx[r].next - 1, tx[r].rowLock)
        BY <1>b DEF Building
      <3>2. tx[r].next - 1 = 0
        BY <2>2
      <3>3. QED
        BY <3>1, <3>2, NoRows
    <2>4. CASE pc[r] = "tail"
      <3>1. PICK id \in Tails(ledger) : tx' = [tx EXCEPT ![r].prev = id] /\ pc'[r] = "tailWait"
        BY <1>2, <1>a, <2>4 DEF TailStep
      <3>2. TailRead(r)' = id
        BY <1>a, <3>1 DEF TailRead, TxType
      <3>3. CASE ledger = {}
        <4>1. id = Genesis
          BY <3>1, <3>3 DEF Tails
        <4>2. TailKnown(r)'
          BY <2>1, <3>2, <3>3, <4>1 DEF TailKnown
        <4>3. QED
          BY <1>o, <2>1, <4>2
      <3>4. CASE ledger # {}
        <4>1. PICK z \in ledger : z.id = id /\ \A y \in ledger : y.at <= z.at
          BY <3>1, <3>4 DEF Tails
        <4>2. TailKnown(r)'
          BY <2>1, <2>3, <3>2, <4>1 DEF TailKnown
        <4>3. QED
          BY <1>o, <2>1, <4>2
      <3>5. QED
        BY <3>3, <3>4
    <2>5. CASE pc[r] = "tailWait"
      <3>1. pc'[r] = "insert" /\ tx'[r].rowLock = tx[r].prev
        BY <1>2, <1>a, <2>5 DEF TailStep, TxType
      <3>2. TailRead(r)' = TailRead(r)
        BY <2>5, <3>1 DEF TailRead
      <3>3. TailKnown(r)'
        BY <1>c, <2>1, <2>5, <3>2 DEF TailKnown, Chained
      <3>4. QED
        BY <1>o, <2>1, <3>3
    <2>6. QED
      BY <1>2, <2>4, <2>5 DEF TailStep
  <1>3. ASSUME NEW r \in Request, Insertion(r) PROVE ChainInv'
    <2>1. PICK x \in RowType, at \in Int :
            /\ x = NewRow(r, at) /\ \A y \in AllRows : y.at < at
            /\ tx'[r].pending = tx[r].pending \cup {x}
            /\ tx'[r].rowLock = tx[r].rowLock
      BY <1>3, <1>a DEF Insertion
    <2>2. /\ ledger' = ledger /\ pc[r] = "insert" /\ pc'[r] \in {"insert", "commit"}
          /\ \A q \in Request \ {r} : pc'[q] = pc[q] /\ tx'[q] = tx[q]
      BY <1>3, <1>a DEF Insertion
    <2>3. \A y \in ledger : y.at < x.at
      BY <2>1 DEF AllRows, NewRow
    <2>4. TailRead(r)' = TailRead(r)
      BY <2>1, <2>2 DEF TailRead
    <2>5. TailKnown(r)'
      BY <1>c, <2>1, <2>2, <2>3, <2>4 DEF TailKnown, Chained
    <2>6. QED
      BY <1>o, <2>2, <2>5
  <1>4. ASSUME NEW r \in Request, Publication(r) PROVE ChainInv'
    <2>1. /\ ledger' = ledger \cup tx[r].pending /\ tx'[r] = NoTx
          /\ pc[r] = "commit" /\ pc'[r] \in {"snapshot", "error"}
          /\ \A q \in Request \ {r} : pc'[q] = pc[q] /\ tx'[q] = tx[q]
      BY <1>4, <1>a DEF Publication
    <2> DEFINE n == Len(Lines(r))
    <2>2. IsJournal(r, tx[r].pending, n, tx[r].rowLock) /\ n \in Nat
      <3>1. IsJournal(r, tx[r].pending, tx[r].next - 1, tx[r].rowLock)
        BY <1>b DEF Building
      <3>2. tx[r].next = n + 1
        BY <1>b, <2>1 DEF Building
      <3>3. tx[r].next - 1 = n /\ n \in Nat
        BY <3>2, LinesType
      <3>4. QED
        BY <3>1, <3>3
    <2> HIDE DEF n
    <2>3. \A x \in tx[r].pending : x.id[1] = r
      BY <2>2, JournalIds
    <2>4. RowsOf(r) = {}
      BY <1>b, <2>1 DEF Settled, Posted, TxStates
    <2>5. ASSUME NEW q \in Request PROVE TailKnown(q)'
      <3>1. CASE q = r
        BY <2>1, <3>1 DEF TailKnown, Chained
      <3>2. CASE q # r
        <4>1. pc'[q] = pc[q] /\ tx'[q] = tx[q] /\ TailRead(q)' = TailRead(q)
          BY <2>1, <3>2 DEF TailRead
        <4> SUFFICES ASSUME pc[q] \in Chained
                     PROVE  /\ TailRead(q) = Genesis \/ \E y \in ledger' : y.id = TailRead(q) /\ \A x \in tx[q].pending : y.at < x.at
                            /\ \A x \in ledger' \ OpeningRows :
                                 SharesLock(x.id[1], q) => \E y \in ledger' : y.id = TailRead(q) /\ x.at <= y.at
          BY <4>1 DEF TailKnown
        <4>2. ~SharesLock(r, q)
          BY <2>1, <3>2, ChainedApart DEF Chained, TxStates
        <4>3. QED
          BY <1>c, <2>1, <2>3, <4>2 DEF TailKnown
      <3>3. QED
        BY <3>1, <3>2
    <2>6. ASSUME NEW x \in ledger'
          PROVE  x.prev = Genesis \/ \E y \in ledger' : y.id = x.prev /\ y.at < x.at
      <3>1. CASE x \in ledger
        BY <2>1, <3>1 DEF ChainInv, ChainLinksBack
      <3>2. CASE x \in tx[r].pending
        <4>1. PICK i \in 1 .. n : StoredLine(r, i, IF i = 1 THEN tx[r].rowLock ELSE <<r, i - 1>>, x)
          BY <2>2, <3>2 DEF IsJournal
        <4>2. CASE i = 1
          <5>1. x.prev = TailRead(r)
            BY <2>1, <4>1, <4>2 DEF StoredLine, TailRead
          <5>2. QED
            BY <1>c, <2>1, <3>2, <5>1 DEF TailKnown, Chained
        <4>3. CASE i # 1
          <5>1. i - 1 \in 1 .. n /\ x.prev = <<r, i - 1>> /\ x.id = <<r, i>>
            BY <2>2, <4>1, <4>3 DEF StoredLine
          <5>2. PICK y \in tx[r].pending : y.id = <<r, i - 1>>
            BY <2>2, <5>1 DEF IsJournal
          <5>3. y.id[2] < x.id[2]
            BY <5>1, <5>2
          <5>4. y.at < x.at
            BY <2>2, <3>2, <5>3 DEF IsJournal
          <5>5. QED
            BY <2>1, <5>1, <5>2, <5>4
        <4>4. QED
          BY <4>2, <4>3
      <3>3. QED
        BY <2>1, <3>1, <3>2
    \* a row of r and an older row of a journal that shares a lock
    <2>7. ASSUME NEW x \in tx[r].pending, NEW y \in ledger \ OpeningRows,
                 x.prev = y.prev, SharesLock(y.id[1], r)
          PROVE  FALSE
      <3>1. PICK i \in 1 .. n : StoredLine(r, i, IF i = 1 THEN tx[r].rowLock ELSE <<r, i - 1>>, x)
        BY <2>2 DEF IsJournal
      <3>2. y.prev = Genesis \/ \E z \in ledger : z.id = y.prev /\ z.at < y.at
        BY DEF ChainInv, ChainLinksBack
      <3>3. CASE i = 1
        <4>1. x.prev = TailRead(r)
          BY <2>1, <3>1, <3>3 DEF StoredLine, TailRead
        <4>2. PICK z \in ledger : z.id = y.prev /\ y.at <= z.at
          BY <1>c, <2>1, <2>7, <4>1 DEF TailKnown, Chained
        <4>3. z.id # Genesis /\ \A w \in ledger : z.id = w.id => z = w
          BY <4>2, LedgerIds
        <4>4. z.at < y.at
          BY <3>2, <4>2, <4>3
        <4>5. QED
          BY <1>at, <4>2, <4>4
      <3>4. CASE i # 1
        <4>1. y.prev = <<r, i - 1>> /\ i - 1 # 0
          BY <2>2, <2>7, <3>1, <3>4 DEF StoredLine
        <4>2. y.prev # Genesis
          BY <4>1 DEF Genesis
        <4>3. PICK z \in ledger : z.id = <<r, i - 1>>
          BY <3>2, <4>1, <4>2
        <4>4. z \in RowsOf(r)
          BY <4>3 DEF RowsOf
        <4>5. QED
          BY <2>4, <4>4
      <3>5. QED
        BY <3>3, <3>4
    <2>8. ForkOnlyWithoutSharedLock'
      <3> SUFFICES ASSUME NEW x \in ledger' \ OpeningRows, NEW y \in ledger' \ OpeningRows,
                          x.prev = y.prev, x.id[1] # y.id[1]
                   PROVE  ~SharesLock(x.id[1], y.id[1])
        BY DEF ForkOnlyWithoutSharedLock, SharesLock
      <3>1. CASE x \in ledger /\ y \in ledger
        BY <3>1 DEF ChainInv, ForkOnlyWithoutSharedLock, SharesLock
      <3>2. CASE x \in tx[r].pending /\ y \in ledger
        <4>1. SharesLock(y.id[1], r) <=> SharesLock(r, y.id[1])
          BY DEF SharesLock
        <4>2. QED
          BY <2>3, <2>7, <3>2, <4>1
      <3>3. CASE x \in ledger /\ y \in tx[r].pending
        BY <2>3, <2>7, <3>3
      <3>4. CASE x \in tx[r].pending /\ y \in tx[r].pending
        BY <2>3, <3>4
      <3>5. QED
        BY <2>1, <3>1, <3>2, <3>3, <3>4
    <2>9. QED
      BY <2>5, <2>6, <2>8 DEF ChainInv, ChainLinksBack
  <1>5. ASSUME NEW r \in Request, AfterCommit(r) PROVE ChainInv'
    <2>1. /\ pc'[r] \in {"snapshot", "done", "error"} /\ UNCHANGED <<tx, ledger>>
          /\ \A q \in Request \ {r} : pc'[q] = pc[q]
      BY <1>5, <1>a DEF AfterCommit
    <2>2. TailKnown(r)'
      BY <2>1 DEF TailKnown, Chained
    <2>3. QED
      BY <1>o, <2>1, <2>2
  <1>6. CASE UNCHANGED <<pc, tx, ledger, bal>>
    BY <1>6 DEF ChainInv, ChainLinksBack, ForkOnlyWithoutSharedLock, TailKnown, TailRead
  <1>7. QED
    BY <1>1, <1>2, <1>3, <1>4, <1>5, <1>6, StepShape

\* The inductive invariant of the chain.
LEMMA ChainAlways == Spec => [](TypeInv /\ SafeInv /\ JournalInv /\ ChainInv)
  <1>1. Init => ChainInv
    BY ChainInit
  <1>2. TypeInv /\ SafeInv /\ JournalInv /\ ChainInv /\ [Next]_vars => ChainInv'
    BY ChainNext
  <1>3. QED
    BY <1>1, <1>2, JournalAlways, PTL DEF Spec

\* Every committed row chains from the genesis hash or from an older committed
\* row: getLastPostedEntry() never hands out the hash of a row that is later
\* rolled back.
THEOREM ChainIsRooted == Spec => []ChainLinksBack
  <1>1. ChainInv => ChainLinksBack
    BY DEF ChainInv
  <1>2. QED
    BY <1>1, ChainAlways, PTL

\* The chain forks only between journals that share no advisory lock: it is
\* the account locks, not the FOR UPDATE on the tail, that keep it linear.
THEOREM ForksShareNoLock == Spec => []ForkOnlyWithoutSharedLock
  <1>1. ChainInv => ForkOnlyWithoutSharedLock
    BY DEF ChainInv
  <1>2. QED
    BY <1>1, ChainAlways, PTL

-----------------------------------------------------------------------------
(* The books.                                                              *)

\* deriveBalance() reads numbers.
LEMMA DeltaType ==
  ASSUME NEW rows, rows \subseteq RowType
  PROVE  \A x \in rows : /\ Delta(rows)[x] = Signed(x.entryType, x.amount)
                         /\ Delta(rows)[x] \in Int
  BY DEF Delta, Signed, RowType

\* The balance over rows of two kinds is the sum of the two balances.
LEMMA SumRowsUnion ==
  ASSUME NEW R, NEW S, R \subseteq RowType, S \subseteq RowType, R \cap S = {},
         IsFiniteSet(R), IsFiniteSet(S), NEW a
  PROVE  /\ SumRows(R \cup S, a) = SumRows(R, a) + SumRows(S, a)
         /\ SumRows(R, a) \in Int /\ SumRows(S, a) \in Int
  <1> DEFINE On(T) == {x \in T : x.account = a}
             U == R \cup S
  <1>1. On(U) = On(R) \cup On(S) /\ On(R) \cap On(S) = {}
    OBVIOUS
  <1>2. IsFiniteSet(On(R)) /\ IsFiniteSet(On(S))
    BY FS_Subset
  <1>3. /\ \A x \in On(R) : Delta(U)[x] = Delta(R)[x] /\ Delta(R)[x] \in Int
        /\ \A x \in On(S) : Delta(U)[x] = Delta(S)[x] /\ Delta(S)[x] \in Int
    BY DeltaType
  <1>4. SumRows(R, a) = SumFunctionOnSet(Delta(R), On(R)) /\ SumRows(S, a) = SumFunctionOnSet(Delta(S), On(S))
        /\ SumRows(U, a) = SumFunctionOnSet(Delta(U), On(U))
    BY DEF SumRows
  <1> HIDE DEF On, U
  <1>5. SumFunctionOnSet(Delta(U), On(R)) = SumFunctionOnSet(Delta(R), On(R))
    BY <1>2, <1>3, SumEqual
  <1>6. SumFunctionOnSet(Delta(U), On(S)) = SumFunctionOnSet(Delta(S), On(S))
    BY <1>2, <1>3, SumEqual
  <1>7. SumFunctionOnSet(Delta(U), On(R) \cup On(S)) =
          SumFunctionOnSet(Delta(U), On(R)) + SumFunctionOnSet(Delta(U), On(S))
    BY <1>1, <1>2, <1>3, SumUnion
  <1>8. SumFunctionOnSet(Delta(R), On(R)) \in Int /\ SumFunctionOnSet(Delta(S), On(S)) \in Int
    BY <1>2, <1>3, SumType
  <1>9. QED
    BY <1>1, <1>4, <1>5, <1>6, <1>7, <1>8 DEF U

\* The balance of no rows, and of one.
LEMMA SumRowsSmall ==
  ASSUME NEW a
  PROVE  /\ SumRows({}, a) = 0
         /\ \A x \in RowType :
              SumRows({x}, a) = IF x.account = a THEN Signed(x.entryType, x.amount) ELSE 0
  <1>1. SumRows({}, a) = 0
    <2>1. {x \in {} : x.account = a} = {}
      OBVIOUS
    <2>2. QED
      BY <2>1, SumEmpty DEF SumRows
  <1>2. ASSUME NEW x \in RowType
        PROVE  SumRows({x}, a) = IF x.account = a THEN Signed(x.entryType, x.amount) ELSE 0
    <2>1. {x} \subseteq RowType
      OBVIOUS
    <2>2. Delta({x})[x] = Signed(x.entryType, x.amount) /\ Delta({x})[x] \in Int
      BY <2>1, DeltaType
    <2>3. CASE x.account = a
      <3>1. {y \in {x} : y.account = a} = {x}
        BY <2>3
      <3>2. SumRows({x}, a) = SumFunctionOnSet(Delta({x}), {x})
        BY <3>1 DEF SumRows
      <3>3. QED
        BY <2>2, <2>3, <3>2, SumSingle
    <2>4. CASE x.account # a
      <3>1. {y \in {x} : y.account = a} = {}
        BY <2>4
      <3>2. QED
        BY <2>4, <3>1, SumEmpty DEF SumRows
    <2>5. QED
      BY <2>3, <2>4
  <1>3. QED
    BY <1>1, <1>2

\* The balances the model carries are the sums deriveBalance() computes.
BooksInv ==
  /\ IsFiniteSet(ledger)
  /\ \A a \in Account : bal[a] = SumRows(ledger, a)
  /\ \A r \in Request : /\ IsFiniteSet(tx[r].pending)
                        /\ \A a \in Account : tx[r].delta[a] = SumRows(tx[r].pending, a)

\* The opening balances are the sums of the opening rows.
LEMMA BooksInit == Init => BooksInv
  <1> SUFFICES ASSUME Init PROVE BooksInv
    OBVIOUS
  <1>1. NoTx.pending = {} /\ \A a \in Account : NoTx.delta[a] = 0
    BY DEF NoTx
  <1>2. \A r \in Request : tx[r] = NoTx
    BY DEF Init
  <1>3. IsFiniteSet({})
    BY FS_EmptySet
  <1>4. \A a \in Account : SumRows({}, a) = 0
    BY SumRowsSmall
  <1>5. ledger = OpeningRows /\ bal = OpeningBalance
    BY DEF Init
  <1>6. QED
    BY <1>1, <1>2, <1>3, <1>4, <1>5, OpeningAssumption, OpeningSums DEF BooksInv

\* Every statement keeps the balances equal to the sums.
LEMMA BooksNext == TypeInv /\ SafeInv /\ JournalInv /\ BooksInv /\ [Next]_vars => BooksInv'
  <1> SUFFICES ASSUME TypeInv, SafeInv, JournalInv, BooksInv, [Next]_vars PROVE BooksInv'
    OBVIOUS
  <1> DEFINE Carried(r) == /\ IsFiniteSet(tx[r].pending)
                           /\ \A a \in Account : tx[r].delta[a] = SumRows(tx[r].pending, a)
  <1>a. /\ tx \in [Request -> TxType] /\ pc \in [Request -> States]
        /\ ledger \subseteq RowType /\ bal \in [Account -> Int]
    BY DEF TypeInv, TypeOK
  <1>b. \A r \in Request : Carried(r)
    BY DEF BooksInv
  <1>n. ASSUME NEW r, tx'[r] = NoTx PROVE Carried(r)'
    <2>1. NoTx.pending = {} /\ \A a \in Account : NoTx.delta[a] = 0
      BY DEF NoTx
    <2>2. IsFiniteSet({}) /\ \A a \in Account : SumRows({}, a) = 0
      BY FS_EmptySet, SumRowsSmall
    <2>3. QED
      BY <1>n, <2>1, <2>2
  <1>o. ASSUME NEW r \in Request, ledger' = ledger, bal' = bal,
               \A q \in Request \ {r} : tx'[q] = tx[q], Carried(r)'
        PROVE  BooksInv'
    BY <1>b, <1>o DEF BooksInv
  <1>1. ASSUME NEW r \in Request, Restart(r) PROVE BooksInv'
    <2>1. /\ ledger' = ledger /\ bal' = bal /\ tx'[r] = NoTx
          /\ \A q \in Request \ {r} : tx'[q] = tx[q]
      BY <1>1, <1>a DEF Restart
    <2>2. Carried(r)'
      BY <1>n, <2>1
    <2>3. QED
      BY <1>o, <2>1, <2>2
  <1>2. ASSUME NEW r \in Request, Advance(r) \/ TailStep(r) PROVE BooksInv'
    <2>1. /\ ledger' = ledger /\ bal' = bal
          /\ \A q \in Request \ {r} : tx'[q] = tx[q]
      BY <1>2, <1>a DEF Advance, TailStep
    <2>2. tx'[r].pending = tx[r].pending /\ tx'[r].delta = tx[r].delta
      BY <1>2, <1>a DEF Advance, TailStep, TxType
    <2>3. Carried(r)'
      BY <1>b, <2>2
    <2>4. QED
      BY <1>o, <2>1, <2>3
  <1>3. ASSUME NEW r \in Request, Insertion(r) PROVE BooksInv'
    <2>1. PICK x \in RowType, at \in Int :
            /\ x = NewRow(r, at) /\ \A y \in AllRows : y.at < at
            /\ tx'[r].pending = tx[r].pending \cup {x}
            /\ tx'[r].delta = [tx[r].delta EXCEPT ![x.account] = @ + Signed(x.entryType, x.amount)]
      BY <1>3, <1>a DEF Insertion
    <2>2. /\ ledger' = ledger /\ bal' = bal
          /\ \A q \in Request \ {r} : tx'[q] = tx[q]
      BY <1>3, <1>a DEF Insertion
    <2> DEFINE R == tx[r].pending
               X == {x}
    <2>3. R \cap X = {}
      <3>1. x.at = at
        BY <2>1 DEF NewRow
      <3>2. \A y \in R : y.at < x.at
        BY <2>1, <3>1 DEF AllRows
      <3>3. QED
        BY <2>1, <3>1, <3>2
    <2>4. /\ R \subseteq RowType /\ X \subseteq RowType /\ IsFiniteSet(R) /\ IsFiniteSet(X)
          /\ tx[r].delta \in [Account -> Int]
      BY <1>a, <1>b, FS_Singleton DEF TxType
    <2>5. IsFiniteSet(R \cup X)
      BY <2>4, FS_Union
    <2>6. ASSUME NEW a \in Account PROVE tx'[r].delta[a] = SumRows(R \cup X, a)
      <3>1. /\ SumRows(R \cup X, a) = SumRows(R, a) + SumRows(X, a)
            /\ SumRows(R, a) \in Int
        <4> HIDE DEF R, X
        <4>1. QED
          BY <2>3, <2>4, SumRowsUnion
      <3>2. SumRows(X, a) = IF x.account = a THEN Signed(x.entryType, x.amount) ELSE 0
        BY SumRowsSmall
      <3>3. tx[r].delta[a] = SumRows(R, a)
        BY <1>b
      <3>4. tx'[r].delta[a] = IF x.account = a THEN tx[r].delta[a] + Signed(x.entryType, x.amount)
                              ELSE tx[r].delta[a]
        BY <2>1, <2>4
      <3> HIDE DEF R, X
      <3>5. QED
        BY <3>1, <3>2, <3>3, <3>4
    <2>7. Carried(r)'
      BY <2>1, <2>5, <2>6
    <2>8. QED
      BY <1>o, <2>2, <2>7
  <1>4. ASSUME NEW r \in Request, Publication(r) PROVE BooksInv'
    <2>1. /\ ledger' = ledger \cup tx[r].pending /\ tx'[r] = NoTx /\ pc[r] = "commit"
          /\ bal' = [a \in Account |-> bal[a] + tx[r].delta[a]]
          /\ \A q \in Request \ {r} : tx'[q] = tx[q]
      BY <1>4, <1>a DEF Publication
    <2> DEFINE R == tx[r].pending
    <2>2. ledger \cap R = {}
      <3>1. RowsOf(r) = {} /\ IsJournal(r, R, tx[r].next - 1, tx[r].rowLock)
        BY <2>1 DEF JournalInv, Settled, Building, Posted, TxStates
      <3>2. \A x \in R : x.id[1] = r
        BY <3>1, JournalIds
      <3>3. QED
        BY <3>1, <3>2 DEF RowsOf
    <2>3. R \subseteq RowType /\ IsFiniteSet(R) /\ IsFiniteSet(ledger)
      BY <1>a, <1>b DEF TxType, BooksInv
    <2>4. IsFiniteSet(ledger \cup R)
      BY <2>3, FS_Union
    <2>5. ASSUME NEW a \in Account PROVE bal'[a] = SumRows(ledger \cup R, a)
      <3>1. SumRows(ledger \cup R, a) = SumRows(ledger, a) + SumRows(R, a)
        <4> HIDE DEF R
        <4>1. QED
          BY <1>a, <2>2, <2>3, SumRowsUnion
      <3>2. bal[a] = SumRows(ledger, a) /\ tx[r].delta[a] = SumRows(R, a)
        BY <1>b DEF BooksInv
      <3>3. QED
        BY <2>1, <3>1, <3>2
    <2>6. \A q \in Request : Carried(q)'
      BY <1>b, <1>n, <2>1
    <2>7. QED
      BY <2>1, <2>4, <2>5, <2>6 DEF BooksInv
  <1>5. ASSUME NEW r \in Request, AfterCommit(r) PROVE BooksInv'
    BY <1>5 DEF AfterCommit, BooksInv
  <1>6. CASE UNCHANGED <<pc, tx, ledger, bal>>
    BY <1>6 DEF BooksInv
  <1>7. QED
    BY <1>1, <1>2, <1>3, <1>4, <1>5, <1>6, StepShape

\* The lines of a journal are finitely many numbers.
LEMMA LineDeltaType ==
  ASSUME NEW r \in Request
  PROVE  /\ IsFiniteSet(DOMAIN Lines(r))
         /\ \A i \in DOMAIN Lines(r) :
              /\ LineDelta(r)[i] = Signed(Lines(r)[i].entryType, toFixed(Lines(r)[i].amount))
              /\ LineDelta(r)[i] \in Int
  <1>1. IsFiniteSet(DOMAIN Lines(r))
    BY LinesType, FS_Interval
  <1>2. \A i \in DOMAIN Lines(r) : Lines(r)[i] \in LineType
    BY LinesType
  <1>3. QED
    BY <1>1, <1>2 DEF LineDelta, Signed, toFixed, LineType

\* Summing some rows of a stored journal is summing their lines.
LEMMA JournalSum ==
  ASSUME NEW r \in Request, NEW rows, NEW tail, IsJournal(r, rows, Len(Lines(r)), tail),
         NEW all, rows \subseteq all, all \subseteq RowType,
         NEW S, S \subseteq DOMAIN Lines(r)
  PROVE  SumFunctionOnSet(Delta(all), {x \in rows : x.id[2] \in S}) = SumFunctionOnSet(LineDelta(r), S)
  <1> DEFINE n == Len(Lines(r))
             f == RowFn(r, rows, n)
             w == Delta(all)
             v == LineDelta(r)
  <1>1. n \in Nat /\ DOMAIN Lines(r) = 1 .. n
    BY LinesType
  <1>2. /\ f \in [1 .. n -> rows]
        /\ \A i \in 1 .. n : StoredLine(r, i, IF i = 1 THEN tail ELSE <<r, i - 1>>, f[i])
        /\ \A i, j \in 1 .. n : f[i] = f[j] => i = j
        /\ \A x \in rows : \E i \in 1 .. n : x = f[i] /\ x.id[2] = i
    BY <1>1, RowFunction
  <1>3. IsFiniteSet(S)
    BY LineDeltaType, FS_Subset
  <1> HIDE DEF f
  <1>4. ASSUME NEW i \in S PROVE v[i] \in Int /\ w[f[i]] = v[i] /\ f[i].id[2] = i /\ f[i] \in rows
    <2>1. i \in 1 .. n
      BY <1>1
    <2>2. /\ f[i].entryType = Lines(r)[i].entryType /\ f[i].amount = toFixed(Lines(r)[i].amount)
          /\ f[i].id = <<r, i>>
      BY <1>2, <2>1 DEF StoredLine
    <2>3. f[i] \in rows /\ f[i] \in all
      BY <1>2, <2>1
    <2>4. w[f[i]] = Signed(f[i].entryType, f[i].amount)
      BY <2>3, DeltaType
    <2>5. v[i] = Signed(Lines(r)[i].entryType, toFixed(Lines(r)[i].amount)) /\ v[i] \in Int
      BY LineDeltaType
    <2>6. QED
      BY <2>2, <2>3, <2>4, <2>5
  <1>5. {x \in rows : x.id[2] \in S} = {f[i] : i \in S}
    BY <1>2, <1>4
  <1> HIDE DEF w, v, n
  <1>6. /\ \A i, j \in S : f[i] = f[j] => i = j
        /\ \A i \in S : v[i] \in Int /\ w[f[i]] = v[i]
    BY <1>1, <1>2, <1>4
  <1>7. SumFunctionOnSet(w, {f[i] : i \in S}) = SumFunctionOnSet(v, S)
    BY <1>3, <1>6, SumImage
  <1>8. QED
    BY <1>5, <1>7 DEF w, v

\* The lines of a balanced journal on the ledger's grid add up to nothing.
LEMMA BalancedOnGrid ==
  ASSUME NEW r \in Request, Valid(r), OnGrid(r)
  PROVE  SumFunctionOnSet(LineDelta(r), DOMAIN Lines(r)) = 0
  <1> DEFINE D    == DOMAIN Lines(r)
             Db   == {i \in D : Lines(r)[i].entryType = "DEBIT"}
             Cr   == {i \in D : Lines(r)[i].entryType = "CREDIT"}
             amt  == [i \in D |-> Lines(r)[i].amount]
             w    == LineDelta(r)
             neg  == [i \in D |-> -w[i]]
  <1>1. IsFiniteSet(D) /\ IsFiniteSet(Db) /\ IsFiniteSet(Cr)
    BY LineDeltaType, FS_Subset
  <1>2. D = Db \cup Cr /\ Db \cap Cr = {}
    BY LinesType DEF LineType, EntryType
  <1>3. ASSUME NEW i \in D
        PROVE  /\ amt[i] \in Int /\ amt[i] % 2 = 0 /\ w[i] \in Int
               /\ w[i] = Signed(Lines(r)[i].entryType, (amt[i] + 1) \div 2)
    <2>1. Lines(r)[i] \in LineType
      BY LinesType
    <2>2. amt[i] = Lines(r)[i].amount /\ amt[i] \in Int
      BY <2>1 DEF LineType
    <2>3. w[i] \in Int /\ w[i] = Signed(Lines(r)[i].entryType, toFixed(amt[i]))
      BY <2>2, LineDeltaType
    <2>4. QED
      BY <2>2, <2>3 DEF OnGrid, toFixed
  <1>4. \A h \in Int : h % 2 = 0 => h = (h + 1) \div 2 + (h + 1) \div 2
    OBVIOUS
  <1>5. \A i \in Db : w[i] \in Int /\ w[i] \in Int /\ amt[i] = w[i] + w[i]
    <2>1. SUFFICES ASSUME NEW i \in Db PROVE w[i] \in Int /\ amt[i] = w[i] + w[i]
      OBVIOUS
    <2>2. w[i] = (amt[i] + 1) \div 2
      BY <1>3 DEF Signed
    <2>3. QED
      BY <1>3, <1>4, <2>2
  <1>6. \A i \in Cr : neg[i] \in Int /\ neg[i] \in Int /\ amt[i] = neg[i] + neg[i] /\ w[i] \in Int /\ neg[i] = -w[i]
    <2>1. SUFFICES ASSUME NEW i \in Cr
                   PROVE  neg[i] \in Int /\ amt[i] = neg[i] + neg[i] /\ w[i] \in Int /\ neg[i] = -w[i]
      OBVIOUS
    <2>2. w[i] = -((amt[i] + 1) \div 2) /\ amt[i] \in Int /\ w[i] \in Int
      BY <1>3 DEF Signed
    <2>3. neg[i] = (amt[i] + 1) \div 2
      BY <2>2
    <2>4. QED
      BY <1>3, <1>4, <2>2, <2>3
  <1>t. Total(r, "DEBIT") = SumFunctionOnSet(amt, Db) /\ Total(r, "CREDIT") = SumFunctionOnSet(amt, Cr)
    BY DEF Total
  <1>w. \A i \in D : w[i] \in Int
    BY <1>3
  <1> HIDE DEF D, Db, Cr, amt, w, neg
  <1>7. SumFunctionOnSet(amt, Db) = SumFunctionOnSet(w, Db) + SumFunctionOnSet(w, Db)
    BY <1>1, <1>5, SumPlus
  <1>8. SumFunctionOnSet(amt, Cr) = SumFunctionOnSet(neg, Cr) + SumFunctionOnSet(neg, Cr)
    BY <1>1, <1>6, SumPlus
  <1>9. SumFunctionOnSet(neg, Cr) = -SumFunctionOnSet(w, Cr)
    BY <1>1, <1>6, SumNegate
  <1>10. SumFunctionOnSet(w, Db \cup Cr) = SumFunctionOnSet(w, Db) + SumFunctionOnSet(w, Cr)
    BY <1>1, <1>2, <1>w, SumUnion
  <1>11. SumFunctionOnSet(w, Db) \in Int /\ SumFunctionOnSet(w, Cr) \in Int
    BY <1>1, <1>5, <1>6, SumType
  <1>12. SumFunctionOnSet(amt, Db) = SumFunctionOnSet(amt, Cr)
    BY <1>t DEF Valid
  <1>13. \A m, k \in Int : m + m = (-k) + (-k) => m + k = 0
    OBVIOUS
  <1>14. SumFunctionOnSet(w, D) = 0
    BY <1>2, <1>7, <1>8, <1>9, <1>10, <1>11, <1>12, <1>13
  <1>15. QED
    BY <1>14 DEF w, D

\* The inductive invariant of the books.
LEMMA BooksAlways == Spec => [](TypeInv /\ SafeInv /\ JournalInv /\ BooksInv)
  <1>1. Init => BooksInv
    BY BooksInit
  <1>2. TypeInv /\ SafeInv /\ JournalInv /\ BooksInv /\ [Next]_vars => BooksInv'
    BY BooksNext
  <1>3. QED
    BY <1>1, <1>2, JournalAlways, PTL DEF Spec

\* The balance each check reads is the sum of the committed rows, and every
\* journal whose amounts need no rounding is stored with equal debits and
\* credits: the books balance whatever interleaves, fails or is retried.
THEOREM BooksAlwaysBalance == Spec => []BooksBalance
  <1>1. ASSUME TypeInv, JournalInv, BooksInv PROVE BooksBalance
    <2>1. ASSUME NEW r \in Request, OnGrid(r)
          PROVE  SumFunctionOnSet(Delta(ledger), RowsOf(r)) = 0
      <3>1. CASE RowsOf(r) = {}
        BY <3>1, SumEmpty
      <3>2. CASE RowsOf(r) # {}
        <4>1. PICK tail : IsJournal(r, RowsOf(r), Len(Lines(r)), tail)
          BY <1>1, <3>2 DEF JournalInv, Settled, Posted
        <4>2. Valid(r)
          BY <1>1, <3>2 DEF JournalInv, Settled, Posted
        <4>3. RowsOf(r) \subseteq ledger /\ ledger \subseteq RowType
          BY <1>1 DEF RowsOf, TypeInv, TypeOK
        <4>4. {x \in RowsOf(r) : x.id[2] \in DOMAIN Lines(r)} = RowsOf(r)
          BY <4>1, LinesType, JournalIds
        <4>5. SumFunctionOnSet(Delta(ledger), {x \in RowsOf(r) : x.id[2] \in DOMAIN Lines(r)})
                = SumFunctionOnSet(LineDelta(r), DOMAIN Lines(r))
          BY <4>1, <4>3, JournalSum
        <4>6. QED
          BY <2>1, <4>2, <4>4, <4>5, BalancedOnGrid
      <3>3. QED
        BY <3>1, <3>2
    <2>2. QED
      BY <1>1, <2>1 DEF BooksBalance, BooksInv
  <1>2. QED
    BY <1>1, BooksAlways, PTL

-----------------------------------------------------------------------------
(* LedgerPosting implements AbstractLedger.                                *)

\* COMMIT changes each balance by what the journal's lines add up to.
LEMMA CommitEffect ==
  ASSUME TypeInv, JournalInv, BooksInv, NEW r \in Request, pc[r] = "commit", NEW a \in Account
  PROVE  tx[r].delta[a] = EffectOf[r][a]
  <1> DEFINE R == tx[r].pending
             S == Touching(r, a)
  <1>1. IsJournal(r, R, Len(Lines(r)), tx[r].rowLock)
    <2>1. IsJournal(r, R, tx[r].next - 1, tx[r].rowLock)
      BY DEF JournalInv, Building
    <2>2. tx[r].next = Len(Lines(r)) + 1
      BY DEF JournalInv, Building
    <2>3. tx[r].next - 1 = Len(Lines(r))
      BY <2>2, LinesType
    <2>4. QED
      BY <2>1, <2>3
  <1>2. R \subseteq RowType
    BY DEF TypeInv, TypeOK, TxType
  <1>3. S \subseteq DOMAIN Lines(r)
    BY DEF Touching
  <1>4. {x \in R : x.account = a} = {x \in R : x.id[2] \in S}
    <2>1. ASSUME NEW x \in R PROVE x.account = a <=> x.id[2] \in S
      <3>1. PICK i \in 1 .. Len(Lines(r)) :
              StoredLine(r, i, IF i = 1 THEN tx[r].rowLock ELSE <<r, i - 1>>, x)
        BY <1>1 DEF IsJournal
      <3>2. x.id[2] = i /\ x.account = Lines(r)[i].account /\ i \in DOMAIN Lines(r)
        BY <3>1, LinesType DEF StoredLine
      <3>3. QED
        BY <3>2 DEF Touching
    <2>2. QED
      BY <2>1
  <1>5. SumFunctionOnSet(Delta(R), {x \in R : x.id[2] \in S}) = SumFunctionOnSet(LineDelta(r), S)
    <2> HIDE DEF S, R
    <2>1. QED
      BY <1>1, <1>2, <1>3, JournalSum
  <1>6. SumRows(R, a) = SumFunctionOnSet(LineDelta(r), S)
    BY <1>4, <1>5 DEF SumRows
  <1>7. tx[r].delta[a] = SumRows(R, a)
    BY DEF BooksInv
  <1>8. QED
    BY <1>6, <1>7 DEF EffectOf

\* The posting service starts as the abstract ledger does.
LEMMA RefinementInit == Init => Books!Init
  <1> SUFFICES ASSUME Init PROVE Books!Init
    OBVIOUS
  <1>1. \A r \in Request : RowsOf(r) = {}
    BY OpeningAssumption DEF Init, RowsOf
  <1>2. PostedRequests = {}
    BY <1>1 DEF PostedRequests, Posted
  <1>3. Answer = [r \in Request |-> "none"]
    BY DEF Init, Answer, Outcomes
  <1>4. QED
    BY <1>2, <1>3 DEF Init, Books!Init

\* Every statement is a step of the abstract ledger or invisible to it.
LEMMA RefinementNext ==
  ASSUME TypeInv, SafeInv, JournalInv, BooksInv, SafeInv', JournalInv', [Next]_vars
  PROVE  [Books!Next]_(Books!vars)
  <1>a. pc \in [Request -> States] /\ bal \in [Account -> Int]
    BY DEF TypeInv, TypeOK
  <1>s. ASSUME NEW r \in Request, ledger' = ledger, bal' = bal, NEW s, pc' = [pc EXCEPT ![r] = s],
               pc[r] \notin Outcomes,
               s = "done" => Posted(r), s = "rejected" => ~Posted(r)
        PROVE  [Books!Next]_(Books!vars)
    <2>1. PostedRequests' = PostedRequests
      BY <1>s DEF PostedRequests, Posted, RowsOf
    <2>2. CASE s \notin Outcomes
      <3>1. Answer' = Answer
        BY <1>a, <1>s, <2>2 DEF Answer
      <3>2. QED
        BY <1>s, <2>1, <3>1 DEF Books!vars
    <2>3. CASE s \in Outcomes
      <3>1. Answer' = [Answer EXCEPT ![r] = s] /\ Answer[r] = "none"
        BY <1>a, <1>s, <2>3 DEF Answer
      <3>2. (s = "done" => r \in PostedRequests) /\ (s = "rejected" => r \notin PostedRequests)
        BY <1>s DEF PostedRequests
      <3>3. s \in {"done", "rejected", "error"}
        BY <2>3 DEF Outcomes
      <3>4. Books!Return(r)
        BY <1>s, <2>1, <3>1, <3>2, <3>3 DEF Books!Return
      <3>5. QED
        BY <3>4 DEF Books!Next
    <2>4. QED
      BY <2>2, <2>3
  <1>1. ASSUME NEW r \in Request, Restart(r) PROVE [Books!Next]_(Books!vars)
    <2>1. PICK s \in {"lock", "check", "limit", "tail", "rejected", "error"} : pc' = [pc EXCEPT ![r] = s]
      BY <1>1, PhaseType DEF Restart
    <2>2. ledger' = ledger /\ bal' = bal /\ pc[r] \notin Outcomes /\ ~Posted(r)
      BY <1>1 DEF Restart, TxStates, Outcomes, JournalInv, Settled
    <2>3. QED
      BY <1>s, <2>1, <2>2
  <1>2. ASSUME NEW r \in Request, Advance(r) \/ TailStep(r) \/ Insertion(r)
        PROVE  [Books!Next]_(Books!vars)
    <2>1. PICK s \in {"lock", "check", "limit", "tail", "tailWait", "insert", "commit"} :
            pc' = [pc EXCEPT ![r] = s]
      BY <1>2, PhaseType DEF Advance, TailStep, Insertion
    <2>2. ledger' = ledger /\ bal' = bal /\ pc[r] \notin Outcomes
      BY <1>2 DEF Advance, TailStep, Insertion, Outcomes
    <2>3. QED
      BY <1>s, <2>1, <2>2
  <1>3. ASSUME NEW r \in Request, Publication(r) PROVE [Books!Next]_(Books!vars)
    <2>1. /\ pc[r] = "commit" /\ ledger' = ledger \cup tx[r].pending
          /\ bal' = [a \in Account |-> bal[a] + tx[r].delta[a]]
      BY <1>3 DEF Publication
    <2>2. PICK s \in {"snapshot", "error"} : pc' = [pc EXCEPT ![r] = s]
      BY <1>3 DEF Publication
    <2>3. Valid(r) /\ ~Posted(r)
      BY <2>1 DEF SafeInv, Discipline, JournalInv, Settled, TxStates
    <2>4. IsJournal(r, tx[r].pending, tx[r].next - 1, tx[r].rowLock) /\ tx[r].next = Len(Lines(r)) + 1
      BY <2>1 DEF JournalInv, Building
    <2>5. (\A x \in tx[r].pending : x.id[1] = r) /\ tx[r].pending # {}
      <3>1. 1 \in 1 .. tx[r].next - 1
        BY <2>4, LinesType
      <3>2. \A x \in tx[r].pending : x.id[1] = r
        BY <2>4, JournalIds
      <3>3. tx[r].pending # {}
        BY <2>4, <3>1 DEF IsJournal
      <3>4. QED
        BY <3>2, <3>3
    <2>6. PostedRequests' = PostedRequests \cup {r}
      <3>1. \A q \in Request \ {r} : RowsOf(q)' = RowsOf(q)
        BY <2>1, <2>5 DEF RowsOf
      <3>2. RowsOf(r)' # {}
        BY <2>1, <2>5 DEF RowsOf
      <3>3. QED
        BY <3>1, <3>2 DEF PostedRequests, Posted
    <2>7. \/ Answer' = Answer
          \/ Answer' = [Answer EXCEPT ![r] = "error"]
      BY <1>a, <2>1, <2>2 DEF Answer, Outcomes
    <2>8. Answer[r] = "none" /\ r \in {q \in Request : Valid(q)} \ PostedRequests
      BY <2>1, <2>3 DEF Answer, Outcomes, PostedRequests
    <2>9. bal' = [a \in Account |-> bal[a] + EffectOf[r][a]]
      BY <2>1, CommitEffect
    <2>10. \A a \in GuardedAccount : bal'[a] >= 0
      BY DEF SafeInv, NoOverdraft
    <2>11. Books!Post(r)
      BY <2>6, <2>7, <2>8, <2>9, <2>10 DEF Books!Post
    <2>12. QED
      BY <2>11 DEF Books!Next
  <1>4. ASSUME NEW r \in Request, AfterCommit(r) PROVE [Books!Next]_(Books!vars)
    <2>1. PICK s \in {"snapshot", "done", "error"} : pc' = [pc EXCEPT ![r] = s]
      BY <1>4 DEF AfterCommit
    <2>2. ledger' = ledger /\ bal' = bal /\ pc[r] \notin Outcomes /\ Posted(r)
      BY <1>4 DEF AfterCommit, Outcomes, JournalInv, Settled
    <2>3. QED
      BY <1>s, <2>1, <2>2
  <1>5. CASE UNCHANGED <<pc, tx, ledger, bal>>
    BY <1>5 DEF Books!vars, PostedRequests, Posted, RowsOf, Answer
  <1>6. QED
    BY <1>1, <1>2, <1>3, <1>4, <1>5, StepShape

\* Every behaviour of the posting service is one of the abstract ledger: a
\* journal takes effect at one instant, once, with the sum of its rounded
\* lines, never overdraws a protected account, and the answer is honest.
THEOREM PostingImplementsLedger == Spec => ImplementsAbstractLedger
  <1>1. Init => Books!Init
    BY RefinementInit
  <1>2. TypeInv /\ SafeInv /\ JournalInv /\ BooksInv /\ SafeInv' /\ JournalInv' /\ [Next]_vars
          => [Books!Next]_(Books!vars)
    BY RefinementNext
  <1>3. QED
    BY <1>1, <1>2, BooksAlways, PTL DEF Spec, ImplementsAbstractLedger, Books!Spec

-----------------------------------------------------------------------------
(* The transaction limits.                                                 *)

\* The rows sumPostedAmount() adds up.
Metered(rows, a, t, w) == {x \in rows : x.account = a /\ x.type = t /\ w \in x.inside}

\* No row is metered; x is the only row metered, and the only one in every window, for the amount
\* the journal of r was checked for.
NoRow(rows, a, t, w)      == Metered(rows, a, t, w) = {}
OnlyRow(rows, a, t, w, x) == Metered(rows, a, t, w) = {x}
CheckedRow(r, rows, k, x) ==
  /\ \A v \in Window : OnlyRow(rows, k[1], k[2], v, x)
  /\ [account |-> k[1], amount |-> x.amount] \in Journal[r].limits

\* Rows that are not metered leave the total alone, and one metered row adds
\* its amount to it.
LEMMA PostedUnion ==
  ASSUME NEW R, NEW S, R \subseteq RowType, S \subseteq RowType, \A x \in R : x \notin S,
         IsFiniteSet(R), NEW a, NEW t, NEW w
  PROVE  /\ sumPostedAmount(R, a, t, w) \in Int
         /\ NoRow(S, a, t, w) => sumPostedAmount(R \cup S, a, t, w) = sumPostedAmount(R, a, t, w)
         /\ \A x : OnlyRow(S, a, t, w, x) =>
              sumPostedAmount(R \cup S, a, t, w) = sumPostedAmount(R, a, t, w) + x.amount
  <1> DEFINE U == R \cup S
             M == Metered(R, a, t, w)
             N == Metered(U, a, t, w)
             g == [x \in U |-> x.amount]
             f == [x \in R |-> x.amount]
  <1>1. M \subseteq R /\ IsFiniteSet(M)
    BY FS_Subset DEF Metered
  <1>2. \A x \in U : g[x] = x.amount /\ g[x] \in Int
    BY DEF RowType
  <1>3. \A x \in M : f[x] = g[x] /\ f[x] \in Int
    BY <1>1, <1>2
  <1>4. sumPostedAmount(U, a, t, w) = SumFunctionOnSet(g, N) /\ sumPostedAmount(R, a, t, w) = SumFunctionOnSet(f, M)
    BY DEF sumPostedAmount, Metered
  <1>5. SumFunctionOnSet(f, M) = SumFunctionOnSet(g, M) /\ SumFunctionOnSet(f, M) \in Int
    <2> HIDE DEF M, f, g
    <2>1. QED
      BY <1>1, <1>3, SumEqual, SumType
  <1>6. ASSUME NoRow(S, a, t, w) PROVE N = M
    BY <1>6 DEF NoRow, Metered
  <1>7. ASSUME NEW x, OnlyRow(S, a, t, w, x)
        PROVE  SumFunctionOnSet(g, N) = SumFunctionOnSet(g, M) + x.amount
    <2> DEFINE T == M \cup {x}
    <2>1. N = T /\ x \notin M /\ x \in U
      BY <1>7 DEF OnlyRow, Metered
    <2>2. g[x] = x.amount /\ g[x] \in Int /\ \A y \in M \cup {x} : g[y] \in Int
      BY <1>1, <1>2, <2>1
    <2> HIDE DEF M, N, g
    <2>3. SumFunctionOnSet(g, M \cup {x}) = g[x] + SumFunctionOnSet(g, M)
      BY <1>1, <2>1, <2>2, SumAdd
    <2>4. SumFunctionOnSet(g, T) = SumFunctionOnSet(g, M) + x.amount
      BY <1>5, <2>2, <2>3
    <2> HIDE DEF T
    <2>5. QED
      BY <2>1, <2>4
  <1> HIDE DEF M, N, f, g
  <1>8. NoRow(S, a, t, w) => sumPostedAmount(U, a, t, w) = sumPostedAmount(R, a, t, w)
    BY <1>4, <1>5, <1>6
  <1>9. \A x : OnlyRow(S, a, t, w, x) => sumPostedAmount(U, a, t, w) = sumPostedAmount(R, a, t, w) + x.amount
    BY <1>4, <1>5, <1>7
  <1>10. QED
    BY <1>4, <1>5, <1>8, <1>9

\* What request r has limit-checked is locked, complete when it reads the
\* tail, and, on a limited pair, still within the caps.
LimitsHeld(r) ==
  /\ tx[r].limited \subseteq Journal[r].limits
  /\ tx[r].limited # {} => LockAccounts(r) \subseteq tx[r].locked
  /\ pc[r] \in {"tail"} \cup Chained => Journal[r].limits \subseteq tx[r].limited
  /\ \A c \in tx[r].limited :
       <<c.account, Journal[r].type>> \in LimitedPair => assertWithinLimits(c, Journal[r].type)

LimitInv ==
  /\ LimitNeverExceeded
  /\ \A r \in Request : LimitsHeld(r)

\* Nothing is limit-checked at the start, and the opening rows are in bounds.
LEMMA LimitInit == Init => LimitInv
  <1> SUFFICES ASSUME Init PROVE LimitInv
    OBVIOUS
  <1>1. \A r \in Request : tx[r] = NoTx /\ pc[r] = "validate"
    BY DEF Init
  <1>2. NoTx.limited = {}
    BY DEF NoTx
  <1>3. ledger = OpeningRows
    BY DEF Init
  <1>4. LimitNeverExceeded
    BY <1>3 DEF LimitNeverExceeded, LimitedPair
  <1>5. QED
    BY <1>1, <1>2, <1>4 DEF LimitInv, LimitsHeld, Chained

\* Past the limit checks every limit is checked.
LEMMA PhaseLimits ==
  ASSUME NEW r, NEW t, Phase(r, t) \in {"tail"} \cup Chained
  PROVE  Journal[r].limits \subseteq t.limited
  BY DEF Phase, Chained

\* A pair the journal of r adds to was limit-checked, for the one row it adds.
LEMMA MeteredRow ==
  ASSUME NEW r \in Request, NEW rows, NEW tail, IsJournal(r, rows, Len(Lines(r)), tail),
         NEW k \in LimitedPair, NEW w \in Window, Metered(rows, k[1], k[2], w) # {}
  PROVE  /\ Journal[r].type = k[2]
         /\ \E x \in rows : CheckedRow(r, rows, k, x)
  <1>1. PICK x \in rows : x.account = k[1] /\ x.type = k[2]
    BY DEF Metered
  <1>2. PICK i \in 1 .. Len(Lines(r)) : StoredLine(r, i, IF i = 1 THEN tail ELSE <<r, i - 1>>, x)
    BY DEF IsJournal
  <1>3. /\ Journal[r].type = k[2] /\ i \in Touching(r, k[1]) /\ x.id = <<r, i>>
        /\ x.amount = toFixed(Lines(r)[i].amount) /\ x.inside = Journal[r].inside
    BY <1>1, <1>2, LinesType DEF StoredLine, Touching
  <1>4. /\ Touching(r, k[1]) = {i} /\ Journal[r].inside = Window
        /\ [account |-> k[1], amount |-> x.amount] \in Journal[r].limits
    BY <1>3 DEF LimitedPair
  <1>5. ASSUME NEW y \in rows, y.account = k[1] PROVE y = x
    <2>1. PICK j \in 1 .. Len(Lines(r)) : StoredLine(r, j, IF j = 1 THEN tail ELSE <<r, j - 1>>, y)
      BY DEF IsJournal
    <2>2. j \in Touching(r, k[1]) /\ y.id = <<r, j>>
      BY <1>5, <2>1, LinesType DEF StoredLine, Touching
    <2>3. y.id = x.id
      BY <1>3, <1>4, <2>2
    <2>4. QED
      BY <2>3 DEF IsJournal
  <1>6. \A v \in Window : Metered(rows, k[1], k[2], v) = {x}
    BY <1>1, <1>3, <1>4, <1>5 DEF Metered
  <1>7. CheckedRow(r, rows, k, x)
    BY <1>4, <1>6 DEF CheckedRow, OnlyRow
  <1>8. QED
    BY <1>3, <1>7

\* Every statement keeps the limits: what a check has read is what COMMIT adds
\* to, because another journal on the pair would need the same lock.
LEMMA LimitNext ==
  TypeInv /\ SafeInv /\ JournalInv /\ BooksInv /\ LimitInv /\ [Next]_vars => LimitInv'
  <1> SUFFICES ASSUME TypeInv, SafeInv, JournalInv, BooksInv, LimitInv, [Next]_vars PROVE LimitInv'
    OBVIOUS
  <1>a. /\ tx \in [Request -> TxType] /\ pc \in [Request -> States] /\ ledger \subseteq RowType
    BY DEF TypeInv, TypeOK
  <1>b. \A r \in Request : LimitsHeld(r)
    BY DEF LimitInv
  <1>o. ASSUME NEW r \in Request, ledger' = ledger,
               \A q \in Request \ {r} : pc'[q] = pc[q] /\ tx'[q] = tx[q],
               LimitsHeld(r)'
        PROVE  LimitInv'
    <2>1. LimitNeverExceeded'
      BY <1>o DEF LimitInv, LimitNeverExceeded, WithinCaps
    <2>2. \A q \in Request \ {r} : LimitsHeld(q)'
      BY <1>b, <1>o DEF LimitsHeld, assertWithinLimits
    <2>3. QED
      BY <1>o, <2>1, <2>2 DEF LimitInv
  <1>1. ASSUME NEW r \in Request, Restart(r) PROVE LimitInv'
    <2>1. /\ ledger' = ledger /\ tx'[r] = NoTx
          /\ \A q \in Request \ {r} : pc'[q] = pc[q] /\ tx'[q] = tx[q]
      BY <1>1, <1>a DEF Restart
    <2>2. pc'[r] \in {"rejected", "error"} \/ pc'[r] = Phase(r, NoTx)
      BY <1>1, <1>a DEF Restart
    <2>3. pc'[r] \in {"tail"} \cup Chained => Journal[r].limits \subseteq NoTx.limited
      BY <2>2, PhaseLimits DEF Chained
    <2>4. NoTx.limited = {}
      BY DEF NoTx
    <2>5. LimitsHeld(r)'
      BY <2>1, <2>3, <2>4 DEF LimitsHeld
    <2>6. QED
      BY <1>o, <2>1, <2>5
  <1>2. ASSUME NEW r \in Request, Advance(r) PROVE LimitInv'
    <2>1. PICK t \in TxType :
            /\ tx' = [tx EXCEPT ![r] = t]
            /\ pc' = [pc EXCEPT ![r] = Phase(r, t)]
            /\ tx[r].locked \subseteq t.locked
            /\ \/ t.limited = tx[r].limited
               \/ \E c \in Journal[r].limits :
                    /\ t.limited = tx[r].limited \cup {c}
                    /\ assertWithinLimits(c, Journal[r].type)
                    /\ pc[r] = "limit"
      BY <1>2 DEF Advance
    <2>2. /\ ledger' = ledger /\ tx'[r] = t /\ pc'[r] = Phase(r, t)
          /\ \A q \in Request \ {r} : pc'[q] = pc[q] /\ tx'[q] = tx[q]
      BY <1>2, <1>a, <2>1 DEF Advance
    <2>3. pc[r] = "limit" => LockAccounts(r) \subseteq tx[r].locked
      BY DEF SafeInv, Discipline, TxStates
    <2>4. t.limited # {} => LockAccounts(r) \subseteq t.locked
      BY <1>b, <2>1, <2>3 DEF LimitsHeld
    <2>5. pc'[r] \in {"tail"} \cup Chained => Journal[r].limits \subseteq t.limited
      BY <2>2, PhaseLimits
    <2>6. /\ t.limited \subseteq Journal[r].limits
          /\ \A c \in t.limited :
               <<c.account, Journal[r].type>> \in LimitedPair => assertWithinLimits(c, Journal[r].type)
      BY <1>b, <2>1 DEF LimitsHeld
    <2>7. LimitsHeld(r)'
      BY <2>2, <2>4, <2>5, <2>6 DEF LimitsHeld, assertWithinLimits
    <2>8. QED
      BY <1>o, <2>2, <2>7
  <1>3. ASSUME NEW r \in Request, TailStep(r) \/ Insertion(r) PROVE LimitInv'
    <2>1. /\ ledger' = ledger
          /\ \A q \in Request \ {r} : pc'[q] = pc[q] /\ tx'[q] = tx[q]
      BY <1>3, <1>a DEF TailStep, Insertion
    <2>2. tx'[r].limited = tx[r].limited /\ tx'[r].locked = tx[r].locked
      BY <1>3, <1>a DEF TailStep, Insertion, TxType
    <2>3. pc[r] \in {"tail"} \cup Chained
      BY <1>3 DEF TailStep, Insertion, Chained
    <2>4. LimitsHeld(r)'
      BY <1>b, <2>1, <2>2, <2>3 DEF LimitsHeld, assertWithinLimits
    <2>5. QED
      BY <1>o, <2>1, <2>4
  <1>4. ASSUME NEW r \in Request, Publication(r) PROVE LimitInv'
    <2> DEFINE P == tx[r].pending
    <2>1. /\ ledger' = ledger \cup P /\ tx'[r] = NoTx
          /\ pc[r] = "commit" /\ pc'[r] \in {"snapshot", "error"}
          /\ \A q \in Request \ {r} : pc'[q] = pc[q] /\ tx'[q] = tx[q]
      BY <1>4, <1>a DEF Publication
    <2>2. IsJournal(r, P, Len(Lines(r)), tx[r].rowLock)
      <3>1. IsJournal(r, P, tx[r].next - 1, tx[r].rowLock)
        BY DEF JournalInv, Building
      <3>2. tx[r].next = Len(Lines(r)) + 1
        BY <2>1 DEF JournalInv, Building
      <3>3. tx[r].next - 1 = Len(Lines(r))
        BY <3>2, LinesType
      <3>4. QED
        BY <3>1, <3>3
    <2>3. ledger \cap P = {}
      <3>1. RowsOf(r) = {}
        BY <2>1 DEF JournalInv, Settled, Posted, TxStates
      <3>2. \A x \in P : x.id[1] = r
        BY <2>2, JournalIds
      <3>3. QED
        BY <3>1, <3>2 DEF RowsOf
    <2>4. P \subseteq RowType /\ IsFiniteSet(P) /\ IsFiniteSet(ledger)
      BY <1>a DEF TxType, BooksInv
    <2> HIDE DEF P
    <2>5. ASSUME NEW a, NEW t, NEW w
          PROVE  /\ sumPostedAmount(ledger, a, t, w) \in Int
                 /\ NoRow(P, a, t, w) => sumPostedAmount(ledger', a, t, w) = sumPostedAmount(ledger, a, t, w)
                 /\ \A x : OnlyRow(P, a, t, w, x) =>
                      sumPostedAmount(ledger', a, t, w) = sumPostedAmount(ledger, a, t, w) + x.amount
      <3> DEFINE L == ledger
                 U == L \cup P
      <3>1. L \subseteq RowType /\ (\A x \in L : x \notin P) /\ P \subseteq RowType /\ IsFiniteSet(L)
        BY <1>a, <2>3, <2>4
      <3>2. ledger' = U
        BY <2>1
      <3> HIDE DEF L
      <3>3. /\ sumPostedAmount(L, a, t, w) \in Int
            /\ NoRow(P, a, t, w) => sumPostedAmount(U, a, t, w) = sumPostedAmount(L, a, t, w)
            /\ \A x : OnlyRow(P, a, t, w, x) =>
                 sumPostedAmount(U, a, t, w) = sumPostedAmount(L, a, t, w) + x.amount
        BY <3>1, PostedUnion
      <3> HIDE DEF U
      <3>4. QED
        BY <3>2, <3>3 DEF L
    <2>6. ASSUME NEW k \in LimitedPair PROVE WithinCaps(ledger', k)
      <3>1. CASE \A w \in Window : Metered(P, k[1], k[2], w) = {}
        <4>1. \A w \in Window : sumPostedAmount(ledger', k[1], k[2], w) = sumPostedAmount(ledger, k[1], k[2], w)
          BY <2>5, <3>1 DEF NoRow
        <4>2. WithinCaps(ledger, k)
          BY DEF LimitInv, LimitNeverExceeded
        <4>3. QED
          BY <4>1, <4>2 DEF WithinCaps, Window
      <3>2. CASE \E w \in Window : Metered(P, k[1], k[2], w) # {}
        <4>w. PICK w \in Window : Metered(P, k[1], k[2], w) # {}
          BY <3>2
        <4>1. Journal[r].type = k[2]
          BY <2>2, <4>w, MeteredRow
        <4>2. PICK x \in P : CheckedRow(r, P, k, x)
          BY <2>2, <4>w, MeteredRow
        <4> DEFINE c == [account |-> k[1], amount |-> x.amount]
        <4>3. k = <<k[1], k[2]>> /\ k \in DOMAIN Limit
          BY OpeningSums DEF LimitedPair
        <4>4. c \in tx[r].limited
          BY <1>b, <2>1, <4>2 DEF LimitsHeld, Chained, CheckedRow
        <4>5. c.account = k[1] /\ c.amount = x.amount
          OBVIOUS
        <4> HIDE DEF c
        <4>6. assertWithinLimits(c, k[2])
          BY <1>b, <4>1, <4>3, <4>4, <4>5 DEF LimitsHeld
        <4>7. \A v \in Window : sumPostedAmount(ledger', k[1], k[2], v) = sumPostedAmount(ledger, k[1], k[2], v) + c.amount
          BY <2>5, <4>2, <4>5 DEF CheckedRow
        <4>8. /\ Limit[k].maxPerDay = NoCap \/ sumPostedAmount(ledger, k[1], k[2], "day") + c.amount <= Limit[k].maxPerDay
              /\ Limit[k].maxPerMonth = NoCap \/ sumPostedAmount(ledger, k[1], k[2], "month") + c.amount <= Limit[k].maxPerMonth
          BY <4>3, <4>5, <4>6 DEF assertWithinLimits
        <4>9. QED
          BY <4>7, <4>8 DEF WithinCaps, Window
      <3>3. QED
        BY <3>1, <3>2
    <2>7. ASSUME NEW q \in Request PROVE LimitsHeld(q)'
      <3>1. CASE q = r
        <4>1. NoTx.limited = {}
          BY DEF NoTx
        <4>2. QED
          BY <2>1, <3>1, <4>1 DEF LimitsHeld, Chained
      <3>2. CASE q # r
        <4>1. pc'[q] = pc[q] /\ tx'[q] = tx[q]
          BY <2>1, <3>2
        <4>2. ASSUME NEW c \in tx[q].limited, <<c.account, Journal[q].type>> \in LimitedPair
              PROVE  assertWithinLimits(c, Journal[q].type)'
          <5> DEFINE k == <<c.account, Journal[q].type>>
          <5>1. \A w \in Window : Metered(P, k[1], k[2], w) = {}
            <6> SUFFICES ASSUME NEW w \in Window, Metered(P, k[1], k[2], w) # {} PROVE FALSE
              OBVIOUS
            <6>1. k \in LimitedPair /\ k[1] = c.account
              BY <4>2
            <6> HIDE DEF k
            <6>2. PICK x \in P : CheckedRow(r, P, k, x)
              BY <2>2, <6>1, MeteredRow
            <6>3. c.account \in LockAccounts(r)
              BY <6>1, <6>2 DEF LockAccounts, CheckedRow
            <6>4. c.account \in LockAccounts(q)
              BY <1>b, <4>2 DEF LimitsHeld, LockAccounts
            <6>5. c.account \in tx[r].locked
              BY <2>1, <6>3 DEF SafeInv, Discipline, TxStates
            <6>6. c.account \in tx[q].locked
              BY <1>b, <4>2, <6>4 DEF LimitsHeld
            <6>7. QED
              BY <3>2, <6>5, <6>6 DEF SafeInv, LockExclusion
          <5>2. \A w \in Window : sumPostedAmount(ledger', c.account, Journal[q].type, w)
                                    = sumPostedAmount(ledger, c.account, Journal[q].type, w)
            BY <2>5, <5>1 DEF NoRow
          <5>3. assertWithinLimits(c, Journal[q].type)
            BY <1>b, <4>2 DEF LimitsHeld
          <5>4. QED
            BY <5>2, <5>3 DEF assertWithinLimits, Window
        <4>3. QED
          BY <1>b, <4>1, <4>2 DEF LimitsHeld
      <3>3. QED
        BY <3>1, <3>2
    <2>8. QED
      BY <2>6, <2>7 DEF LimitInv, LimitNeverExceeded
  <1>5. ASSUME NEW r \in Request, AfterCommit(r) PROVE LimitInv'
    <2>1. /\ pc'[r] \in {"snapshot", "done", "error"} /\ UNCHANGED <<tx, ledger>>
          /\ \A q \in Request \ {r} : pc'[q] = pc[q]
      BY <1>5, <1>a DEF AfterCommit
    <2>2. LimitsHeld(r)'
      BY <1>b, <2>1 DEF LimitsHeld, Chained, assertWithinLimits
    <2>3. QED
      BY <1>o, <2>1, <2>2
  <1>6. CASE UNCHANGED <<pc, tx, ledger, bal>>
    <2>1. \A r \in Request : LimitsHeld(r)'
      BY <1>6, <1>b DEF LimitsHeld, assertWithinLimits
    <2>2. QED
      BY <1>6, <2>1 DEF LimitInv, LimitNeverExceeded, WithinCaps
  <1>7. QED
    BY <1>1, <1>2, <1>3, <1>4, <1>5, <1>6, StepShape

\* Concurrent postings never push a limited account past its daily or monthly
\* cap: the total assertWithinLimits() read is the total COMMIT adds to.
THEOREM LimitsHold == Spec => []LimitNeverExceeded
  <1>1. Init => LimitInv
    BY LimitInit
  <1>2. TypeInv /\ SafeInv /\ JournalInv /\ BooksInv /\ LimitInv /\ [Next]_vars => LimitInv'
    BY LimitNext
  <1>3. LimitInv => LimitNeverExceeded
    BY DEF LimitInv
  <1>4. QED
    BY <1>1, <1>2, <1>3, BooksAlways, PTL DEF Spec
=============================================================================
