------------------------ MODULE LedgerPostingProofs ------------------------
(***************************************************************************)
(* For every set of requests, accounts, journals, lock keys and limits:    *)
(* postings that are balance-checked never overdraw an account, however    *)
(* their statements interleave, fail or are retried.                       *)
(***************************************************************************)
EXTENDS LedgerPosting, TLAPS

\* A request outside its transaction holds nothing, and the line an open
\* transaction inserts next exists.
TxShape ==
  \A r \in Request :
    /\ pc[r] \notin TxStates => tx[r] = NoTx
    /\ pc[r] \in TxStates \ {"insert", "commit"} => tx[r].next = 1
    /\ pc[r] = "insert" => tx[r].next \in DOMAIN Lines(r)

TypeInv == TypeOK /\ TxShape

-----------------------------------------------------------------------------
\* A closed transaction is well typed.
LEMMA NoTxType == NoTx \in TxType
  BY DEF NoTx, TxType, RowId, Genesis

\* The statement that follows is always one before the chain tail is read.
LEMMA PhaseType ==
  ASSUME NEW r, NEW t
  PROVE  Phase(r, t) \in {"lock", "check", "limit", "tail"}
  BY DEF Phase

\* Every line of a request names an account, a side and an amount.
LEMMA LinesType ==
  ASSUME NEW r \in Request
  PROVE  /\ Journal[r] \in JournalType
         /\ Lines(r) \in Seq(LineType)
         /\ Len(Lines(r)) \in Nat \ {0}
         /\ DOMAIN Lines(r) = 1 .. Len(Lines(r))
         /\ Journal[r].check \subseteq Account
         /\ LockAccounts(r) \subseteq Account
         /\ Affected(r) \subseteq Account
         /\ \A i \in DOMAIN Lines(r) : Lines(r)[i] \in LineType
  <1>1. Journal[r] \in JournalType
    BY JournalAssumption
  <1>2. Lines(r) \in Seq(LineType) /\ Lines(r) # << >>
    BY <1>1, JournalAssumption DEF JournalType, Lines
  <1>3. Len(Lines(r)) \in Nat \ {0} /\ DOMAIN Lines(r) = 1 .. Len(Lines(r))
    BY <1>2
  <1>4. Journal[r].check \subseteq Account /\ LockAccounts(r) \subseteq Account
    BY <1>1 DEF JournalType, LockAccounts
  <1>5. \A i \in DOMAIN Lines(r) : Lines(r)[i] \in LineType
    BY <1>2, <1>3
  <1>6. \A i \in DOMAIN Lines(r) : Lines(r)[i].account \in Account
    BY <1>5 DEF LineType
  <1>7. Affected(r) \subseteq Account
    BY <1>6 DEF Affected
  <1>8. QED
    BY <1>1, <1>2, <1>3, <1>4, <1>5, <1>7

\* The row insertEntry() stores is a ledger row.
LEMMA NewRowType ==
  ASSUME NEW r \in Request, TypeOK, tx[r].next \in DOMAIN Lines(r), NEW at \in Int
  PROVE  NewRow(r, at) \in RowType
  <1>1. tx[r] \in TxType
    BY DEF TypeOK
  <1>2. tx[r].prev \in RowId /\ tx[r].next \in Nat
    BY <1>1 DEF TxType
  <1>3. Lines(r)[tx[r].next] \in LineType
    BY LinesType
  <1>4. Journal[r].type \in Type /\ Journal[r].inside \in SUBSET Window
    BY LinesType DEF JournalType
  <1>5. toFixed(Lines(r)[tx[r].next].amount) \in Int
    BY <1>3 DEF LineType, toFixed
  <1>6. <<r, tx[r].next>> \in RowId
    BY <1>2 DEF RowId
  <1>7. QED
    BY <1>2, <1>3, <1>4, <1>5, <1>6 DEF NewRow, RowType, LineType

-----------------------------------------------------------------------------
\* The server starts in a typed state.
LEMMA TypeInit == Init => TypeInv
  <1> SUFFICES ASSUME Init PROVE TypeInv
    OBVIOUS
  <1>1. tx \in [Request -> TxType] /\ \A r \in Request : tx[r] = NoTx
    BY NoTxType DEF Init
  <1>2. attempt \in [Request -> 1 .. MaxRetries]
    BY JournalAssumption DEF Init
  <1>3. TypeOK
    BY <1>1, <1>2, OpeningAssumption DEF Init, TypeOK, States
  <1>4. TxShape
    BY <1>1 DEF Init, TxShape, TxStates
  <1>5. QED
    BY <1>3, <1>4 DEF TypeInv

\* A step that changes pc and tx at one request only, to values of the right
\* shape, keeps both typed.
LEMMA LocalStepType ==
  ASSUME TypeInv, NEW r \in Request, NEW s \in States, NEW t \in TxType,
         pc' = [pc EXCEPT ![r] = s], tx' = [tx EXCEPT ![r] = t],
         s \notin TxStates => t = NoTx,
         s \in TxStates \ {"insert", "commit"} => t.next = 1,
         s = "insert" => t.next \in DOMAIN Lines(r)
  PROVE  /\ pc' \in [Request -> States]
         /\ tx' \in [Request -> TxType]
         /\ TxShape'
  BY DEF TypeInv, TypeOK, TxShape

\* Leaving the transaction for good: rollback, commit or rejection.
LEMMA LeaveLoopType ==
  ASSUME TypeInv, NEW r \in Request, NEW s \in States \ TxStates,
         pc' = [pc EXCEPT ![r] = s], LeaveLoop(r)
  PROVE  /\ pc' \in [Request -> States]
         /\ tx' \in [Request -> TxType]
         /\ attempt' \in [Request -> 1 .. MaxRetries]
         /\ TxShape'
  <1>1. tx' = [tx EXCEPT ![r] = NoTx]
    BY DEF LeaveLoop, EndTx
  <1>2. s # "insert"
    BY DEF TxStates
  <1>3. attempt' \in [Request -> 1 .. MaxRetries]
    BY JournalAssumption DEF LeaveLoop, TypeInv, TypeOK
  <1>4. QED
    BY <1>1, <1>2, <1>3, NoTxType, LocalStepType

\* Progress inside the transaction, up to the tail of the chain.
LEMMA ProgressType ==
  ASSUME TypeInv, NEW r \in Request, NEW t \in TxType, t.next = 1,
         tx' = [tx EXCEPT ![r] = t], pc' = [pc EXCEPT ![r] = Phase(r, tx'[r])]
  PROVE  /\ pc' \in [Request -> States]
         /\ tx' \in [Request -> TxType]
         /\ TxShape'
  <1>1. tx'[r] = t
    BY DEF TypeInv, TypeOK
  <1>2. Phase(r, t) \in {"lock", "check", "limit", "tail"}
    BY PhaseType
  <1>3. Phase(r, t) \in States /\ Phase(r, t) \in TxStates
    BY <1>2 DEF States, TxStates
  <1>4. QED
    BY <1>1, <1>2, <1>3, LocalStepType

\* Every statement of postJournalEntry() keeps the state typed.
LEMMA TypeNext == TypeInv /\ [Next]_vars => TypeInv'
  <1> SUFFICES ASSUME TypeInv, [Next]_vars PROVE TypeInv'
    OBVIOUS
  <1>0. TypeOK /\ TxShape
    BY DEF TypeInv
  <1>t. \A r \in Request : tx[r] \in TxType
    BY <1>0 DEF TypeOK
  <1>1. ASSUME NEW r \in Request, Validate(r) PROVE TypeInv'
    <2>1. pc[r] \notin TxStates /\ tx[r] = NoTx /\ NoTx.next = 1
      BY <1>1, <1>0 DEF Validate, TxShape, TxStates, NoTx
    <2>2. tx' = [tx EXCEPT ![r] = NoTx] /\ UNCHANGED <<attempt, ledger, bal, SnapVars>>
      BY <1>1, <1>0, <2>1 DEF Validate, TypeOK
    <2>3. PICK s : s \in {"lock", "check", "limit", "tail", "rejected"} /\ pc' = [pc EXCEPT ![r] = s]
      BY <1>1, PhaseType DEF Validate, Goto
    <2>4. s \in States /\ s # "insert"
      BY <2>3 DEF States, TxStates, Outcomes
    <2>5. pc' \in [Request -> States] /\ tx' \in [Request -> TxType] /\ TxShape'
      BY <2>1, <2>2, <2>3, <2>4, NoTxType, LocalStepType
    <2>6. QED
      BY <1>0, <2>2, <2>5 DEF TypeInv, TypeOK, SnapVars
  <1>2. ASSUME NEW r \in Request, AcquireAdvisoryLock(r) PROVE TypeInv'
    <2>1. PICK a \in LockAccounts(r) : tx' = [tx EXCEPT ![r].locked = @ \cup {a}]
      BY <1>2 DEF AcquireAdvisoryLock
    <2> DEFINE t == [tx[r] EXCEPT !.locked = @ \cup {a}]
    <2>a. a \in Account /\ tx[r].next = 1
      BY <1>0, <1>2, LinesType DEF AcquireAdvisoryLock, TxShape, TxStates
    <2>2. t \in TxType /\ t.next = 1
      BY <1>t, <2>a DEF TxType
    <2>3. tx' = [tx EXCEPT ![r] = t]
      BY <2>1
    <2>4. pc' = [pc EXCEPT ![r] = Phase(r, tx'[r])] /\ UNCHANGED <<attempt, ledger, bal, SnapVars>>
      BY <1>2 DEF AcquireAdvisoryLock, Goto
    <2>5. pc' \in [Request -> States] /\ tx' \in [Request -> TxType] /\ TxShape'
      BY <2>2, <2>3, <2>4, ProgressType
    <2>6. QED
      BY <1>0, <2>4, <2>5 DEF TypeInv, TypeOK, SnapVars
  <1>3. ASSUME NEW r \in Request, CheckBalance(r) PROVE TypeInv'
    <2>0. UNCHANGED <<ledger, bal, SnapVars>>
      BY <1>3 DEF CheckBalance
    <2>1. PICK a \in BalanceChecks(r) :
            \/ /\ tx' = [tx EXCEPT ![r].checked = @ \cup {a}]
               /\ Goto(r, Phase(r, tx'[r]))
               /\ UNCHANGED attempt
            \/ LeaveLoop(r) /\ Goto(r, "rejected")
      BY <1>3 DEF CheckBalance
    <2>2. CASE LeaveLoop(r) /\ Goto(r, "rejected")
      BY <1>0, <2>0, <2>2, LeaveLoopType DEF TypeInv, TypeOK, SnapVars, Goto, States, TxStates, Outcomes
    <2>3. CASE /\ tx' = [tx EXCEPT ![r].checked = @ \cup {a}]
               /\ Goto(r, Phase(r, tx'[r]))
               /\ UNCHANGED attempt
      <3> DEFINE t == [tx[r] EXCEPT !.checked = @ \cup {a}]
      <3>0. a \in Account /\ tx[r].next = 1
        BY <1>0, <1>3, LinesType DEF CheckBalance, TxShape, TxStates, BalanceChecks
      <3>1. t \in TxType /\ t.next = 1
        BY <1>t, <3>0 DEF TxType
      <3>2. tx' = [tx EXCEPT ![r] = t] /\ pc' = [pc EXCEPT ![r] = Phase(r, tx'[r])]
        BY <2>3 DEF Goto
      <3>3. pc' \in [Request -> States] /\ tx' \in [Request -> TxType] /\ TxShape'
        BY <3>1, <3>2, ProgressType
      <3>4. QED
        BY <1>0, <2>0, <2>3, <3>3 DEF TypeInv, TypeOK, SnapVars
    <2>4. QED
      BY <2>1, <2>2, <2>3
  <1>4. ASSUME NEW r \in Request, CheckLimit(r) PROVE TypeInv'
    <2>0. UNCHANGED <<ledger, bal, SnapVars>>
      BY <1>4 DEF CheckLimit
    <2>1. PICK c \in Journal[r].limits :
            \/ /\ tx' = [tx EXCEPT ![r].limited = @ \cup {c}]
               /\ Goto(r, Phase(r, tx'[r]))
               /\ UNCHANGED attempt
            \/ LeaveLoop(r) /\ Goto(r, "rejected")
      BY <1>4 DEF CheckLimit
    <2>2. CASE LeaveLoop(r) /\ Goto(r, "rejected")
      BY <1>0, <2>0, <2>2, LeaveLoopType DEF TypeInv, TypeOK, SnapVars, Goto, States, TxStates, Outcomes
    <2>3. CASE /\ tx' = [tx EXCEPT ![r].limited = @ \cup {c}]
               /\ Goto(r, Phase(r, tx'[r]))
               /\ UNCHANGED attempt
      <3> DEFINE t == [tx[r] EXCEPT !.limited = @ \cup {c}]
      <3>0. c \in [account : Account, amount : Int]
        BY LinesType DEF JournalType
      <3>1. t \in TxType /\ t.next = 1
        BY <1>0, <1>4, <1>t, <3>0 DEF TxType, CheckLimit, TxShape, TxStates
      <3>2. tx' = [tx EXCEPT ![r] = t] /\ pc' = [pc EXCEPT ![r] = Phase(r, tx'[r])]
        BY <2>3 DEF Goto
      <3>3. pc' \in [Request -> States] /\ tx' \in [Request -> TxType] /\ TxShape'
        BY <3>1, <3>2, ProgressType
      <3>4. QED
        BY <1>0, <2>0, <2>3, <3>3 DEF TypeInv, TypeOK, SnapVars
    <2>4. QED
      BY <2>1, <2>2, <2>3
  <1>5. ASSUME NEW r \in Request, ReadTail(r) PROVE TypeInv'
    <2>0. \A z \in ledger : z.id \in RowId
      BY <1>0 DEF TypeOK, RowType
    <2>a. Genesis \in RowId
      BY DEF RowId, Genesis
    <2>b. Tails(ledger) \subseteq RowId
      BY <2>0, <2>a DEF Tails
    <2>1. PICK p \in RowId : tx' = [tx EXCEPT ![r].prev = p]
      BY <1>5, <2>b DEF ReadTail
    <2> DEFINE t == [tx[r] EXCEPT !.prev = p]
    <2>2. tx[r].next = 1
      BY <1>0, <1>5 DEF ReadTail, TxShape, TxStates
    <2>3. t \in TxType /\ t.next = 1
      BY <1>t, <2>2 DEF TxType
    <2>4. tx' = [tx EXCEPT ![r] = t] /\ pc' = [pc EXCEPT ![r] = "tailWait"]
      BY <1>5, <2>1 DEF ReadTail, Goto
    <2>5. pc' \in [Request -> States] /\ tx' \in [Request -> TxType] /\ TxShape'
      BY <2>3, <2>4, LocalStepType DEF States, TxStates
    <2>6. QED
      BY <1>0, <1>5, <2>5 DEF TypeInv, TypeOK, SnapVars, ReadTail
  <1>6. ASSUME NEW r \in Request, LockTail(r) PROVE TypeInv'
    <2> DEFINE t == [tx[r] EXCEPT !.rowLock = tx[r].prev]
    <2>1. tx[r].next = 1 /\ 1 \in DOMAIN Lines(r)
      BY <1>0, <1>6, LinesType DEF LockTail, TxShape, TxStates
    <2>2. t \in TxType /\ t.next = 1
      BY <1>t, <2>1 DEF TxType
    <2>3. tx' = [tx EXCEPT ![r] = t] /\ pc' = [pc EXCEPT ![r] = "insert"]
      BY <1>6 DEF LockTail, Goto
    <2>4. pc' \in [Request -> States] /\ tx' \in [Request -> TxType] /\ TxShape'
      BY <2>1, <2>2, <2>3, LocalStepType DEF States, TxStates
    <2>5. QED
      BY <1>0, <1>6, <2>4 DEF TypeInv, TypeOK, SnapVars, LockTail
  <1>7. ASSUME NEW r \in Request, InsertEntry(r) PROVE TypeInv'
    <2>1. tx[r].next \in DOMAIN Lines(r)
      BY <1>0, <1>7 DEF InsertEntry, TxShape
    <2>2. \A y \in AllRows : y.at \in Int
      BY <1>0, <1>t DEF AllRows, TypeOK, TxType, RowType
    <2>3. PICK n \in {0} \cup {y.at : y \in AllRows} :
            tx' = [tx EXCEPT ![r].pending = @ \cup {NewRow(r, n + 1)},
                             ![r].delta[NewRow(r, n + 1).account] =
                                @ + Signed(NewRow(r, n + 1).entryType, NewRow(r, n + 1).amount),
                             ![r].prev = NewRow(r, n + 1).id,
                             ![r].next = @ + 1]
      BY <1>7 DEF InsertEntry
    <2> DEFINE x == NewRow(r, n + 1)
    <2>4. x \in RowType
      BY <1>0, <2>1, <2>2, <2>3, NewRowType
    <2>5. /\ x.account \in Account /\ x.id \in RowId
          /\ Signed(x.entryType, x.amount) \in Int
      BY <2>4 DEF RowType, Signed
    <2> HIDE DEF x
    <2> DEFINE d == [tx[r].delta EXCEPT ![x.account] = @ + Signed(x.entryType, x.amount)]
               t == [tx[r] EXCEPT !.pending = @ \cup {x}, !.delta = d, !.prev = x.id, !.next = @ + 1]
               s == IF tx[r].next = Len(Lines(r)) THEN "commit" ELSE "insert"
    <2>6. tx' = [tx EXCEPT ![r] = t]
      BY <2>3 DEF x
    <2>7. d \in [Account -> Int]
      BY <1>t, <2>5 DEF TxType
    <2> HIDE DEF d
    <2>p. tx[r].pending \cup {x} \in SUBSET RowType /\ tx[r].next + 1 \in Nat
      BY <1>t, <2>4 DEF TxType
    <2>8. t \in TxType /\ t.next = tx[r].next + 1
      BY <1>t, <2>p, <2>5, <2>7 DEF TxType
    <2>9. s \in States /\ s \in {"insert", "commit"} /\ (s = "insert" => tx[r].next + 1 \in DOMAIN Lines(r))
      BY <2>1, LinesType DEF States, TxStates
    <2>10. pc' = [pc EXCEPT ![r] = s] /\ UNCHANGED <<attempt, ledger, bal, SnapVars>>
      BY <1>7 DEF InsertEntry, Goto
    <2> HIDE DEF t, s
    <2>11. pc' \in [Request -> States] /\ tx' \in [Request -> TxType] /\ TxShape'
      BY <2>6, <2>8, <2>9, <2>10, LocalStepType DEF TxStates
    <2>12. QED
      BY <1>0, <2>10, <2>11 DEF TypeInv, TypeOK, SnapVars
  <1>8. ASSUME NEW r \in Request, Commit(r) \/ CommitUnacknowledged(r) PROVE TypeInv'
    <2>1. Publish(r) /\ LeaveLoop(r)
      BY <1>8 DEF Commit, CommitUnacknowledged, Publish
    <2>2. PICK s \in {"snapshot", "error"} : pc' = [pc EXCEPT ![r] = s]
      BY <1>8 DEF Commit, CommitUnacknowledged, Goto
    <2>3. s \in States \ TxStates
      BY <2>2 DEF States, TxStates, Outcomes
    <2>4. /\ pc' \in [Request -> States] /\ tx' \in [Request -> TxType]
          /\ attempt' \in [Request -> 1 .. MaxRetries] /\ TxShape'
      BY <2>1, <2>2, <2>3, LeaveLoopType
    <2>5. snapTodo' \in [Request -> SUBSET Account]
      BY <1>0, <1>8, LinesType DEF Commit, CommitUnacknowledged, TypeOK
    <2>6. ledger' \subseteq RowType
      BY <1>0, <1>t, <2>1 DEF Publish, TypeOK, TxType
    <2>7. bal' \in [Account -> Int]
      BY <1>0, <1>t, <2>1 DEF Publish, TypeOK, TxType
    <2>8. QED
      BY <1>0, <2>1, <2>4, <2>5, <2>6, <2>7 DEF Publish, TypeInv, TypeOK
  <1>9. ASSUME NEW r \in Request, DeriveSnapshot(r) PROVE TypeInv'
    <2>1. PICK a \in snapTodo[r] : snapRead' = [snapRead EXCEPT ![r] = <<a, bal[a]>>]
      BY <1>9 DEF DeriveSnapshot
    <2>2. <<a, bal[a]>> \in Account \X Int
      BY <1>0 DEF TypeOK
    <2>3. snapRead' \in [Request -> {NoRead} \cup (Account \X Int)]
      BY <1>0, <2>1, <2>2 DEF TypeOK
    <2>4. QED
      BY <1>0, <1>9, <2>3 DEF DeriveSnapshot, TypeInv, TypeOK, TxShape
  <1>10. ASSUME NEW r \in Request, CreateSnapshot(r) PROVE TypeInv'
    <2>1. snapRead[r] \in Account \X Int
      BY <1>0, <1>10 DEF CreateSnapshot, TypeOK
    <2>2. snapRead[r][1] \in Account /\ snapRead[r][2] \in Int
      BY <2>1
    <2>3. snapshot' \in [Account -> Int]
      BY <1>0, <1>10, <2>2 DEF CreateSnapshot, TypeOK
    <2>4. /\ snapTodo' \in [Request -> SUBSET Account]
          /\ snapRead' \in [Request -> {NoRead} \cup (Account \X Int)]
      BY <1>0, <1>10 DEF CreateSnapshot, TypeOK
    <2>5. PICK s \in {"done", "snapshot"} : pc' = [pc EXCEPT ![r] = s]
      BY <1>10 DEF CreateSnapshot, Goto
    <2>6. s \in States \ TxStates /\ pc[r] \notin TxStates
      BY <1>10, <2>5 DEF CreateSnapshot, States, TxStates, Outcomes
    <2>7. tx' = [tx EXCEPT ![r] = NoTx]
      BY <1>0, <1>10, <2>6 DEF CreateSnapshot, TypeOK, TxShape
    <2>8. pc' \in [Request -> States] /\ tx' \in [Request -> TxType] /\ TxShape'
      BY <2>5, <2>6, <2>7, NoTxType, LocalStepType DEF TxStates
    <2>9. QED
      BY <1>0, <1>10, <2>3, <2>4, <2>8 DEF CreateSnapshot, TypeInv, TypeOK
  <1>11. ASSUME NEW r \in Request, Conflict(r) PROVE TypeInv'
    <2>1. tx' = [tx EXCEPT ![r] = NoTx] /\ pc' = [pc EXCEPT ![r] = Phase(r, NoTx)]
      BY <1>11 DEF Conflict, EndTx, Goto
    <2>2. NoTx.next = 1 /\ tx'[r] = NoTx
      BY <1>0, <2>1 DEF NoTx, TypeOK
    <2>3. pc' \in [Request -> States] /\ tx' \in [Request -> TxType] /\ TxShape'
      BY <2>1, <2>2, NoTxType, ProgressType
    <2>4. attempt' \in [Request -> 1 .. MaxRetries]
      BY <1>0, <1>11, JournalAssumption DEF Conflict, TypeOK
    <2>5. QED
      BY <1>0, <1>11, <2>3, <2>4 DEF Conflict, TypeInv, TypeOK, SnapVars
  <1>12. ASSUME NEW r \in Request, Fail(r) PROVE TypeInv'
    BY <1>0, <1>12, LeaveLoopType DEF Fail, Goto, TypeInv, TypeOK, SnapVars, States, TxStates, Outcomes
  <1>13. ASSUME NEW r \in Request, SnapshotFail(r) PROVE TypeInv'
    <2>1. pc' = [pc EXCEPT ![r] = "error"] /\ pc[r] \notin TxStates
      BY <1>13 DEF SnapshotFail, Goto, TxStates
    <2>2. tx' = [tx EXCEPT ![r] = NoTx]
      BY <1>0, <1>13, <2>1 DEF SnapshotFail, TypeOK, TxShape
    <2>3. pc' \in [Request -> States] /\ tx' \in [Request -> TxType] /\ TxShape'
      BY <2>1, <2>2, NoTxType, LocalStepType DEF States, TxStates, Outcomes
    <2>4. /\ snapTodo' \in [Request -> SUBSET Account]
          /\ snapRead' \in [Request -> {NoRead} \cup (Account \X Int)]
      BY <1>0, <1>13 DEF SnapshotFail, TypeOK
    <2>5. QED
      BY <1>0, <1>13, <2>3, <2>4 DEF SnapshotFail, TypeInv, TypeOK
  <1>14. CASE UNCHANGED vars
    BY <1>0, <1>14 DEF vars, TypeInv, TypeOK, TxShape
  <1>15. QED
    BY <1>1, <1>2, <1>3, <1>4, <1>5, <1>6, <1>7, <1>8, <1>9, <1>10, <1>11, <1>12, <1>13, <1>14
    DEF Next, Step, Fault, AllReturned

\* Every variable of the posting protocol keeps its type: no interleaving,
\* failure or retry of postJournalEntry() reaches an ill-formed row, balance,
\* snapshot or transaction state.
THEOREM TypeCorrect == Spec => []TypeOK
  <1>1. Spec => []TypeInv
    BY TypeInit, TypeNext, PTL DEF Spec
  <1>2. TypeInv => TypeOK
    BY DEF TypeInv
  <1>3. QED
    BY <1>1, <1>2, PTL

-----------------------------------------------------------------------------
(* The inductive invariant behind NoOverdraft.                             *)

\* An advisory lock key has one holder.
LockExclusion ==
  \A r, q \in Request : r # q =>
    \A a \in tx[r].locked, b \in tx[q].locked : LockKey[a] # LockKey[b]

\* What the position s of request r says about its transaction t: it runs only
\* for valid journals, past "lock" it holds every lock, past "check" it has
\* passed every balance check, and it checks only what it has locked.
Discipline(r, s, t) ==
  /\ s \in TxStates => Valid(r)
  /\ s \in TxStates \ {"lock"} => LockAccounts(r) \subseteq t.locked
  /\ s \in TxStates \ {"lock", "check"} => BalanceChecks(r) \subseteq t.checked
  /\ t.checked \subseteq t.locked
  /\ t.checked \subseteq BalanceChecks(r)

\* The uncommitted effect of t on a guarded account is nothing until its line
\* is inserted, and never takes more than the checked line allows.
Covered(r, t) ==
  \A a \in GuardedAccount :
    /\ (\A j \in DOMAIN Lines(r) : Lines(r)[j].account = a => t.next <= j) => t.delta[a] = 0
    /\ \/ t.delta[a] >= 0
       \/ /\ a \in t.checked
          /\ t.delta[a] >= -toFixed(Lines(r)[FirstLine(r, a)].amount)

SafeInv ==
  /\ LockExclusion
  /\ \A r \in Request : Discipline(r, pc[r], tx[r]) /\ Covered(r, tx[r])
  /\ CheckNeverStale
  /\ NoOverdraft

\* On a guarded account a checking journal has one line: the one that is
\* checked is the one that is inserted.
LEMMA FirstLineUnique ==
  ASSUME NEW r \in Request, NEW a \in GuardedAccount, a \in Journal[r].check,
         NEW i \in DOMAIN Lines(r), Lines(r)[i].account = a
  PROVE  FirstLine(r, a) = i
  <1>1. \A j \in DOMAIN Lines(r) : Lines(r)[j].account = a => j = i
    BY DEF GuardedAccount, Touching
  <1>2. i <= i
    BY LinesType
  <1>3. QED
    BY <1>1, <1>2 DEF FirstLine

\* On a guarded account the line a transaction inserts is the checked one.
LEMMA CheckedAmount ==
  ASSUME NEW r \in Request, NEW a \in GuardedAccount, a \in BalanceChecks(r)
  PROVE  Lines(r)[FirstLine(r, a)].amount \in Int
  <1>1. PICK i \in DOMAIN Lines(r) : Lines(r)[i].account = a
    BY DEF BalanceChecks, Affected
  <1>2. FirstLine(r, a) = i
    BY <1>1, FirstLineUnique DEF BalanceChecks
  <1>3. QED
    BY <1>1, <1>2, LinesType DEF LineType

\* A balance that covers the amount as requested covers it as persisted.
LEMMA RoundingCovered ==
  ASSUME NEW b \in Int, NEW h \in Int, 2 * b >= h
  PROVE  b >= toFixed(h)
  BY DEF toFixed

\* A transaction past its checks holds every lock and passed every check.
LEMMA PhaseDiscipline ==
  ASSUME NEW r, NEW t
  PROVE  /\ Phase(r, t) # "lock" => LockAccounts(r) \subseteq t.locked
         /\ Phase(r, t) \notin {"lock", "check"} => BalanceChecks(r) \subseteq t.checked
  BY DEF Phase

\* A closed transaction holds no lock, check or row.
LEMMA NoTxSafe ==
  ASSUME NEW r \in Request, NEW s,
         s \in TxStates => Valid(r) /\ s = Phase(r, NoTx)
  PROVE  Discipline(r, s, NoTx) /\ Covered(r, NoTx)
  <1>1. NoTx.checked = {} /\ NoTx.locked = {} /\ \A a \in Account : NoTx.delta[a] = 0
    BY DEF NoTx
  <1>2. Discipline(r, s, NoTx)
    BY <1>1, PhaseDiscipline DEF Discipline
  <1>3. Covered(r, NoTx)
    BY <1>1 DEF Covered, GuardedAccount
  <1>4. QED
    BY <1>2, <1>3

\* A step of one request that leaves the balances alone and takes no lock
\* another request holds.
LEMMA LocalStepSafe ==
  ASSUME TypeInv, SafeInv, NEW r \in Request, NEW s, NEW t,
         pc' = [pc EXCEPT ![r] = s], tx' = [tx EXCEPT ![r] = t], bal' = bal,
         \A q \in Request \ {r} : \A a \in t.locked, b \in tx[q].locked : LockKey[a] # LockKey[b],
         Discipline(r, s, t), Covered(r, t),
         \A a \in GuardedAccount \cap t.checked : Sufficient(r, a)
  PROVE  SafeInv'
  <1>1. /\ tx'[r] = t /\ pc'[r] = s
        /\ \A q \in Request \ {r} : tx'[q] = tx[q] /\ pc'[q] = pc[q]
    BY DEF TypeInv, TypeOK
  <1>2. LockExclusion'
    BY <1>1 DEF SafeInv, LockExclusion
  <1>3. \A q \in Request : Discipline(q, pc'[q], tx'[q]) /\ Covered(q, tx'[q])
    BY <1>1 DEF SafeInv
  <1>4. CheckNeverStale'
    BY <1>1 DEF SafeInv, CheckNeverStale, Sufficient
  <1>5. NoOverdraft'
    BY DEF SafeInv, NoOverdraft
  <1>6. QED
    BY <1>2, <1>3, <1>4, <1>5 DEF SafeInv

\* Rolling back, being rejected, or retrying leaves the invariant alone.
LEMMA RollbackSafe ==
  ASSUME TypeInv, SafeInv, NEW r \in Request, NEW s,
         pc' = [pc EXCEPT ![r] = s], EndTx(r), bal' = bal,
         s \in TxStates => Valid(r) /\ s = Phase(r, NoTx)
  PROVE  SafeInv'
  <1>1. tx' = [tx EXCEPT ![r] = NoTx]
    BY DEF EndTx
  <1>2. NoTx.locked = {} /\ NoTx.checked = {}
    BY DEF NoTx
  <1>3. Discipline(r, s, NoTx) /\ Covered(r, NoTx)
    BY NoTxSafe
  <1>4. QED
    BY <1>1, <1>2, <1>3, LocalStepSafe

\* Publishing a transaction's rows: its own effect is covered by its check,
\* and any other transaction that has checked the same account would have to
\* hold the same lock.
LEMMA PublishSafe ==
  ASSUME TypeInv, SafeInv, NEW r \in Request, NEW s,
         pc' = [pc EXCEPT ![r] = s], s \notin TxStates, Publish(r)
  PROVE  SafeInv'
  <1>1. /\ tx'[r] = NoTx /\ pc'[r] = s
        /\ \A q \in Request \ {r} : tx'[q] = tx[q] /\ pc'[q] = pc[q]
    BY DEF TypeInv, TypeOK, Publish, LeaveLoop, EndTx
  <1>2. NoTx.locked = {} /\ NoTx.checked = {}
    BY DEF NoTx
  <1>3. LockExclusion'
    BY <1>1, <1>2 DEF SafeInv, LockExclusion
  <1>4. \A q \in Request : Discipline(q, pc'[q], tx'[q]) /\ Covered(q, tx'[q])
    BY <1>1, NoTxSafe DEF SafeInv
  <1>5. ASSUME NEW a \in GuardedAccount
        PROVE  /\ a \in Account /\ bal[a] \in Int /\ tx[r].delta[a] \in Int
               /\ bal'[a] = bal[a] + tx[r].delta[a] /\ bal[a] >= 0
               /\ tx[r].delta[a] >= 0 \/ a \in tx[r].checked
    <2>1. a \in Account /\ bal[a] \in Int /\ tx[r].delta[a] \in Int
      BY DEF GuardedAccount, TypeInv, TypeOK, TxType
    <2>2. bal'[a] = bal[a] + tx[r].delta[a]
      BY <2>1 DEF Publish
    <2>3. bal[a] >= 0 /\ (tx[r].delta[a] >= 0 \/ a \in tx[r].checked)
      BY DEF SafeInv, NoOverdraft, Covered
    <2>4. QED
      BY <2>1, <2>2, <2>3
  <1>6. ASSUME NEW a \in GuardedAccount PROVE bal'[a] >= 0
    <2>1. CASE tx[r].delta[a] >= 0
      BY <1>5, <2>1
    <2>2. CASE ~(tx[r].delta[a] >= 0)
      <3> DEFINE h == Lines(r)[FirstLine(r, a)].amount
      <3>1. a \in tx[r].checked /\ tx[r].delta[a] >= -toFixed(h)
        BY <2>2 DEF SafeInv, Covered
      <3>2. h \in Int
        BY <3>1, CheckedAmount DEF SafeInv, Discipline
      <3>3. 2 * bal[a] >= h
        BY <3>1 DEF SafeInv, CheckNeverStale, Sufficient
      <3>4. toFixed(h) \in Int /\ bal[a] >= toFixed(h)
        BY <1>5, <3>2, <3>3, RoundingCovered DEF toFixed
      <3>5. QED
        BY <1>5, <3>1, <3>4
    <2>3. QED
      BY <2>1, <2>2
  <1>7. ASSUME NEW q \in Request, NEW a \in GuardedAccount, a \in tx'[q].checked
        PROVE  Sufficient(q, a)'
    <2>1. q # r /\ a \in tx[q].checked
      BY <1>1, <1>2, <1>7
    <2>2. a \in tx[q].locked /\ a \in BalanceChecks(q)
      BY <2>1 DEF SafeInv, Discipline
    <2>3. a \notin tx[r].checked
      BY <2>1, <2>2 DEF SafeInv, Discipline, LockExclusion
    <2>4. tx[r].delta[a] >= 0
      BY <1>5, <2>3
    <2>5. 2 * bal[a] >= Lines(q)[FirstLine(q, a)].amount
      BY <2>1 DEF SafeInv, CheckNeverStale, Sufficient
    <2>6. Lines(q)[FirstLine(q, a)].amount \in Int
      BY <2>2, CheckedAmount
    <2>7. 2 * bal'[a] >= Lines(q)[FirstLine(q, a)].amount
      BY <1>5, <2>4, <2>5, <2>6
    <2>8. QED
      BY <2>7 DEF Sufficient
  <1>8. CheckNeverStale' /\ NoOverdraft'
    BY <1>6, <1>7 DEF CheckNeverStale, NoOverdraft
  <1>9. QED
    BY <1>3, <1>4, <1>8 DEF SafeInv

\* Inserting a line keeps the transaction's effect within what was checked.
LEMMA InsertCovered ==
  ASSUME TypeInv, SafeInv, NEW r \in Request, pc[r] = "insert",
         NEW t, t.checked = tx[r].checked, t.next = tx[r].next + 1,
         t.delta = [tx[r].delta EXCEPT ![Lines(r)[tx[r].next].account] =
                      @ + Signed(Lines(r)[tx[r].next].entryType, toFixed(Lines(r)[tx[r].next].amount))]
  PROVE  Covered(r, t)
  <1> DEFINE i == tx[r].next
             l == Lines(r)[i]
  <1>1. i \in DOMAIN Lines(r) /\ i \in Nat /\ l \in LineType
    BY LinesType DEF TypeInv, TxShape
  <1>2. Valid(r) /\ BalanceChecks(r) \subseteq tx[r].checked /\ Covered(r, tx[r])
    BY DEF SafeInv, Discipline, TxStates
  <1>3. l.account \in Account /\ l.amount \in Int /\ l.amount > 0 /\ l.entryType \in {"DEBIT", "CREDIT"}
    BY <1>1, <1>2 DEF Valid, LineType, EntryType
  <1>4. toFixed(l.amount) \in Int /\ toFixed(l.amount) >= 0
    BY <1>3 DEF toFixed
  <1>5. tx[r].delta \in [Account -> Int]
    BY DEF TypeInv, TypeOK, TxType
  <1> SUFFICES ASSUME NEW a \in GuardedAccount
               PROVE  /\ (\A j \in DOMAIN Lines(r) : Lines(r)[j].account = a => t.next <= j) => t.delta[a] = 0
                      /\ \/ t.delta[a] >= 0
                         \/ /\ a \in t.checked
                            /\ t.delta[a] >= -toFixed(Lines(r)[FirstLine(r, a)].amount)
    BY DEF Covered
  <1>6. a \in Account
    BY DEF GuardedAccount
  <1>7. CASE l.account # a
    <2>1. t.delta[a] = tx[r].delta[a]
      BY <1>3, <1>5, <1>6, <1>7
    <2>2. \A j \in DOMAIN Lines(r) : j \in Nat /\ (t.next <= j => i <= j)
      BY <1>1, LinesType
    <2>3. QED
      BY <1>2, <2>1, <2>2 DEF Covered
  <1>8. CASE l.account = a
    <2>1. t.delta[a] = tx[r].delta[a] + Signed(l.entryType, toFixed(l.amount))
      BY <1>3, <1>5, <1>6, <1>8
    <2>2. ~(\A j \in DOMAIN Lines(r) : Lines(r)[j].account = a => t.next <= j)
      BY <1>1, <1>8
    <2>3. CASE l.entryType = "DEBIT"
      <3>1. t.delta[a] = tx[r].delta[a] + toFixed(l.amount)
        BY <2>1, <2>3 DEF Signed
      <3>2. CASE tx[r].delta[a] >= 0
        BY <1>4, <1>5, <1>6, <2>2, <3>1, <3>2
      <3>3. CASE ~(tx[r].delta[a] >= 0)
        <4>1. a \in tx[r].checked /\ tx[r].delta[a] >= -toFixed(Lines(r)[FirstLine(r, a)].amount)
          BY <1>2, <3>3 DEF Covered
        <4>2. a \in BalanceChecks(r)
          BY <4>1 DEF SafeInv, Discipline
        <4>3. toFixed(Lines(r)[FirstLine(r, a)].amount) \in Int
          BY <4>2, CheckedAmount DEF toFixed
        <4>4. QED
          BY <1>4, <1>5, <1>6, <2>2, <3>1, <4>1, <4>3
      <3>4. QED
        BY <3>2, <3>3
    <2>4. CASE l.entryType = "CREDIT"
      <3>1. a \in Journal[r].check
        BY <1>1, <1>8, <2>4 DEF GuardedAccount, Touching
      <3>2. \A j \in DOMAIN Lines(r) : Lines(r)[j].account = a => i <= j
        BY <1>1, <1>8, <3>1 DEF GuardedAccount, Touching
      <3>3. tx[r].delta[a] = 0
        BY <1>2, <3>2 DEF Covered
      <3>4. FirstLine(r, a) = i
        BY <1>1, <1>8, <3>1, FirstLineUnique
      <3>5. a \in tx[r].checked
        BY <1>1, <1>2, <1>8, <3>1 DEF BalanceChecks, Affected
      <3>6. t.delta[a] = -toFixed(l.amount)
        BY <1>4, <2>1, <2>4, <3>3 DEF Signed
      <3>7. QED
        BY <1>4, <2>2, <3>4, <3>5, <3>6
    <2>5. QED
      BY <1>3, <2>3, <2>4
  <1>9. QED
    BY <1>7, <1>8

\* No call is in flight at the start, and guarded accounts are not overdrawn.
LEMMA SafeInit == Init => SafeInv
  <1> SUFFICES ASSUME Init PROVE SafeInv
    OBVIOUS
  <1>1. \A r \in Request : tx[r] = NoTx /\ pc[r] \notin TxStates
    BY DEF Init, TxStates
  <1>2. NoTx.locked = {} /\ NoTx.checked = {}
    BY DEF NoTx
  <1>3. LockExclusion /\ CheckNeverStale
    BY <1>1, <1>2 DEF LockExclusion, CheckNeverStale
  <1>4. \A r \in Request : Discipline(r, pc[r], tx[r]) /\ Covered(r, tx[r])
    BY <1>1, NoTxSafe
  <1>5. NoOverdraft
    BY DEF Init, NoOverdraft, GuardedAccount
  <1>6. QED
    BY <1>3, <1>4, <1>5 DEF SafeInv

\* Every statement of postJournalEntry() preserves the safety invariant.
LEMMA SafeNext == TypeInv /\ SafeInv /\ [Next]_vars => SafeInv'
  <1> SUFFICES ASSUME TypeInv, SafeInv, [Next]_vars PROVE SafeInv'
    OBVIOUS
  <1>a. /\ tx \in [Request -> TxType]
        /\ \A r \in Request : pc[r] \notin TxStates => tx[r] = NoTx
    BY DEF TypeInv, TypeOK, TxShape
  <1>b. \A r \in Request : /\ Discipline(r, pc[r], tx[r]) /\ Covered(r, tx[r])
                          /\ \A a \in GuardedAccount \cap tx[r].checked : Sufficient(r, a)
    BY DEF SafeInv, CheckNeverStale
  <1>c. \A r \in Request : \A q \in Request \ {r} :
          \A a \in tx[r].locked, b \in tx[q].locked : LockKey[a] # LockKey[b]
    BY DEF SafeInv, LockExclusion
  <1>1. ASSUME NEW r \in Request, Validate(r) PROVE SafeInv'
    <2> DEFINE s == IF Valid(r) THEN Phase(r, NoTx) ELSE "rejected"
    <2>1. pc' = [pc EXCEPT ![r] = s] /\ EndTx(r) /\ bal' = bal
      BY <1>1, <1>a DEF Validate, Goto, EndTx, TxStates
    <2>2. s \in TxStates => Valid(r) /\ s = Phase(r, NoTx)
      BY DEF TxStates
    <2>3. QED
      BY <2>1, <2>2, RollbackSafe
  <1>2. ASSUME NEW r \in Request, AcquireAdvisoryLock(r) PROVE SafeInv'
    <2>1. PICK a \in LockAccounts(r) :
            KeyFree(r, LockKey[a]) /\ tx' = [tx EXCEPT ![r].locked = @ \cup {a}]
      BY <1>2 DEF AcquireAdvisoryLock
    <2> DEFINE t == [tx[r] EXCEPT !.locked = @ \cup {a}]
    <2>2. tx' = [tx EXCEPT ![r] = t] /\ tx'[r] = t
      BY <1>a, <2>1
    <2>3. pc' = [pc EXCEPT ![r] = Phase(r, t)] /\ bal' = bal
      BY <1>2, <2>2 DEF AcquireAdvisoryLock, Goto
    <2>4. /\ t.locked = tx[r].locked \cup {a} /\ t.checked = tx[r].checked
          /\ t.delta = tx[r].delta /\ t.next = tx[r].next
      BY <1>a DEF TxType
    <2> HIDE DEF t
    <2>5. Valid(r)
      BY <1>2, <1>b DEF Discipline, AcquireAdvisoryLock, TxStates
    <2>6. Discipline(r, Phase(r, t), t)
      BY <1>b, <2>4, <2>5, PhaseDiscipline DEF Discipline
    <2>7. Covered(r, t)
      BY <1>b, <2>4 DEF Covered
    <2>8. \A q \in Request \ {r} : \A c \in t.locked, b \in tx[q].locked : LockKey[c] # LockKey[b]
      BY <1>c, <2>1, <2>4 DEF KeyFree
    <2>9. QED
      BY <1>b, <2>2, <2>3, <2>4, <2>6, <2>7, <2>8, LocalStepSafe
  <1>3. ASSUME NEW r \in Request, CheckBalance(r) PROVE SafeInv'
    <2>1. PICK a \in BalanceChecks(r) :
            \/ /\ Sufficient(r, a)
               /\ tx' = [tx EXCEPT ![r].checked = @ \cup {a}]
               /\ Goto(r, Phase(r, tx'[r]))
            \/ LeaveLoop(r) /\ Goto(r, "rejected")
      BY <1>3 DEF CheckBalance
    <2>2. bal' = bal
      BY <1>3 DEF CheckBalance
    <2>3. CASE LeaveLoop(r) /\ Goto(r, "rejected")
      BY <2>2, <2>3, RollbackSafe DEF LeaveLoop, Goto, TxStates
    <2>4. CASE /\ Sufficient(r, a)
               /\ tx' = [tx EXCEPT ![r].checked = @ \cup {a}]
               /\ Goto(r, Phase(r, tx'[r]))
      <3> DEFINE t == [tx[r] EXCEPT !.checked = @ \cup {a}]
      <3>1. tx' = [tx EXCEPT ![r] = t] /\ tx'[r] = t
        BY <1>a, <2>4
      <3>2. pc' = [pc EXCEPT ![r] = Phase(r, t)]
        BY <2>4, <3>1 DEF Goto
      <3>3. /\ t.locked = tx[r].locked /\ t.checked = tx[r].checked \cup {a}
            /\ t.delta = tx[r].delta /\ t.next = tx[r].next
        BY <1>a DEF TxType
      <3> HIDE DEF t
      <3>4. Valid(r) /\ a \in tx[r].locked
        BY <1>3, <1>b DEF Discipline, CheckBalance, TxStates, BalanceChecks, LockAccounts
      <3>5. Discipline(r, Phase(r, t), t)
        BY <1>b, <3>3, <3>4, PhaseDiscipline DEF Discipline
      <3>6. Covered(r, t)
        BY <1>b, <3>3 DEF Covered
      <3>7. \A c \in GuardedAccount \cap t.checked : Sufficient(r, c)
        BY <1>b, <2>4, <3>3
      <3>8. QED
        BY <1>c, <2>2, <3>1, <3>2, <3>3, <3>5, <3>6, <3>7, LocalStepSafe
    <2>5. QED
      BY <2>1, <2>3, <2>4
  <1>4. ASSUME NEW r \in Request, CheckLimit(r) PROVE SafeInv'
    <2>1. PICK c :
            \/ /\ tx' = [tx EXCEPT ![r].limited = @ \cup {c}]
               /\ Goto(r, Phase(r, tx'[r]))
            \/ LeaveLoop(r) /\ Goto(r, "rejected")
      BY <1>4 DEF CheckLimit
    <2>2. bal' = bal
      BY <1>4 DEF CheckLimit
    <2>3. CASE LeaveLoop(r) /\ Goto(r, "rejected")
      BY <2>2, <2>3, RollbackSafe DEF LeaveLoop, Goto, TxStates
    <2>4. CASE /\ tx' = [tx EXCEPT ![r].limited = @ \cup {c}]
               /\ Goto(r, Phase(r, tx'[r]))
      <3> DEFINE t == [tx[r] EXCEPT !.limited = @ \cup {c}]
      <3>1. tx' = [tx EXCEPT ![r] = t] /\ tx'[r] = t
        BY <1>a, <2>4
      <3>2. pc' = [pc EXCEPT ![r] = Phase(r, t)]
        BY <2>4, <3>1 DEF Goto
      <3>3. /\ t.locked = tx[r].locked /\ t.checked = tx[r].checked
            /\ t.delta = tx[r].delta /\ t.next = tx[r].next
        BY <1>a DEF TxType
      <3> HIDE DEF t
      <3>4. Valid(r)
        BY <1>4, <1>b DEF Discipline, CheckLimit, TxStates
      <3>5. Discipline(r, Phase(r, t), t)
        BY <1>b, <3>3, <3>4, PhaseDiscipline DEF Discipline
      <3>6. Covered(r, t)
        BY <1>b, <3>3 DEF Covered
      <3>7. /\ \A q \in Request \ {r} : \A a \in t.locked, b \in tx[q].locked : LockKey[a] # LockKey[b]
            /\ \A a \in GuardedAccount \cap t.checked : Sufficient(r, a)
        BY <1>b, <1>c, <3>3
      <3>8. QED
        BY <2>2, <3>1, <3>2, <3>5, <3>6, <3>7, LocalStepSafe
    <2>5. QED
      BY <2>1, <2>3, <2>4
  <1>5. ASSUME NEW r \in Request, ReadTail(r) \/ LockTail(r) PROVE SafeInv'
    <2>1. PICK s \in {"tailWait", "insert"} : pc' = [pc EXCEPT ![r] = s]
      BY <1>5 DEF ReadTail, LockTail, Goto
    <2>2. PICK p : \/ tx' = [tx EXCEPT ![r].prev = p]
                   \/ tx' = [tx EXCEPT ![r].rowLock = p]
      BY <1>5 DEF ReadTail, LockTail
    <2>3. tx' = [tx EXCEPT ![r] = tx'[r]] /\ bal' = bal
      BY <1>5, <1>a, <2>2 DEF ReadTail, LockTail
    <2>4. /\ tx'[r].locked = tx[r].locked /\ tx'[r].checked = tx[r].checked
          /\ tx'[r].delta = tx[r].delta /\ tx'[r].next = tx[r].next
      BY <1>a, <2>2 DEF TxType
    <2>5. Discipline(r, s, tx'[r])
      BY <1>5, <1>b, <2>4 DEF Discipline, ReadTail, LockTail, TxStates
    <2>6. Covered(r, tx'[r])
      BY <1>b, <2>4 DEF Covered
    <2>7. /\ \A q \in Request \ {r} : \A a \in tx'[r].locked, b \in tx[q].locked : LockKey[a] # LockKey[b]
          /\ \A a \in GuardedAccount \cap tx'[r].checked : Sufficient(r, a)
      BY <1>b, <1>c, <2>4
    <2>8. QED
      BY <2>1, <2>3, <2>5, <2>6, <2>7, LocalStepSafe
  <1>6. ASSUME NEW r \in Request, InsertEntry(r) PROVE SafeInv'
    <2>1. PICK n : tx' = [tx EXCEPT ![r].pending = @ \cup {NewRow(r, n + 1)},
                             ![r].delta[NewRow(r, n + 1).account] =
                                @ + Signed(NewRow(r, n + 1).entryType, NewRow(r, n + 1).amount),
                             ![r].prev = NewRow(r, n + 1).id,
                             ![r].next = @ + 1]
      BY <1>6 DEF InsertEntry
    <2> DEFINE l == Lines(r)[tx[r].next]
               d == [tx[r].delta EXCEPT ![l.account] = @ + Signed(l.entryType, toFixed(l.amount))]
    <2>2. /\ NewRow(r, n + 1).account = l.account /\ NewRow(r, n + 1).amount = toFixed(l.amount)
          /\ NewRow(r, n + 1).entryType = l.entryType
      BY DEF NewRow
    <2>3. tx' = [tx EXCEPT ![r] = tx'[r]]
      BY <1>a, <2>1
    <2>4. /\ tx'[r].locked = tx[r].locked /\ tx'[r].checked = tx[r].checked
          /\ tx'[r].next = tx[r].next + 1
          /\ tx'[r].delta = d
      BY <1>a, <2>1, <2>2 DEF TxType
    <2>5. PICK s \in {"insert", "commit"} : pc' = [pc EXCEPT ![r] = s]
      BY <1>6 DEF InsertEntry, Goto
    <2>6. pc[r] = "insert" /\ bal' = bal
      BY <1>6 DEF InsertEntry
    <2>7. Discipline(r, s, tx'[r])
      BY <1>b, <2>4, <2>6 DEF Discipline, TxStates
    <2>8. Covered(r, tx'[r])
      BY <2>4, <2>6, InsertCovered
    <2>9. /\ \A q \in Request \ {r} : \A a \in tx'[r].locked, b \in tx[q].locked : LockKey[a] # LockKey[b]
          /\ \A a \in GuardedAccount \cap tx'[r].checked : Sufficient(r, a)
      BY <1>b, <1>c, <2>4
    <2>10. QED
      BY <2>3, <2>5, <2>6, <2>7, <2>8, <2>9, LocalStepSafe
  <1>7. ASSUME NEW r \in Request, Commit(r) \/ CommitUnacknowledged(r) PROVE SafeInv'
    BY <1>7, PublishSafe DEF Commit, CommitUnacknowledged, Goto, TxStates
  <1>8. ASSUME NEW r \in Request, DeriveSnapshot(r) PROVE SafeInv'
    BY <1>8 DEF DeriveSnapshot, SafeInv, LockExclusion, CheckNeverStale, Sufficient, NoOverdraft
  <1>9. ASSUME NEW r \in Request, CreateSnapshot(r) \/ SnapshotFail(r) PROVE SafeInv'
    <2>1. PICK s \in {"done", "snapshot", "error"} : pc' = [pc EXCEPT ![r] = s]
      BY <1>9 DEF CreateSnapshot, SnapshotFail, Goto
    <2>2. pc[r] = "snapshot" /\ bal' = bal /\ tx' = tx
      BY <1>9 DEF CreateSnapshot, SnapshotFail
    <2>3. EndTx(r)
      BY <1>a, <2>2 DEF EndTx, TxStates
    <2>4. QED
      BY <2>1, <2>2, <2>3, RollbackSafe DEF TxStates
  <1>10. ASSUME NEW r \in Request, Conflict(r) PROVE SafeInv'
    <2>1. pc' = [pc EXCEPT ![r] = Phase(r, NoTx)] /\ EndTx(r) /\ bal' = bal
      BY <1>10 DEF Conflict, Goto
    <2>2. Valid(r)
      BY <1>10, <1>b DEF Conflict, Discipline
    <2>3. QED
      BY <2>1, <2>2, RollbackSafe
  <1>11. ASSUME NEW r \in Request, Fail(r) PROVE SafeInv'
    BY <1>11, RollbackSafe DEF Fail, LeaveLoop, Goto, TxStates
  <1>12. CASE UNCHANGED vars
    BY <1>12 DEF vars, SafeInv, LockExclusion, CheckNeverStale, Sufficient, NoOverdraft
  <1>13. QED
    BY <1>1, <1>2, <1>3, <1>4, <1>5, <1>6, <1>7, <1>8, <1>9, <1>10, <1>11, <1>12
    DEF Next, Step, Fault, AllReturned

\* The inductive invariant holds in every reachable state.
LEMMA SafeAlways == Spec => [](TypeInv /\ SafeInv)
  BY TypeInit, TypeNext, SafeInit, SafeNext, PTL DEF Spec

\* However balance-checked postings interleave, fail and are retried, no
\* account that only checked journals credit is ever overdrawn, although
\* amounts are rounded after the check and deposits take no lock.
THEOREM NeverOverdrawn == Spec => []NoOverdraft
  <1>1. SafeInv => NoOverdraft
    BY DEF SafeInv
  <1>2. QED
    BY <1>1, SafeAlways, PTL

\* The balance a transaction has checked still covers its line at every later
\* moment of the transaction, COMMIT included: the check-then-act in
\* postJournalEntry() is closed by the advisory lock.
THEOREM ChecksStayValid == Spec => []CheckNeverStale
  <1>1. SafeInv => CheckNeverStale
    BY DEF SafeInv
  <1>2. QED
    BY <1>1, SafeAlways, PTL
=============================================================================
