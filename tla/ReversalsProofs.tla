-------------------------- MODULE ReversalsProofs --------------------------
(***************************************************************************)
(* Proofs about reversals and refunds, for any number of calls, originals  *)
(* and entries.  The argument is the advisory lock: only the call that     *)
(* holds the lock of an original is past its check (Holding), so what it   *)
(* found out about the recorded reversals (Cleared) still holds when it    *)
(* commits.                                                                *)
(***************************************************************************)
EXTENDS Reversals, SumTheorems

-----------------------------------------------------------------------------
(* What the code computes from the original entries.                       *)

\* Max() finds the largest element of a finite set.
LEMMA MaxOfFinite ==
  ASSUME NEW S, IsFiniteSet(S), S # {}, S \subseteq Int
  PROVE  Max(S) \in S /\ \A x \in S : x <= Max(S)
  <1>1. \E m \in S : \A y \in S : m >= y
    BY FiniteMax
  <1>2. Max(S) \in S /\ \A y \in S : Max(S) >= y
    BY <1>1 DEF Max
  <1>3. QED
    BY <1>2

\* Entries are finite, typed sequences of positive amounts.
LEMMA EntriesType ==
  ASSUME NEW o \in Original
  PROVE  /\ Entries[o] \in Seq(LineType)
         /\ Len(Entries[o]) \in Nat
         /\ DOMAIN Entries[o] = 1 .. Len(Entries[o])
         /\ IsFiniteSet(DOMAIN Entries[o])
         /\ \A i \in DOMAIN Entries[o] : Entries[o][i] \in LineType /\ Entries[o][i].amount > 0
  <1>1. Entries[o] \in Seq(LineType)
    BY ReversalAssumption
  <1>2. Len(Entries[o]) \in Nat /\ DOMAIN Entries[o] = 1 .. Len(Entries[o])
    BY <1>1
  <1>3. IsFiniteSet(DOMAIN Entries[o])
    BY <1>2, FS_Interval
  <1>4. \A i \in DOMAIN Entries[o] : Entries[o][i] \in LineType
    BY <1>1
  <1>5. QED
    BY <1>1, <1>2, <1>3, <1>4, ReversalAssumption

\* deriveOriginalAmount() returns a number, never a negative one.
LEMMA OriginalAmountType ==
  ASSUME NEW o \in Original
  PROVE  OriginalAmount[o] \in Nat
  <1> DEFINE S == {Entries[o][i].amount : i \in Economic(o)}
  <1>1. Economic(o) \subseteq DOMAIN Entries[o]
    BY DEF Economic
  <1>2. IsFiniteSet(S)
    <2> DEFINE f == [i \in Economic(o) |-> Entries[o][i].amount]
    <2>1. IsFiniteSet(Economic(o))
      BY <1>1, EntriesType, FS_Subset
    <2>2. f \in Surjection(Economic(o), S)
      BY DEF Surjection
    <2>3. QED
      BY <2>1, <2>2, FS_Surjection
  <1>3. IsFiniteSet({0} \cup S)
    BY <1>2, FS_Singleton, FS_Union
  <1>4. {0} \cup S \subseteq Int
    BY <1>1, EntriesType DEF LineType
  <1>5. Max({0} \cup S) \in Int /\ 0 <= Max({0} \cup S)
    BY <1>3, <1>4, MaxOfFinite
  <1>6. QED
    BY <1>5 DEF OriginalAmount

\* Requests are typed.
LEMMA ReqFacts ==
  ASSUME NEW r \in Request
  PROVE  /\ Req[r] \in ReqType /\ Req[r].original \in Original /\ Req[r].key \in Key
         /\ Req[r].kind \in {"full", "partial"} /\ Req[r].refund \in Int
         /\ Req[r].policy \in Policy /\ Req[r].fee \in Nat
  BY ReversalAssumption DEF ReqType

\* toFixed() rounds by at most half a unit.
LEMMA Rounding ==
  ASSUME NEW h \in Int
  PROVE  toFixed(h) \in Int /\ 2 * toFixed(h) <= h + 1 /\ h <= 2 * toFixed(h)
  BY DEF toFixed

\* The fee part of a refund is a whole number of half-units.
LEMMA FeeType ==
  ASSUME NEW r \in Request
  PROVE  FeeRefund(Req[r]) \in Int
  <1> DEFINE q == Req[r]
             n == OriginalAmount[q.original]
  <1>1. n \in Nat /\ q.refund \in Int /\ q.fee \in Nat /\ q.policy \in Policy
    BY ReqFacts, OriginalAmountType
  <1>2. q.refund * q.fee + 2 * n \in Int
    BY <1>1
  <1>3. n # 0 => 2 * ((q.refund * q.fee + 2 * n) \div (4 * n)) \in Int
    <2>1. n # 0 => 4 * n > 0 /\ 4 * n \in Int
      BY <1>1
    <2>2. \A x, y \in Int : y > 0 => 2 * (x \div y) \in Int
      OBVIOUS
    <2>3. QED
      BY <1>2, <2>1, <2>2
  <1>4. CASE q.policy = "FULL"
    BY <1>1, <1>4 DEF FeeRefund
  <1>5. CASE q.policy = "NONE"
    BY <1>1, <1>5 DEF FeeRefund
  <1>6. CASE q.policy = "PROPORTIONAL"
    BY <1>1, <1>3, <1>6 DEF FeeRefund
  <1>7. QED
    BY <1>1, <1>4, <1>5, <1>6 DEF Policy

\* The concatenation of typed lines that starts with one is a journal.
LEMMA JoinType ==
  ASSUME NEW x \in LineType, NEW s \in Seq(LineType), NEW y \in LineType
  PROVE  << x >> \o s \o << y >> \in Seq(LineType) /\ << x >> \o s \o << y >> # <<>>
  <1>1. << x >> \in Seq(LineType) /\ << y >> \in Seq(LineType) /\ Len(<< x >>) = 1 /\ Len(<< y >>) = 1
    OBVIOUS
  <1>2. << x >> \o s \in Seq(LineType) /\ Len(<< x >> \o s) = 1 + Len(s)
    BY <1>1
  <1>3. << x >> \o s \o << y >> \in Seq(LineType) /\ Len(<< x >> \o s \o << y >>) = 2 + Len(s)
    BY <1>1, <1>2
  <1>4. Len(s) \in Nat /\ Len(<<>>) = 0
    OBVIOUS
  <1>5. QED
    BY <1>3, <1>4

\* The mirror of an original has its lines, with their sides exchanged.
LEMMA MirrorType ==
  ASSUME NEW o \in Original
  PROVE  /\ MirrorLines(o) \in Seq(LineType)
         /\ DOMAIN MirrorLines(o) = DOMAIN Entries[o]
         /\ Entries[o] # <<>> => MirrorLines(o) # <<>>
         /\ \A i \in DOMAIN Entries[o] :
              /\ MirrorLines(o)[i].account = Entries[o][i].account
              /\ MirrorLines(o)[i].entryType = Flip(Entries[o][i].entryType)
              /\ MirrorLines(o)[i].amount = Entries[o][i].amount
  <1> DEFINE n == Len(Entries[o])
  <1>1. n \in Nat /\ DOMAIN Entries[o] = 1 .. n /\ \A i \in 1 .. n : Entries[o][i] \in LineType
    BY EntriesType
  <1>2. \A i \in 1 .. n : /\ MirrorLines(o)[i] \in LineType
                          /\ MirrorLines(o)[i].account = Entries[o][i].account
                          /\ MirrorLines(o)[i].entryType = Flip(Entries[o][i].entryType)
                          /\ MirrorLines(o)[i].amount = Entries[o][i].amount
    BY <1>1 DEF MirrorLines, LineType, EntryType, Flip
  <1>3. DOMAIN MirrorLines(o) = 1 .. n
    BY <1>1 DEF MirrorLines
  <1>4. MirrorLines(o) = [i \in 1 .. n |-> MirrorLines(o)[i]]
    BY <1>1 DEF MirrorLines
  <1>5. MirrorLines(o) \in [1 .. n -> LineType]
    BY <1>2, <1>4
  <1>6. MirrorLines(o) \in Seq(LineType)
    BY <1>1, <1>5
  <1>7. Entries[o] # <<>> => MirrorLines(o) # <<>>
    <2>1. Entries[o] # <<>> => n # 0
      BY EntriesType
    <2>2. Len(MirrorLines(o)) = n
      BY <1>1, <1>3, <1>6
    <2>3. QED
      BY <2>1, <2>2
  <1>8. QED
    BY <1>1, <1>2, <1>3, <1>6, <1>7

\* A refund has a debit and a credit at least, and integer amounts.
LEMMA RefundType ==
  ASSUME NEW r \in Request, NEW p \in RefundLines(Req[r])
  PROVE  p \in Seq(LineType) /\ p # <<>>
  <1> DEFINE q == Req[r]
             es == Entries[q.original]
             f == FeeRefund(q)
             Fees(w) == {i \in DOMAIN es : es[i].entryType = "CREDIT" /\ es[i].account # es[w].account}
             FeeLines(w) == IF f > 0 /\ Len(es) > 2 /\ Fees(w) # {}
                            THEN {<< Line(es[k].account, "DEBIT", toFixed(f)) >> : k \in Fees(w)}
                            ELSE {<< >>}
             Refund(w, m, fee) ==
               << Line(es[m].account, "DEBIT", toFixed(q.refund)) >> \o fee
               \o << Line(es[w].account, "CREDIT", toFixed(q.refund + f)) >>
             Journals(w) ==
               {Refund(w, m, fee) : m \in Largest(es, DOMAIN es \ {w}), fee \in FeeLines(w)}
  <1>1. PICK w \in Largest(es, DOMAIN es) : p \in Journals(w)
    <2>0. RefundLines(Req[r]) = UNION {Journals(w) : w \in Largest(es, DOMAIN es)}
      BY DEF RefundLines
    <2> HIDE DEF Journals
    <2>1. p \in UNION {Journals(w) : w \in Largest(es, DOMAIN es)}
      BY <2>0
    <2>2. QED
      BY <2>1
  <1>2. PICK m \in Largest(es, DOMAIN es \ {w}), fee \in FeeLines(w) : p = Refund(w, m, fee)
    <2> HIDE DEF Refund, FeeLines
    <2>1. QED
      BY <1>1
  <1>3. \A i \in DOMAIN es : es[i].account \in Account
    BY EntriesType, ReqFacts DEF LineType
  <1>4. w \in DOMAIN es /\ m \in DOMAIN es
    BY DEF Largest
  <1>5. f \in Int /\ q.refund \in Int /\ q.refund + f \in Int
    BY FeeType, ReqFacts
  <1>6. toFixed(f) \in Int /\ toFixed(q.refund) \in Int /\ toFixed(q.refund + f) \in Int
    BY <1>5, Rounding
  <1>7. \A a \in Account, t \in EntryType, n \in Int : Line(a, t, n) \in LineType
    BY DEF Line, LineType
  <1>8. fee \in Seq(LineType)
    <2>1. fee = << >> \/ \E k \in Fees(w) : fee = << Line(es[k].account, "DEBIT", toFixed(f)) >>
      BY <1>2
    <2>2. \A k \in Fees(w) : Line(es[k].account, "DEBIT", toFixed(f)) \in LineType
      BY <1>3, <1>6, <1>7 DEF EntryType
    <2>3. << >> \in Seq(LineType) /\ \A x \in LineType : << x >> \in Seq(LineType)
      OBVIOUS
    <2> HIDE DEF FeeLines, Fees, es
    <2>4. QED
      BY <2>1, <2>2, <2>3
  <1>9. /\ Line(es[m].account, "DEBIT", toFixed(q.refund)) \in LineType
        /\ Line(es[w].account, "CREDIT", toFixed(q.refund + f)) \in LineType
    BY <1>3, <1>4, <1>6, <1>7 DEF EntryType
  <1>10. QED
    BY <1>2, <1>8, <1>9, JoinType

\* What an acceptable call may post is a nonempty journal.
LEMMA PlanType ==
  ASSUME NEW r \in Request, Acceptable(Req[r]), NEW p \in Plans[r]
  PROVE  p \in Seq(LineType) /\ p # <<>>
  <1>1. CASE Req[r].kind = "full"
    BY <1>1, MirrorType, ReqFacts DEF Plans, Acceptable
  <1>2. CASE Req[r].kind # "full"
    BY <1>2, RefundType DEF Plans
  <1>3. QED
    BY <1>1, <1>2

\* The record of a reversal.
LEMMA RowFacts ==
  ASSUME NEW r \in Request
  PROVE  /\ RowOf[r] \in RowType
         /\ RowOf[r].by = r /\ RowOf[r].original = Req[r].original /\ RowOf[r].key = Req[r].key
         /\ RowOf[r].amount \in Int
         /\ Req[r].kind = "full" => /\ RowOf[r].policy = "FULL"
                                    /\ RowOf[r].amount = OriginalAmount[Req[r].original]
         /\ Req[r].kind # "full" => RowOf[r].amount = toFixed(Req[r].refund)
  <1>1. OriginalAmount[Req[r].original] \in Int /\ toFixed(Req[r].refund) \in Int
        /\ toFixed(FeeRefund(Req[r])) \in Int
    BY ReqFacts, OriginalAmountType, FeeType, Rounding
  <1>2. QED
    BY <1>1, ReqFacts DEF RowOf, RowType, Policy

-----------------------------------------------------------------------------
(* The inductive invariant.                                                *)

\* A call past the lock statement holds the lock of its original.
Holding(r) == pc[r] \in TxStates \ {"lock"} => holder[Req[r].original] = <<r>>

\* A call in its transaction has a journal to post and has posted none.
Planned(r) ==
  /\ pc[r] \in TxStates => plan[r] \in Plans[r] /\ plan[r] # <<>>
  /\ pc[r] \in {"find"} \cup TxStates => journal[r] = <<>>
  /\ pc[r] = "done" => journal[r] # <<>>

\* What a call has checked so far is still true.
Cleared(r) ==
  /\ pc[r] \in {"limit", "post", "record", "commit"} => ~Blocked(r)
  /\ pc[r] \in {"post", "record", "commit"} /\ Req[r].kind # "full" => ~Exceeds(r)
  /\ pc[r] = "commit" => ~Taken(r)

\* A committed journal is one of the journals its call may post.
Committed(r) == journal[r] # <<>> => journal[r] \in Plans[r]

\* The reversals are the records of the committed journals.
Recorded ==
  /\ IsFiniteSet(rows)
  /\ \A x \in rows : x.by \in Request /\ x = RowOf[x.by] /\ journal[x.by] # <<>>
  /\ \A r \in Request : journal[r] # <<>> => RowOf[r] \in rows
  /\ \A x, y \in rows : x.original = y.original /\ x.key = y.key => x = y

\* A full reversal is the only reversal of its original.
Alone ==
  \A r, s \in Request :
    /\ journal[r] # <<>> /\ journal[s] # <<>>
    /\ Req[r].original = Req[s].original /\ Req[r].kind = "full"
    => r = s

Totalled ==
  \A o \in Original :
    /\ refunded[o] <= OriginalAmount[o]
    /\ refunded[o] = SumFunctionOnSet([x \in RowsOf(o) |-> x.amount], RowsOf(o))

IInv ==
  /\ TypeOK
  /\ \A r \in Request : Holding(r) /\ Planned(r) /\ Cleared(r) /\ Committed(r)
  /\ Recorded
  /\ Alone
  /\ Totalled

\* A lock is held or free, and by one call.
LEMMA LockFacts ==
  /\ \A r : <<r>> # Nobody
  /\ \A r, s : <<r>> = <<s>> => r = s
  BY DEF Nobody

\* Nothing is reversed at the start.
LEMMA InitIInv == Init => IInv
  <1> SUFFICES ASSUME Init PROVE IInv
    OBVIOUS
  <1>1. TypeOK
    <2>1. 1 \in 1 .. MaxRetries
      BY ReversalAssumption
    <2>2. <<>> \in Seq(LineType)
      OBVIOUS
    <2>3. QED
      BY <2>1, <2>2 DEF Init, TypeOK
  <1>2. \A r \in Request : Holding(r) /\ Planned(r) /\ Cleared(r) /\ Committed(r)
    BY DEF Init, Holding, Planned, Cleared, Committed, TxStates
  <1>3. Recorded /\ Alone
    BY FS_EmptySet DEF Init, Recorded, Alone
  <1>4. Totalled
    <2> SUFFICES ASSUME NEW o \in Original
                 PROVE  /\ refunded[o] <= OriginalAmount[o]
                        /\ refunded[o] = SumFunctionOnSet([x \in RowsOf(o) |-> x.amount], RowsOf(o))
      BY DEF Totalled
    <2>1. RowsOf(o) = {} /\ refunded[o] = 0
      BY DEF Init, RowsOf
    <2>2. SumFunctionOnSet([x \in RowsOf(o) |-> x.amount], RowsOf(o)) = 0
      BY <2>1, SumEmpty
    <2>3. 0 <= OriginalAmount[o]
      BY OriginalAmountType
    <2>4. QED
      BY <2>1, <2>2, <2>3
  <1>5. QED
    BY <1>1, <1>2, <1>3, <1>4 DEF IInv

\* A step of r that commits nothing: r goes to s with plan p, takes or keeps
\* the lock it needs and takes away nobody else's, and has made the checks s
\* stands for.
Quiet(r, s, p) ==
  /\ s \in {"find"} \cup TxStates \cup Outcomes
  /\ pc' = [pc EXCEPT ![r] = s]
  /\ plan' = [plan EXCEPT ![r] = p]
  /\ attempt' \in [Request -> 1 .. MaxRetries]
  /\ holder' \in [Original -> {Nobody} \cup {<<q>> : q \in Request}]
  /\ \A o \in Original, q \in Request : q # r /\ holder[o] = <<q>> => holder'[o] = <<q>>
  /\ UNCHANGED <<rows, journal, refunded>>
  /\ p \in Seq(LineType)
  /\ s \in TxStates => p \in Plans[r] /\ p # <<>>
  /\ s \in {"find"} \cup TxStates => journal[r] = <<>>
  /\ s # "done"
  /\ s \in TxStates \ {"lock"} => holder'[Req[r].original] = <<r>>
  /\ s \in {"limit", "post", "record", "commit"} => ~Blocked(r)
  /\ s \in {"post", "record", "commit"} /\ Req[r].kind # "full" => ~Exceeds(r)
  /\ s = "commit" => ~Taken(r)

\* A quiet step keeps the invariant.
LEMMA QuietStep ==
  ASSUME IInv, NEW r \in Request, NEW s, NEW p, Quiet(r, s, p)
  PROVE  IInv'
  <1>0. TypeOK /\ UNCHANGED <<rows, journal, refunded>>
    BY DEF IInv, Quiet
  <1>1. TypeOK'
    BY <1>0 DEF Quiet, TypeOK
  <1>2. ASSUME NEW q \in Request PROVE (Holding(q) /\ Planned(q) /\ Cleared(q) /\ Committed(q))'
    <2>0. Holding(q) /\ Planned(q) /\ Cleared(q) /\ Committed(q) /\ Req[q].original \in Original
      BY ReqFacts DEF IInv
    <2>1. CASE q = r
      <3>1. pc'[r] = s /\ plan'[r] = p
        BY <1>0 DEF Quiet, TypeOK
      <3>2. Holding(r)'
        BY <3>1 DEF Quiet, Holding
      <3>3. Planned(r)'
        BY <1>0, <3>1 DEF Quiet, Planned, Outcomes, TxStates
      <3>4. Cleared(r)'
        BY <1>0, <3>1 DEF Quiet, Cleared, Blocked, Exceeds, Taken
      <3>5. Committed(r)'
        BY <1>0, <2>0, <2>1 DEF Committed
      <3>6. QED
        BY <2>1, <3>2, <3>3, <3>4, <3>5
    <2>2. CASE q # r
      <3>1. pc'[q] = pc[q] /\ plan'[q] = plan[q]
        BY <1>0, <2>2 DEF Quiet, TypeOK
      <3>2. Holding(q)'
        BY <2>0, <2>2, <3>1 DEF Quiet, Holding
      <3>3. Planned(q)' /\ Committed(q)'
        BY <1>0, <2>0, <3>1 DEF Planned, Committed
      <3>4. Cleared(q)'
        BY <1>0, <2>0, <3>1 DEF Cleared, Blocked, Exceeds, Taken
      <3>5. QED
        BY <3>2, <3>3, <3>4
    <2>3. QED
      BY <2>1, <2>2
  <1>3. Recorded' /\ Alone' /\ Totalled'
    BY <1>0 DEF IInv, Recorded, Alone, Totalled, RowsOf
  <1>4. QED
    BY <1>1, <1>2, <1>3 DEF IInv

\* The end of r's transaction takes nobody else's lock.
LEMMA Release ==
  ASSUME TypeOK, NEW r \in Request, ReleaseLock(r)
  PROVE  /\ holder' \in [Original -> {Nobody} \cup {<<q>> : q \in Request}]
         /\ \A o \in Original, q \in Request : q # r /\ holder[o] = <<q>> => holder'[o] = <<q>>
  BY LockFacts DEF TypeOK, ReleaseLock

\* A rolled-back call keeps the invariant.
LEMMA AbandonQuiet ==
  ASSUME TypeOK, NEW r \in Request, NEW s \in {"rejected", "error"}, Abandon(r, s)
  PROVE  Quiet(r, s, <<>>)
  <1>1. 1 \in 1 .. MaxRetries /\ <<>> \in Seq(LineType)
    BY ReversalAssumption
  <1>2. /\ pc' = [pc EXCEPT ![r] = s] /\ plan' = [plan EXCEPT ![r] = <<>>]
        /\ attempt' = [attempt EXCEPT ![r] = 1] /\ ReleaseLock(r)
        /\ UNCHANGED <<rows, journal, refunded>>
    BY DEF Abandon, Leave, Goto
  <1>3. attempt' \in [Request -> 1 .. MaxRetries]
    BY <1>1, <1>2 DEF TypeOK
  <1>4. s \in Outcomes /\ s # "done" /\ s \notin TxStates /\ s # "find"
    BY DEF Outcomes, TxStates
  <1>5. QED
    BY <1>1, <1>2, <1>3, <1>4, Release DEF Quiet, TxStates

\* A step to the next statement of the transaction.
LEMMA ForwardQuiet ==
  ASSUME IInv, NEW r \in Request, NEW s \in TxStates \ {"lock"},
         pc[r] \in TxStates \ {"lock"}, Goto(r, s),
         UNCHANGED <<attempt, plan, holder, rows, journal, refunded>>,
         s \in {"limit", "post", "record", "commit"} => ~Blocked(r),
         s \in {"post", "record", "commit"} /\ Req[r].kind # "full" => ~Exceeds(r),
         s = "commit" => ~Taken(r)
  PROVE  Quiet(r, s, plan[r])
  <1>1. TypeOK /\ Holding(r) /\ Planned(r)
    BY DEF IInv
  <1>2. plan' = [plan EXCEPT ![r] = plan[r]] /\ plan[r] \in Seq(LineType)
    BY <1>1 DEF TypeOK
  <1>3. attempt' \in [Request -> 1 .. MaxRetries]
        /\ holder' \in [Original -> {Nobody} \cup {<<q>> : q \in Request}]
    BY <1>1 DEF TypeOK
  <1>4. plan[r] \in Plans[r] /\ plan[r] # <<>> /\ journal[r] = <<>>
        /\ holder'[Req[r].original] = <<r>>
    BY <1>1 DEF Holding, Planned
  <1>5. s # "done" /\ s # "find"
    BY DEF TxStates
  <1>6. QED
    BY <1>2, <1>3, <1>4, <1>5 DEF Quiet, Goto

\* Every step of a call but its commit is quiet.
LEMMA StepQuiet ==
  ASSUME IInv, NEW r \in Request, Step(r) \/ Fault(r), ~Commit(r), ~FailAfterCommit(r)
  PROVE  \E s, p : Quiet(r, s, p)
  <1>0. TypeOK /\ Holding(r) /\ Planned(r) /\ Cleared(r)
    BY DEF IInv
  <1>r. Req[r].kind \in {"full", "partial"} /\ Req[r].original \in Original
    BY ReqFacts
  <1>1. CASE FindExisting(r)
    <2>1. pc[r] = "find" /\ UNCHANGED <<attempt, holder, rows, journal, refunded>> /\ journal[r] = <<>>
      BY <1>0, <1>1 DEF FindExisting, Planned
    <2>2. CASE \E s \in {"replayed", "rejected"} : Goto(r, s) /\ UNCHANGED plan
      <3>1. PICK s \in {"replayed", "rejected"} : Goto(r, s) /\ UNCHANGED plan
        BY <2>2
      <3>2. plan' = [plan EXCEPT ![r] = plan[r]] /\ plan[r] \in Seq(LineType)
        BY <1>0, <3>1 DEF TypeOK
      <3>3. s \in Outcomes /\ s # "done" /\ s \notin TxStates /\ s # "find"
        BY DEF Outcomes, TxStates
      <3>4. Quiet(r, s, plan[r])
        BY <1>0, <2>1, <3>1, <3>2, <3>3 DEF Quiet, Goto, TypeOK, TxStates
      <3>5. QED
        BY <3>4
    <2>3. CASE Acceptable(Req[r]) /\ (\E p \in Plans[r] : plan' = [plan EXCEPT ![r] = p]) /\ Goto(r, "lock")
      <3>1. PICK p \in Plans[r] : plan' = [plan EXCEPT ![r] = p]
        BY <2>3
      <3>2. p \in Seq(LineType) /\ p # <<>>
        BY <2>3, <3>1, PlanType
      <3>3. Quiet(r, "lock", p)
        BY <1>0, <2>1, <2>3, <3>1, <3>2 DEF Quiet, Goto, TypeOK, TxStates
      <3>4. QED
        BY <3>3
    <2>4. QED
      BY <1>1, <2>2, <2>3 DEF FindExisting
  <1>2. CASE AcquireLock(r)
    <2>1. /\ pc[r] = "lock" /\ holder[Req[r].original] = Nobody
          /\ holder' = [holder EXCEPT ![Req[r].original] = <<r>>]
          /\ pc' = [pc EXCEPT ![r] = "check"]
          /\ UNCHANGED <<attempt, plan, rows, journal, refunded>>
      BY <1>2 DEF AcquireLock, Goto
    <2>2. plan[r] \in Plans[r] /\ plan[r] # <<>> /\ journal[r] = <<>>
      BY <1>0, <2>1 DEF Planned, TxStates
    <2>3. plan' = [plan EXCEPT ![r] = plan[r]] /\ plan[r] \in Seq(LineType)
      BY <1>0, <2>1 DEF TypeOK
    <2>4. /\ holder' \in [Original -> {Nobody} \cup {<<q>> : q \in Request}]
          /\ \A o \in Original, q \in Request : q # r /\ holder[o] = <<q>> => holder'[o] = <<q>>
          /\ holder'[Req[r].original] = <<r>>
      BY <1>0, <1>r, <2>1, LockFacts DEF TypeOK
    <2>5. Quiet(r, "check", plan[r])
      BY <1>0, <2>1, <2>2, <2>3, <2>4 DEF Quiet, TypeOK, TxStates
    <2>6. QED
      BY <2>5
  <1>3. CASE CheckPrior(r)
    <2>1. CASE Abandon(r, "rejected")
      BY <1>0, <2>1, AbandonQuiet
    <2>2. CASE ~Blocked(r) /\ Goto(r, IF Req[r].kind = "full" THEN "post" ELSE "limit")
               /\ UNCHANGED <<attempt, plan, holder, rows, journal, refunded>>
      <3>1. PICK s \in {"post", "limit"} : Goto(r, s) /\ (s = "post" => Req[r].kind = "full")
        BY <2>2
      <3>2. pc[r] = "check"
        BY <1>3 DEF CheckPrior
      <3>3. Quiet(r, s, plan[r])
        BY <2>2, <3>1, <3>2, ForwardQuiet DEF TxStates
      <3>4. QED
        BY <3>3
    <2>3. QED
      BY <1>3, <2>1, <2>2 DEF CheckPrior
  <1>4. CASE CheckLimit(r)
    <2>1. CASE Abandon(r, "rejected")
      BY <1>0, <2>1, AbandonQuiet
    <2>2. CASE ~Exceeds(r) /\ Goto(r, "post")
               /\ UNCHANGED <<attempt, plan, holder, rows, journal, refunded>>
      <3>1. pc[r] = "limit" /\ ~Blocked(r)
        BY <1>0, <1>4 DEF CheckLimit, Cleared
      <3>2. Quiet(r, "post", plan[r])
        BY <2>2, <3>1, ForwardQuiet DEF TxStates
      <3>3. QED
        BY <3>2
    <2>3. QED
      BY <1>4, <2>1, <2>2 DEF CheckLimit
  <1>5. CASE Post(r)
    <2>1. CASE Abandon(r, "rejected")
      BY <1>0, <2>1, AbandonQuiet
    <2>2. CASE Goto(r, "record") /\ UNCHANGED <<attempt, plan, holder, rows, journal, refunded>>
      <3>1. pc[r] = "post" /\ ~Blocked(r) /\ (Req[r].kind # "full" => ~Exceeds(r))
        BY <1>0, <1>5 DEF Post, Cleared
      <3>2. Quiet(r, "record", plan[r])
        BY <2>2, <3>1, ForwardQuiet DEF TxStates
      <3>3. QED
        BY <3>2
    <2>3. QED
      BY <1>5, <2>1, <2>2 DEF Post
  <1>6. CASE CreateReversal(r)
    <2>1. CASE Abandon(r, "error")
      BY <1>0, <2>1, AbandonQuiet
    <2>2. CASE ~Taken(r) /\ Goto(r, "commit")
               /\ UNCHANGED <<attempt, plan, holder, rows, journal, refunded>>
      <3>1. pc[r] = "record" /\ ~Blocked(r) /\ (Req[r].kind # "full" => ~Exceeds(r))
        BY <1>0, <1>6 DEF CreateReversal, Cleared
      <3>2. Quiet(r, "commit", plan[r])
        BY <2>2, <3>1, ForwardQuiet DEF TxStates
      <3>3. QED
        BY <3>2
    <2>3. QED
      BY <1>6, <2>1, <2>2 DEF CreateReversal
  <1>7. CASE Conflict(r)
    <2>1. /\ pc[r] \in TxStates /\ attempt[r] < MaxRetries
          /\ attempt' = [attempt EXCEPT ![r] = attempt[r] + 1]
          /\ pc' = [pc EXCEPT ![r] = "lock"] /\ ReleaseLock(r)
          /\ UNCHANGED <<plan, rows, journal, refunded>>
      BY <1>7 DEF Conflict, Goto
    <2>2. attempt' \in [Request -> 1 .. MaxRetries]
      BY <1>0, <2>1, ReversalAssumption DEF TypeOK
    <2>3. plan' = [plan EXCEPT ![r] = plan[r]] /\ plan[r] \in Seq(LineType)
      BY <1>0, <2>1 DEF TypeOK
    <2>4. plan[r] \in Plans[r] /\ plan[r] # <<>> /\ journal[r] = <<>>
      BY <1>0, <2>1 DEF Planned
    <2>5. Quiet(r, "lock", plan[r])
      BY <1>0, <2>1, <2>2, <2>3, <2>4, Release DEF Quiet, TxStates
    <2>6. QED
      BY <2>5
  <1>8. CASE Fail(r)
    BY <1>0, <1>8, AbandonQuiet DEF Fail
  <1>9. QED
    BY <1>1, <1>2, <1>3, <1>4, <1>5, <1>6, <1>7, <1>8 DEF Step, Fault

\* The amounts of a set of reversals, whatever set they are taken from.
LEMMA AmountSums ==
  ASSUME NEW R, IsFiniteSet(R), R \subseteq RowType, NEW x \in RowType, x \notin R
  PROVE  SumFunctionOnSet([y \in R \cup {x} |-> y.amount], R \cup {x})
           = x.amount + SumFunctionOnSet([y \in R |-> y.amount], R)
  <1> DEFINE w == [y \in R \cup {x} |-> y.amount]
             v == [y \in R |-> y.amount]
  <1>1. \A y \in R \cup {x} : w[y] \in Int
    BY DEF RowType
  <1>2. SumFunctionOnSet(w, R \cup {x}) = w[x] + SumFunctionOnSet(w, R)
    BY <1>1, SumAdd
  <1>3. \A y \in R : w[y] = v[y]
    OBVIOUS
  <1>4. SumFunctionOnSet(w, R) = SumFunctionOnSet(v, R)
    <2> HIDE DEF w, v
    <2>1. QED
      BY <1>3, SumEqual
  <1>5. QED
    BY <1>2, <1>4

\* A commit: what the call checked under the lock is what it adds to.
LEMMA PublishStep ==
  ASSUME IInv, NEW r \in Request, pc[r] = "commit", NEW s \in {"done", "error"}, Publish(r, s)
  PROVE  IInv'
  <1> DEFINE o == Req[r].original
             x == RowOf[r]
  <1>0. TypeOK /\ Recorded /\ Alone /\ Totalled
    BY DEF IInv
  <1>1. /\ rows' = rows \cup {x}
        /\ journal' = [journal EXCEPT ![r] = plan[r]]
        /\ refunded' = [refunded EXCEPT ![o] = refunded[o] + x.amount]
        /\ pc' = [pc EXCEPT ![r] = s]
        /\ attempt' = [attempt EXCEPT ![r] = 1]
        /\ plan' = [plan EXCEPT ![r] = <<>>]
        /\ ReleaseLock(r)
    BY DEF Publish, Leave, Goto
  <1>2. /\ holder[o] = <<r>> /\ plan[r] \in Plans[r] /\ plan[r] # <<>> /\ journal[r] = <<>>
        /\ ~Blocked(r) /\ ~Taken(r) /\ (Req[r].kind # "full" => ~Exceeds(r))
    <2>1. Holding(r) /\ Planned(r) /\ Cleared(r)
      BY DEF IInv
    <2>2. QED
      BY <2>1 DEF Holding, Planned, Cleared, TxStates
  <1>3. /\ x \in RowType /\ x.by = r /\ x.original = o /\ x.key = Req[r].key /\ x.amount \in Int
        /\ o \in Original /\ OriginalAmount[o] \in Nat /\ refunded[o] \in Int /\ Req[r].refund \in Int
    BY <1>0, RowFacts, ReqFacts, OriginalAmountType DEF TypeOK
  <1>4. \A y \in rows : y.original # o \/ y.key # x.key
    BY <1>2, <1>3 DEF Taken
  <1>5. x \notin rows
    BY <1>3, <1>4
  <1>6. plan \in [Request -> Seq(LineType)] /\ journal \in [Request -> Seq(LineType)]
        /\ plan[r] \in Seq(LineType) /\ <<>> \in Seq(LineType) /\ 1 \in 1 .. MaxRetries
    BY <1>0, ReversalAssumption DEF TypeOK
  <1>j. journal'[r] = plan[r] /\ \A q \in Request : q # r => journal'[q] = journal[q]
    BY <1>1, <1>6
  <1>7. TypeOK'
    <2>1. pc' \in [Request -> {"find"} \cup TxStates \cup Outcomes]
      BY <1>0, <1>1 DEF TypeOK, Outcomes
    <2>2. attempt' \in [Request -> 1 .. MaxRetries]
      BY <1>0, <1>1, <1>6 DEF TypeOK
    <2>3. plan' \in [Request -> Seq(LineType)] /\ journal' \in [Request -> Seq(LineType)]
      BY <1>1, <1>6
    <2>4. holder' \in [Original -> {Nobody} \cup {<<q>> : q \in Request}]
      BY <1>0, <1>1, Release
    <2>5. rows' \subseteq RowType /\ refunded' \in [Original -> Int]
      BY <1>0, <1>1, <1>3 DEF TypeOK
    <2>6. QED
      BY <2>1, <2>2, <2>3, <2>4, <2>5 DEF TypeOK
  <1>8. ASSUME NEW q \in Request PROVE (Holding(q) /\ Planned(q) /\ Cleared(q) /\ Committed(q))'
    <2>0. Holding(q) /\ Planned(q) /\ Cleared(q) /\ Committed(q) /\ Req[q].original \in Original
      BY ReqFacts DEF IInv
    <2>1. CASE q = r
      <3>1. pc'[r] = s
        BY <1>0, <1>1 DEF TypeOK
      <3>2. s \notin TxStates /\ s # "find"
        BY DEF TxStates
      <3>3. Holding(r)' /\ Planned(r)' /\ Cleared(r)'
        BY <1>2, <1>j, <3>1, <3>2 DEF Holding, Planned, Cleared, TxStates
      <3>4. Committed(r)'
        BY <1>2, <1>j DEF Committed
      <3>5. QED
        BY <2>1, <3>3, <3>4
    <2>2. CASE q # r
      <3>1. pc'[q] = pc[q] /\ plan'[q] = plan[q] /\ journal'[q] = journal[q]
        BY <1>0, <1>1, <1>j, <2>2 DEF TypeOK
      <3>2. Holding(q)'
        <4>1. holder[Req[q].original] = <<q>> => holder'[Req[q].original] = <<q>>
          BY <1>0, <1>1, <2>0, <2>2, Release
        <4>2. QED
          BY <2>0, <3>1, <4>1 DEF Holding
      <3>3. Planned(q)' /\ Committed(q)'
        BY <2>0, <3>1 DEF Planned, Committed
      <3>4. pc[q] \in TxStates \ {"lock"} => Req[q].original # o
        BY <1>2, <2>0, <2>2, LockFacts DEF Holding
      <3>5. ASSUME Req[q].original # o
            PROVE  (Blocked(q)' => Blocked(q)) /\ (Exceeds(q)' => Exceeds(q)) /\ (Taken(q)' => Taken(q))
        <4>1. refunded'[Req[q].original] = refunded[Req[q].original]
          BY <1>0, <1>1, <2>0, <3>5 DEF TypeOK
        <4>2. Exceeds(q)' => Exceeds(q)
          BY <4>1 DEF Exceeds
        <4>3. \A y \in rows' : y.original = Req[q].original => y \in rows
          BY <1>1, <1>3, <3>5
        <4>4. Blocked(q)' => Blocked(q)
          BY <4>3 DEF Blocked
        <4>5. Taken(q)' => Taken(q)
          BY <4>3 DEF Taken
        <4>6. QED
          BY <4>2, <4>4, <4>5
      <3>6. Cleared(q)'
        BY <2>0, <3>1, <3>4, <3>5 DEF Cleared, TxStates
      <3>7. QED
        BY <3>2, <3>3, <3>6
    <2>3. QED
      BY <2>1, <2>2
  <1>9. Recorded'
    <2>1. IsFiniteSet(rows')
      BY <1>0, <1>1, FS_AddElement DEF Recorded
    <2>2. ASSUME NEW y \in rows' PROVE y.by \in Request /\ y = RowOf[y.by] /\ journal'[y.by] # <<>>
      <3>1. CASE y = x
        BY <1>2, <1>3, <1>j, <3>1
      <3>2. CASE y \in rows
        BY <1>0, <1>2, <1>j, <3>2 DEF Recorded
      <3>3. QED
        BY <1>1, <3>1, <3>2
    <2>3. \A q \in Request : journal'[q] # <<>> => RowOf[q] \in rows'
      BY <1>0, <1>1, <1>j DEF Recorded
    <2>4. \A y, z \in rows' : y.original = z.original /\ y.key = z.key => y = z
      BY <1>0, <1>1, <1>3, <1>4 DEF Recorded
    <2>5. QED
      BY <2>1, <2>2, <2>3, <2>4 DEF Recorded
  <1>10. ASSUME NEW q \in Request, q # r, journal[q] # <<>>, Req[q].original = o
         PROVE  Req[r].kind # "full" /\ Req[q].kind # "full"
    <2>1. RowOf[q] \in rows /\ RowOf[q].original = o
      BY <1>0, <1>10, RowFacts DEF Recorded
    <2>2. Req[r].kind # "full"
      BY <1>2, <2>1 DEF Blocked
    <2>3. Req[q].kind # "full"
      BY <1>2, <1>10, <2>1, RowFacts DEF Blocked
    <2>4. QED
      BY <2>2, <2>3
  <1>11. Alone'
    BY <1>0, <1>2, <1>j, <1>10 DEF Alone
  <1>12. ASSUME NEW a \in Original
         PROVE  /\ refunded'[a] <= OriginalAmount[a]
                /\ refunded'[a] = SumFunctionOnSet([y \in RowsOf(a)' |-> y.amount], RowsOf(a)')
    <2>1. CASE a # o
      <3>1. RowsOf(a)' = RowsOf(a) /\ refunded'[a] = refunded[a]
        BY <1>0, <1>1, <1>3, <2>1 DEF RowsOf, TypeOK
      <3>2. QED
        BY <1>0, <3>1 DEF Totalled
    <2>2. CASE a = o
      <3>1. RowsOf(a)' = RowsOf(a) \cup {x} /\ refunded'[a] = refunded[o] + x.amount
        BY <1>0, <1>1, <1>3, <2>2 DEF RowsOf, TypeOK
      <3>2. IsFiniteSet(RowsOf(a)) /\ RowsOf(a) \subseteq RowType /\ x \notin RowsOf(a)
        BY <1>0, <1>5, FS_Subset DEF RowsOf, Recorded, TypeOK
      <3>3. refunded[o] = SumFunctionOnSet([y \in RowsOf(a) |-> y.amount], RowsOf(a))
            /\ refunded[o] <= OriginalAmount[o]
        BY <1>0, <1>3, <2>2 DEF Totalled
      <3>4. SumFunctionOnSet([y \in RowsOf(a)' |-> y.amount], RowsOf(a)') = x.amount + refunded[o]
        BY <1>3, <3>1, <3>2, <3>3, AmountSums
      <3>5. refunded[o] + x.amount <= OriginalAmount[o]
        <4>1. CASE Req[r].kind = "full"
          <5>1. RowsOf(o) = {}
            BY <1>2, <4>1 DEF Blocked, RowsOf
          <5>2. refunded[o] = 0
            BY <2>2, <3>3, <5>1, SumEmpty
          <5>3. x.amount = OriginalAmount[o]
            BY <4>1, RowFacts
          <5>4. QED
            BY <1>3, <5>2, <5>3
        <4>2. CASE Req[r].kind # "full"
          <5>1. 2 * refunded[o] + Req[r].refund <= 2 * OriginalAmount[o]
            BY <1>2, <1>3, <4>2 DEF Exceeds
          <5>2. x.amount = toFixed(Req[r].refund)
            BY <4>2, RowFacts
          <5>3. 2 * x.amount <= Req[r].refund + 1
            BY <1>3, <5>2, Rounding
          <5>4. QED
            BY <1>3, <5>1, <5>3
        <4>3. QED
          BY <4>1, <4>2
      <3>6. QED
        BY <1>3, <2>2, <3>1, <3>4, <3>5
    <2>3. QED
      BY <2>1, <2>2
  <1>13. Totalled'
    BY <1>12 DEF Totalled
  <1>14. QED
    BY <1>7, <1>8, <1>9, <1>11, <1>13 DEF IInv

\* Every step, commit, rollback or retry preserves the invariant.
LEMMA NextIInv == IInv /\ [Next]_vars => IInv'
  <1> SUFFICES ASSUME IInv, [Next]_vars PROVE IInv'
    OBVIOUS
  <1>1. ASSUME NEW r \in Request, Step(r) \/ Fault(r) PROVE IInv'
    <2>1. CASE Commit(r)
      BY <2>1, PublishStep DEF Commit
    <2>2. CASE FailAfterCommit(r)
      BY <2>2, PublishStep DEF FailAfterCommit
    <2>3. CASE ~Commit(r) /\ ~FailAfterCommit(r)
      <3>1. PICK s, p : Quiet(r, s, p)
        BY <1>1, <2>3, StepQuiet
      <3>2. QED
        BY <3>1, QuietStep
    <2>4. QED
      BY <2>1, <2>2, <2>3
  <1>2. CASE UNCHANGED vars
    <2>1. UNCHANGED <<pc, attempt, plan, holder, rows, journal, refunded>>
      BY <1>2 DEF vars
    <2>2. TypeOK'
      BY <2>1 DEF IInv, TypeOK
    <2>3. \A r \in Request : (Holding(r) /\ Planned(r) /\ Cleared(r) /\ Committed(r))'
      BY <2>1 DEF IInv, Holding, Planned, Cleared, Committed, Blocked, Exceeds, Taken
    <2>4. Recorded' /\ Alone' /\ Totalled'
      BY <2>1 DEF IInv, Recorded, Alone, Totalled, RowsOf
    <2>5. QED
      BY <2>2, <2>3, <2>4 DEF IInv
  <1>3. QED
    BY <1>1, <1>2 DEF Next, AllReturned

\* The invariant holds in every reachable state.
LEMMA AlwaysIInv == Spec => []IInv
  <1>1. QED
    BY InitIInv, NextIInv, PTL DEF Spec

-----------------------------------------------------------------------------
\* Calls, locks, plans and records have their types; withRetryTransaction()
\* starts at most MaxRetries transactions for a call.
THEOREM ReversalsAreTyped == Spec => []TypeOK
  <1>1. IInv => TypeOK
    BY DEF IInv
  <1>2. QED
    BY <1>1, AlwaysIInv, PTL

\* However refunds and full reversals of an original race, are retried or lose
\* their acknowledgement, what is recorded never exceeds the original amount.
THEOREM RefundsStayWithinOriginal == Spec => []NeverOverRefunded
  <1>1. IInv => NeverOverRefunded
    BY DEF IInv, Totalled, NeverOverRefunded
  <1>2. QED
    BY <1>1, AlwaysIInv, PTL

\* The reversals table and the ledger agree, and a key is spent once per original.
THEOREM RecordsMatchJournals == Spec => []RecordMatchesJournal
  <1>1. ASSUME IInv PROVE RecordMatchesJournal
    <2>1. Recorded /\ \A r \in Request : Planned(r)
      BY <1>1 DEF IInv
    <2>2. {x.by : x \in rows} \subseteq {r \in Request : journal[r] # <<>>}
      BY <2>1 DEF Recorded
    <2>3. {r \in Request : journal[r] # <<>>} \subseteq {x.by : x \in rows}
      <3>1. \A r \in Request : journal[r] # <<>> => RowOf[r] \in rows /\ RowOf[r].by = r
        BY <2>1, RowFacts DEF Recorded
      <3>2. QED
        BY <3>1
    <2>4. \A x, y \in rows : x.original = y.original /\ x.key = y.key => x = y
      BY <2>1 DEF Recorded
    <2>5. \A r \in Request : pc[r] = "done" => journal[r] # <<>>
      BY <2>1 DEF Planned
    <2>6. QED
      BY <2>2, <2>3, <2>4, <2>5 DEF RecordMatchesJournal
  <1>2. QED
    BY <1>1, AlwaysIInv, PTL

\* The mirror of an original undoes it on every account.
LEMMA MirrorNegates ==
  ASSUME NEW o \in Original, NEW a \in Account
  PROVE  Effect(Entries[o], a) + Effect(MirrorLines(o), a) = 0
  <1> DEFINE e == Entries[o]
             m == MirrorLines(o)
  <1>1. /\ DOMAIN m = DOMAIN e /\ IsFiniteSet(DOMAIN e)
        /\ \A i \in DOMAIN e : /\ m[i].account = e[i].account
                               /\ m[i].entryType = Flip(e[i].entryType)
                               /\ m[i].amount = e[i].amount
                               /\ e[i].entryType \in EntryType
                               /\ e[i].amount \in Int
    BY MirrorType, EntriesType DEF LineType
  <1> HIDE DEF e, m
  <1>2. /\ LinesOn(m, a, "DEBIT") = LinesOn(e, a, "CREDIT")
        /\ LinesOn(m, a, "CREDIT") = LinesOn(e, a, "DEBIT")
    BY <1>1 DEF LinesOn, Flip, EntryType
  <1>3. ASSUME NEW t
        PROVE  /\ SumFunctionOnSet(Amounts(m), LinesOn(e, a, t))
                    = SumFunctionOnSet(Amounts(e), LinesOn(e, a, t))
               /\ SumFunctionOnSet(Amounts(e), LinesOn(e, a, t)) \in Int
    <2>1. LinesOn(e, a, t) \subseteq DOMAIN e
      BY DEF LinesOn
    <2>2. IsFiniteSet(LinesOn(e, a, t))
      BY <1>1, <2>1, FS_Subset
    <2>3. \A i \in LinesOn(e, a, t) : Amounts(m)[i] = Amounts(e)[i] /\ Amounts(e)[i] \in Int
      BY <1>1, <2>1 DEF Amounts
    <2>4. SumFunctionOnSet(Amounts(m), LinesOn(e, a, t)) = SumFunctionOnSet(Amounts(e), LinesOn(e, a, t))
      BY <2>2, <2>3, SumEqual
    <2>5. SumFunctionOnSet(Amounts(e), LinesOn(e, a, t)) \in Int
      BY <2>2, <2>3, SumType
    <2>6. QED
      BY <2>4, <2>5
  <1>4. Effect(e, a) + Effect(m, a) = 0
    BY <1>2, <1>3 DEF Effect
  <1>5. QED
    BY <1>4 DEF e, m

\* A committed full reversal is the only reversal of its original, ever, and
\* together they leave every account as it was.
THEOREM FullReversalsStandAlone == Spec => []FullReversalStandsAlone
  <1>1. ASSUME IInv PROVE FullReversalStandsAlone
    <2> SUFFICES ASSUME NEW o \in Original, NEW r \in ReversalsOf(o), Req[r].kind = "full"
                 PROVE  /\ ReversalsOf(o) = {r}
                        /\ \A a \in Account : Effect(Entries[o], a) + Effect(journal[r], a) = 0
      BY DEF FullReversalStandsAlone
    <2>1. r \in Request /\ Req[r].original = o /\ journal[r] # <<>>
      BY DEF ReversalsOf
    <2>2. ReversalsOf(o) = {r}
      BY <1>1, <2>1 DEF IInv, Alone, ReversalsOf
    <2>3. journal[r] = MirrorLines(o)
      BY <1>1, <2>1 DEF IInv, Committed, Plans
    <2>4. QED
      BY <2>2, <2>3, MirrorNegates
  <1>2. QED
    BY <1>1, AlwaysIInv, PTL
=============================================================================
