------------------------- MODULE LedgerAuditProofs -------------------------
(***************************************************************************)
(* Proofs about LedgerAudit, for any number of postings, lines, partitions *)
(* and maintenance statements.                                             *)
(***************************************************************************)
EXTENDS LedgerAudit, SumTheorems

-----------------------------------------------------------------------------
(* The earliest and the latest row of a set.                               *)

\* Rows numbered up to a bound have a last one, and Last() finds it.
LEMMA LastRow ==
  ASSUME NEW rows, rows # {}, NEW n \in Nat, \A x \in rows : x.at \in Nat /\ x.at <= n
  PROVE  Last(rows) \in rows /\ \A y \in rows : y.at <= Last(rows).at
  <1> DEFINE S == {x.at : x \in rows}
  <1>1. S # {} /\ S \subseteq 0..n /\ S \subseteq Int
    OBVIOUS
  <1>2. IsFiniteSet(S)
    <2>1. IsFiniteSet(0..n)
      BY FS_Interval
    <2>2. QED
      BY <1>1, <2>1, FS_Subset
  <1>3. \E m \in S : \A k \in S : k <= m
    <2> HIDE DEF S
    <2> QED BY <1>1, <1>2, FiniteMax
  <1>4. \E x \in rows : \A y \in rows : y.at <= x.at
    BY <1>3
  <1>5. QED
    BY <1>4 DEF Last

\* Any rows have an earliest one.
LEMMA EarliestRow ==
  ASSUME NEW rows, rows # {}, \A x \in rows : x.at \in Nat
  PROVE  \E x \in rows : \A y \in rows : x.at <= y.at
  <1>1. PICK z \in rows : TRUE
    OBVIOUS
  <1> DEFINE S == {z.at - y.at : y \in {x \in rows : x.at <= z.at}}
  <1>2. S # {} /\ S \subseteq 0..z.at /\ S \subseteq Int
    BY <1>1
  <1>3. IsFiniteSet(S)
    <2>1. IsFiniteSet(0..z.at)
      BY FS_Interval
    <2>2. QED
      BY <1>2, <2>1, FS_Subset
  <1>4. \E m \in S : \A k \in S : k <= m
    <2> HIDE DEF S
    <2> QED BY <1>2, <1>3, FiniteMax
  <1>5. PICK x \in rows : x.at <= z.at /\ \A k \in S : k <= z.at - x.at
    BY <1>4
  <1>6. \A y \in rows : x.at <= y.at
    <2> SUFFICES ASSUME NEW y \in rows PROVE x.at <= y.at
      OBVIOUS
    <2>1. CASE y.at <= z.at
      <3>1. z.at - y.at \in S
        BY <2>1
      <3>2. QED
        BY <1>1, <1>5, <3>1
    <2>2. CASE ~(y.at <= z.at)
      BY <1>1, <1>5, <2>2
    <2>3. QED
      BY <2>1, <2>2
  <1>7. QED
    BY <1>6

-----------------------------------------------------------------------------
(* What verifyChain() finds out, for any rows it may read.                 *)

\* Committed rows: an id and an instant each of their own, the hash of what
\* they say, chained from genesis or from an earlier row.
Chained(P) ==
  /\ \A x, y \in P : x.id = y.id => x = y
  /\ \A x, y \in P : x.at = y.at => x = y
  /\ \A x \in P : x.at \in Nat /\ x.hash = computeHash(x.id, x.amount, x.previousHash)
  /\ \A x \in P : x.previousHash # Genesis =>
                    \E y \in P : y.hash = x.previousHash /\ y.at < x.at

\* x is a row of P of which an UPDATE changed the amount or the status at most.
Mirrors(P, x) ==
  \E y \in P : y.id = x.id /\ y.at = x.at /\ y.hash = x.hash /\ y.previousHash = x.previousHash

\* Sound(), with the committed rows as a parameter.
SoundIn(P, rows, x) ==
  /\ \E y \in P : y.id = x.id /\ y.amount = x.amount
  /\ x.previousHash # Genesis =>
       {y.id : y \in {z \in P : z.hash = x.previousHash}} \cap {y.id : y \in rows} # {}

\* A sound row is one that is sound among the rows committed so far.
LEMMA SoundIsSoundIn == \A rows, x : Sound(rows, x) <=> SoundIn(posted, rows, x)
  BY DEF Sound, SoundIn, Parent

\* A hash is made of the id and the amount hashed, and is never genesis.
LEMMA HashFacts ==
  ASSUME NEW i, NEW n, NEW h
  PROVE  /\ computeHash(i, n, h)[1] = i
         /\ computeHash(i, n, h)[2] = n
         /\ computeHash(i, n, h)[3] = h
         /\ computeHash(i, n, h) # Genesis
  BY DEF computeHash, Genesis

\* Equal hashes are hashes of one row.
LEMMA HashNamesRow ==
  ASSUME NEW P, Chained(P), NEW x \in P, NEW y \in P, x.hash = y.hash
  PROVE  x = y
  <1>1. x.hash[1] = x.id /\ y.hash[1] = y.id
    BY HashFacts DEF Chained
  <1>2. x.id = y.id
    BY <1>1
  <1>3. QED
    BY <1>2 DEF Chained

\* The facts about rows read from the ledger that the verdict rests on.
Readable(P, rows) ==
  /\ \A x, y \in rows : x.id = y.id => x = y
  /\ \A x \in rows : Mirrors(P, x)

\* Rows that were read have an instant and a hash each of their own.
LEMMA ReadableFacts ==
  ASSUME NEW P, Chained(P), NEW rows, Readable(P, rows)
  PROVE  /\ \A x \in rows : x.at \in Nat /\ x.hash # Genesis
         /\ \A x, y \in rows : x.at = y.at => x = y
         /\ \A x, y \in rows : x.hash = y.hash => x = y
  <1>1. \A x \in rows : x.at \in Nat /\ x.hash # Genesis
    BY HashFacts DEF Readable, Mirrors, Chained
  <1>2. \A x, y \in rows : x.at = y.at => x = y
    BY DEF Readable, Mirrors, Chained
  <1>3. \A x, y \in rows : x.hash = y.hash => x = y
    <2> SUFFICES ASSUME NEW x \in rows, NEW y \in rows, x.hash = y.hash PROVE x = y
      OBVIOUS
    <2>1. PICK a \in P : a.id = x.id /\ a.hash = x.hash
      BY DEF Readable, Mirrors
    <2>2. PICK b \in P : b.id = y.id /\ b.hash = y.hash
      BY DEF Readable, Mirrors
    <2>3. a = b
      BY <2>1, <2>2, HashNamesRow
    <2>4. QED
      BY <2>1, <2>2, <2>3 DEF Readable
  <1>4. QED
    BY <1>1, <1>2, <1>3

\* The row a row was chained from is earlier, if it was read too.
LEMMA ParentIsEarlier ==
  ASSUME NEW P, Chained(P), NEW rows, Readable(P, rows), NEW x \in rows, NEW y \in rows,
         x.previousHash = y.hash
  PROVE  y.at < x.at
  <1>1. PICK a \in P : a.at = x.at /\ a.previousHash = x.previousHash
    BY DEF Readable, Mirrors
  <1>2. PICK b \in P : b.at = y.at /\ b.hash = y.hash
    BY DEF Readable, Mirrors
  <1>3. a.previousHash # Genesis
    BY <1>1, ReadableFacts
  <1>4. PICK c \in P : c.hash = a.previousHash /\ c.at < a.at
    BY <1>3 DEF Chained
  <1>5. c = b
    BY <1>1, <1>2, <1>4, HashNamesRow
  <1>6. QED
    BY <1>1, <1>2, <1>4, <1>5

\* The rows read before x, and the last of them.
Before(rows, x) == {y \in rows : y.at < x.at}

\* The hash expected of a row is that of the row just before it, or genesis.
LEMMA TailBefore ==
  ASSUME NEW P, Chained(P), NEW rows, Readable(P, rows), NEW x \in rows
  PROVE  /\ Before(rows, x) = {} => TailHash(Before(rows, x)) = Genesis
         /\ Before(rows, x) # {} =>
              \E z \in Before(rows, x) : /\ TailHash(Before(rows, x)) = z.hash
                                         /\ \A y \in Before(rows, x) : y.at <= z.at
  <1>1. \A y \in rows : y.at \in Nat
    BY ReadableFacts
  <1>2. ASSUME Before(rows, x) # {}
        PROVE  \E z \in Before(rows, x) : /\ TailHash(Before(rows, x)) = z.hash
                                          /\ \A y \in Before(rows, x) : y.at <= z.at
    <2> DEFINE B == Before(rows, x)
    <2>1. \A y \in B : y.at \in Nat /\ y.at <= x.at
      BY <1>1 DEF Before
    <2>2. x.at \in Nat /\ B # {}
      BY <1>1, <1>2
    <2>3. Last(B) \in B /\ \A y \in B : y.at <= Last(B).at
      <3> HIDE DEF B
      <3> QED BY <2>1, <2>2, LastRow
    <2>4. TailHash(B) = Last(B).hash
      BY <2>2 DEF TailHash
    <2>5. QED
      BY <2>3, <2>4
  <1>3. QED
    BY <1>2 DEF TailHash

\* What breaks the chain at x.
LEMMA BreaksUnfold ==
  \A rows, x : breaks(rows, x) <=> \/ x.previousHash # TailHash(Before(rows, x))
                                   \/ computeHash(x.id, x.amount, x.previousHash) # x.hash
  BY DEF breaks, Before

\* A row hashes to what it stores exactly when it says what was posted.
LEMMA HashSaysAmount ==
  ASSUME NEW P, Chained(P), NEW rows, Readable(P, rows), NEW x \in rows
  PROVE  computeHash(x.id, x.amount, x.previousHash) = x.hash
           <=> \E y \in P : y.id = x.id /\ y.amount = x.amount
  <1>1. PICK a \in P : a.id = x.id /\ a.hash = x.hash /\ a.previousHash = x.previousHash
    BY DEF Readable, Mirrors
  <1>2. a.hash = computeHash(a.id, a.amount, a.previousHash)
    BY DEF Chained
  <1>3. ASSUME computeHash(x.id, x.amount, x.previousHash) = x.hash
        PROVE  a.amount = x.amount
    <2>1. x.hash[2] = x.amount /\ x.hash[2] = a.amount
      BY <1>1, <1>2, <1>3, HashFacts
    <2>2. QED
      BY <2>1
  <1>4. ASSUME NEW y \in P, y.id = x.id, y.amount = x.amount
        PROVE  computeHash(x.id, x.amount, x.previousHash) = x.hash
    <2>1. y = a
      BY <1>1, <1>4 DEF Chained
    <2>2. QED
      BY <1>1, <1>2, <1>4, <2>1
  <1>5. QED
    BY <1>1, <1>3, <1>4

\* A row at which the loop of verifyChain() goes on is sound.
LEMMA UnbrokenIsSound ==
  ASSUME NEW P, Chained(P), NEW rows, Readable(P, rows), NEW x \in rows, ~breaks(rows, x)
  PROVE  SoundIn(P, rows, x)
  <1>1. \E y \in P : y.id = x.id /\ y.amount = x.amount
    BY BreaksUnfold, HashSaysAmount
  <1>2. ASSUME x.previousHash # Genesis
        PROVE  {y.id : y \in {z \in P : z.hash = x.previousHash}} \cap {y.id : y \in rows} # {}
    <2>1. Before(rows, x) # {}
      BY <1>2, TailBefore, BreaksUnfold
    <2>2. PICK z \in Before(rows, x) : TailHash(Before(rows, x)) = z.hash
      BY <2>1, TailBefore
    <2>3. z \in rows /\ z.hash = x.previousHash
      BY <2>2, BreaksUnfold DEF Before
    <2>4. PICK b \in P : b.id = z.id /\ b.hash = z.hash
      BY <2>3 DEF Readable, Mirrors
    <2>5. b.id \in {y.id : y \in {w \in P : w.hash = x.previousHash}}
      BY <2>3, <2>4
    <2>6. b.id \in {y.id : y \in rows}
      BY <2>3, <2>4
    <2>7. QED
      BY <2>5, <2>6
  <1>3. QED
    BY <1>1, <1>2 DEF SoundIn

\* A chain without a break has no fork.
LEMMA UnbrokenHasNoFork ==
  ASSUME NEW P, Chained(P), NEW rows, Readable(P, rows), \A x \in rows : ~breaks(rows, x)
  PROVE  \A x, y \in rows : x.previousHash = y.previousHash => x = y
  <1>1. ASSUME NEW x \in rows, NEW y \in rows, x.at < y.at, x.previousHash = y.previousHash
        PROVE  FALSE
    <2>1. x \in Before(rows, y)
      BY <1>1 DEF Before
    <2>2. PICK z \in Before(rows, y) : /\ TailHash(Before(rows, y)) = z.hash
                                       /\ \A w \in Before(rows, y) : w.at <= z.at
      BY <2>1, TailBefore
    <2>3. z \in rows /\ x.at <= z.at /\ x.previousHash = z.hash
      BY <1>1, <2>1, <2>2, BreaksUnfold DEF Before
    <2>4. z.at < x.at
      BY <2>3, ParentIsEarlier
    <2>5. x.at \in Nat /\ z.at \in Nat
      BY <2>3, ReadableFacts
    <2>6. QED
      BY <2>3, <2>4, <2>5
  <1>2. \A x, y \in rows : x.at \in Nat /\ y.at \in Nat /\ (x.at = y.at => x = y)
    BY ReadableFacts
  <1>3. SUFFICES ASSUME NEW x \in rows, NEW y \in rows, x.previousHash = y.previousHash
                 PROVE  x = y
    OBVIOUS
  <1>4. ~(x.at < y.at) /\ ~(y.at < x.at)
    BY <1>1, <1>3
  <1>5. QED
    BY <1>2, <1>4

\* The row a sound row was chained from was read before it.
LEMMA SoundHasParent ==
  ASSUME NEW P, Chained(P), NEW rows, Readable(P, rows), NEW x \in rows,
         SoundIn(P, rows, x), x.previousHash # Genesis
  PROVE  \E y \in Before(rows, x) : y.hash = x.previousHash
  <1>1. PICK i : i \in {y.id : y \in {z \in P : z.hash = x.previousHash}} /\ i \in {y.id : y \in rows}
    BY DEF SoundIn
  <1>2. PICK b \in P : b.hash = x.previousHash /\ b.id = i
    BY <1>1
  <1>3. PICK y \in rows : y.id = i
    BY <1>1
  <1>4. PICK c \in P : c.id = y.id /\ c.hash = y.hash
    BY <1>3 DEF Readable, Mirrors
  <1>5. b = c
    BY <1>2, <1>3, <1>4 DEF Chained
  <1>6. y.hash = x.previousHash
    BY <1>2, <1>4, <1>5
  <1>7. y.at < x.at
    BY <1>3, <1>6, ParentIsEarlier
  <1>8. QED
    BY <1>3, <1>6, <1>7 DEF Before

\* Sound rows without a fork are a chain without a break: the earliest break
\* would fork from the row after the one it was chained from.
LEMMA SoundIsUnbroken ==
  ASSUME NEW P, Chained(P), NEW rows, Readable(P, rows),
         \A x \in rows : SoundIn(P, rows, x),
         \A x, y \in rows : x.previousHash = y.previousHash => x = y
  PROVE  \A x \in rows : ~breaks(rows, x)
  <1> DEFINE Bad == {x \in rows : x.previousHash # TailHash(Before(rows, x))}
  <1>1. \A x \in rows : x.at \in Nat
    BY ReadableFacts
  <1>2. ASSUME Bad # {} PROVE FALSE
    <2>1. PICK x \in Bad : \A y \in Bad : x.at <= y.at
      <3>1. \A y \in Bad : y.at \in Nat
        BY <1>1
      <3>2. QED
        <4> HIDE DEF Bad
        <4> QED BY <1>2, <3>1, EarliestRow
    <2>2. x \in rows /\ x.previousHash # TailHash(Before(rows, x))
      OBVIOUS
    <2>3. \A w \in rows : w.at < x.at => w.previousHash = TailHash(Before(rows, w))
      BY <1>1, <2>1
    <2>4. CASE x.previousHash = Genesis
      <3>1. Before(rows, x) # {}
        BY <2>2, <2>4, TailBefore
      <3>2. PICK f \in rows : \A y \in rows : f.at <= y.at
        BY <1>1, <2>2, EarliestRow
      <3>3. Before(rows, f) = {} /\ f.at < x.at
        BY <1>1, <3>1, <3>2 DEF Before
      <3>4. f.previousHash = Genesis
        BY <2>3, <3>3, TailBefore
      <3>5. f = x
        BY <2>2, <2>4, <3>4
      <3>6. QED
        BY <1>1, <3>3, <3>5
    <2>5. CASE x.previousHash # Genesis
      <3>1. PICK y \in Before(rows, x) : y.hash = x.previousHash
        BY <2>2, <2>5, SoundHasParent
      <3>2. PICK z \in Before(rows, x) : /\ TailHash(Before(rows, x)) = z.hash
                                         /\ \A w \in Before(rows, x) : w.at <= z.at
        BY <2>2, TailBefore
      <3>3. y \in rows /\ z \in rows /\ z.at < x.at /\ y # z
        BY <2>2, <3>1, <3>2 DEF Before
      <3>4. y.at < z.at
        BY <1>1, <3>2, <3>3, ReadableFacts
      <3> DEFINE After == {w \in rows : y.at < w.at}
      <3>5. PICK w \in After : \A v \in After : w.at <= v.at
        <4>1. After # {} /\ \A v \in After : v.at \in Nat
          BY <1>1, <3>3, <3>4
        <4>2. QED
          <5> HIDE DEF After
          <5> QED BY <4>1, EarliestRow
      <3>6. w \in rows /\ y.at < w.at /\ w.at < x.at
        BY <1>1, <2>2, <3>3, <3>4, <3>5
      <3>7. y \in Before(rows, w)
        BY <3>3, <3>6 DEF Before
      <3>8. PICK u \in Before(rows, w) : /\ TailHash(Before(rows, w)) = u.hash
                                         /\ \A v \in Before(rows, w) : v.at <= u.at
        BY <3>6, <3>7, TailBefore
      <3>9. u \in rows /\ u.at < w.at /\ y.at <= u.at
        BY <3>7, <3>8 DEF Before
      <3>10. u.at = y.at
        BY <1>1, <3>3, <3>5, <3>6, <3>9
      <3>11. u = y
        BY <3>3, <3>9, <3>10, ReadableFacts
      <3>12. w.previousHash = x.previousHash
        BY <2>3, <3>1, <3>6, <3>8, <3>11
      <3>13. w = x
        BY <2>2, <3>6, <3>12
      <3>14. QED
        BY <1>1, <2>2, <3>6, <3>13
    <2>6. QED
      BY <2>4, <2>5
  <1>3. SUFFICES ASSUME NEW x \in rows PROVE ~breaks(rows, x)
    OBVIOUS
  <1>4. x.previousHash = TailHash(Before(rows, x))
    BY <1>2
  <1>5. computeHash(x.id, x.amount, x.previousHash) = x.hash
    BY HashSaysAmount DEF SoundIn
  <1>6. QED
    BY <1>4, <1>5, BreaksUnfold

\* The verdict of verifyChain(), and the break it reports.
Exact(P, rows, valid, breakAt) ==
  /\ valid <=> /\ \A x \in rows : SoundIn(P, rows, x)
               /\ \A x, y \in rows : x.previousHash = y.previousHash => x = y
  /\ ~valid => \E b \in rows : /\ b.id = breakAt
                               /\ \A x \in rows : x.at < b.at => SoundIn(P, rows, x)

\* The walk along the rows ends in an exact verdict, whatever was read.
LEMMA VerdictIsExact ==
  ASSUME NEW P, Chained(P), NEW rows, Readable(P, rows),
         NEW valid \in BOOLEAN, valid <=> \A x \in rows : ~breaks(rows, x),
         NEW breakAt, ~valid => breakAt = firstBreak(rows).id
  PROVE  Exact(P, rows, valid, breakAt)
  <1>1. valid <=> /\ \A x \in rows : SoundIn(P, rows, x)
                  /\ \A x, y \in rows : x.previousHash = y.previousHash => x = y
    <2>1. ASSUME valid PROVE \A x \in rows : SoundIn(P, rows, x)
      BY <2>1, UnbrokenIsSound
    <2>2. ASSUME valid PROVE \A x, y \in rows : x.previousHash = y.previousHash => x = y
      BY <2>2, UnbrokenHasNoFork
    <2>3. ASSUME \A x \in rows : SoundIn(P, rows, x),
                 \A x, y \in rows : x.previousHash = y.previousHash => x = y
          PROVE  valid
      BY <2>3, SoundIsUnbroken
    <2>4. QED
      BY <2>1, <2>2, <2>3
  <1>2. ASSUME ~valid
        PROVE  \E b \in rows : /\ b.id = breakAt
                               /\ \A x \in rows : x.at < b.at => SoundIn(P, rows, x)
    <2> DEFINE Bad == {x \in rows : breaks(rows, x)}
               b == firstBreak(rows)
    <2>1. \A x \in rows : x.at \in Nat
      BY ReadableFacts
    <2>2. \E x \in Bad : \A y \in Bad : x.at <= y.at
      <3>1. Bad # {} /\ \A y \in Bad : y.at \in Nat
        BY <1>2, <2>1
      <3>2. QED
        <4> HIDE DEF Bad
        <4> QED BY <3>1, EarliestRow
    <2>3. \E x \in rows : breaks(rows, x) /\ \A y \in rows : breaks(rows, y) => x.at <= y.at
      BY <2>2
    <2>4. b \in rows /\ breaks(rows, b) /\ \A y \in rows : breaks(rows, y) => b.at <= y.at
      BY <2>3 DEF firstBreak
    <2> HIDE DEF b
    <2>5. ASSUME NEW x \in rows, x.at < b.at PROVE SoundIn(P, rows, x)
      <3>1. ~breaks(rows, x)
        BY <2>1, <2>4, <2>5
      <3>2. QED
        BY <3>1, UnbrokenIsSound
    <2>6. b.id = breakAt
      BY <1>2 DEF b
    <2>7. QED
      BY <2>4, <2>5, <2>6
  <1>3. QED
    BY <1>1, <1>2 DEF Exact

\* Exactness outlives further commits: what was read names committed rows.
LEMMA ExactIsStable ==
  ASSUME NEW P, NEW Q, P \subseteq Q, Chained(P), Chained(Q), NEW rows, Readable(P, rows),
         NEW valid, NEW breakAt, Exact(P, rows, valid, breakAt)
  PROVE  Exact(Q, rows, valid, breakAt)
  <1>1. ASSUME NEW x \in rows PROVE SoundIn(P, rows, x) <=> SoundIn(Q, rows, x)
    <2>1. PICK a \in P : a.id = x.id /\ a.previousHash = x.previousHash
      BY DEF Readable, Mirrors
    <2>2. ASSUME NEW y \in Q, y.id = x.id PROVE y \in P
      BY <2>1, <2>2 DEF Chained
    <2>3. ASSUME x.previousHash # Genesis, NEW y \in Q, y.hash = x.previousHash PROVE y \in P
      <3>1. PICK c \in P : c.hash = x.previousHash
        BY <2>1, <2>3 DEF Chained
      <3>2. c = y
        BY <2>3, <3>1, HashNamesRow
      <3>3. QED
        BY <3>2
    <2>4. (\E y \in P : y.id = x.id /\ y.amount = x.amount)
            <=> \E y \in Q : y.id = x.id /\ y.amount = x.amount
      BY <2>2
    <2>5. ASSUME x.previousHash # Genesis
          PROVE  {z \in P : z.hash = x.previousHash} = {z \in Q : z.hash = x.previousHash}
      BY <2>3, <2>5
    <2>6. QED
      BY <2>4, <2>5 DEF SoundIn
  <1>2. QED
    BY <1>1 DEF Exact

-----------------------------------------------------------------------------
(* The rows a posting inserts.                                             *)

\* The lines and the effective date of a call.
LEMMA JournalFacts ==
  ASSUME NEW p \in Posting
  PROVE  /\ Len(Lines(p)) \in Nat /\ DOMAIN Lines(p) = 1..Len(Lines(p))
         /\ \A i \in 1..Len(Lines(p)) : Lines(p)[i] \in LineType
         /\ Journal[p].effective \in Period /\ Journal[p].effective \in Nat
  <1>1. Journal[p] \in JournalType /\ Period \subseteq Nat
    BY AuditAssumption
  <1>2. Lines(p) \in Seq(LineType) /\ Journal[p].effective \in Period
    BY <1>1 DEF JournalType, Lines
  <1>3. Len(Lines(p)) \in Nat /\ DOMAIN Lines(p) = 1..Len(Lines(p))
    BY <1>2
  <1>4. \A i \in 1..Len(Lines(p)) : Lines(p)[i] \in LineType
    BY <1>2
  <1>5. QED
    BY <1>1, <1>2, <1>3, <1>4

\* The recursive definition of the hashes defines a function.
LEMMA HashesUnfold ==
  ASSUME NEW p \in Posting, NEW tail
  PROVE  Hashes(p, tail) =
           [i \in 0..Len(Lines(p)) |-> IF i = 0 THEN tail
              ELSE computeHash(<<p, i>>, Lines(p)[i].amount, Hashes(p, tail)[i - 1])]
  <1> DEFINE n == Len(Lines(p))
             H(i, h) == computeHash(<<p, i>>, Lines(p)[i].amount, h)
             Def(g, k) == g = [i \in 0..k |-> IF i = 0 THEN tail ELSE H(i, g[i - 1])]
             Has(k) == \E g : Def(g, k)
             G == {k \in 0..n : Has(k)}
  <1>1. n \in Nat
    BY JournalFacts
  <1> HIDE DEF n, H
  <1>2. 0 \in G
    <2>1. Def([i \in 0..0 |-> tail], 0)
      OBVIOUS
    <2>2. Has(0)
      BY <2>1
    <2>3. QED
      <3> HIDE DEF Has
      <3> QED BY <1>1, <2>2
  <1>3. PICK m \in G : \A k \in G : k <= m
    <2>1. G # {} /\ G \subseteq 0..n /\ G \subseteq Int
      <3> HIDE DEF Has
      <3> QED BY <1>2
    <2>2. IsFiniteSet(G)
      <3>1. IsFiniteSet(0..n)
        BY <1>1, FS_Interval
      <3>2. QED
        BY <2>1, <3>1, FS_Subset
    <2>3. QED
      <3> HIDE DEF G
      <3> QED BY <2>1, <2>2, FiniteMax
  <1>4. ASSUME m # n PROVE FALSE
    <2>1. m \in Nat /\ m + 1 \in 0..n
      BY <1>1, <1>4
    <2>2. PICK g : Def(g, m)
      OBVIOUS
    <2> DEFINE h == [i \in 0..(m + 1) |-> IF i = m + 1 THEN H(m + 1, g[m]) ELSE g[i]]
    <2>3. ASSUME NEW i \in 0..(m + 1) PROVE h[i] = IF i = 0 THEN tail ELSE H(i, h[i - 1])
      <3>1. CASE i = m + 1
        BY <2>1, <3>1
      <3>2. CASE i # m + 1
        <4>1. i \in 0..m /\ h[i] = g[i]
          BY <2>1, <3>2
        <4>2. g[i] = IF i = 0 THEN tail ELSE H(i, g[i - 1])
          BY <2>2, <4>1
        <4>3. i # 0 => h[i - 1] = g[i - 1]
          BY <2>1, <4>1
        <4>4. QED
          BY <4>1, <4>2, <4>3
      <3>3. QED
        BY <3>1, <3>2
    <2>4. Def(h, m + 1)
      BY <2>3
    <2>5. m + 1 \in G
      BY <2>1, <2>4
    <2>6. QED
      BY <1>3, <2>1, <2>5
  <1>5. \E g : Def(g, n)
    BY <1>4
  <1>6. Def(CHOOSE g : Def(g, n), n)
    BY <1>5
  <1>7. Hashes(p, tail) = CHOOSE g : Def(g, n)
    BY DEF Hashes, n, H
  <1>8. Def(Hashes(p, tail), n)
    BY <1>6, <1>7
  <1>9. QED
    BY <1>8 DEF n, H

RowFields == {"id", "account", "entryType", "amount", "effective", "ref", "status", "at",
              "previousHash", "hash"}

\* Row i of call p's journal.
RowAt(p, tail, start, i) ==
  [id |-> <<p, i>>, account |-> Lines(p)[i].account,
   entryType |-> Lines(p)[i].entryType, amount |-> Lines(p)[i].amount,
   effective |-> Journal[p].effective, ref |-> Journal[p].ref,
   status |-> "POSTED", at |-> start + i,
   previousHash |-> Hashes(p, tail)[i - 1], hash |-> Hashes(p, tail)[i]]

\* A row of the journal of the call its id names; an UPDATE may have changed
\* the amount and the status.
IsRow(x) ==
  /\ DOMAIN x = RowFields
  /\ \E p \in Posting : \E i \in 1..Len(Lines(p)) :
       /\ x.id = <<p, i>>
       /\ x.account = Lines(p)[i].account /\ x.entryType = Lines(p)[i].entryType
       /\ x.effective = Journal[p].effective /\ x.ref = Journal[p].ref
  /\ x.at \in Nat
  /\ x.amount \in Nat

Owner(x) == x.id[1]

\* A row is a line of the call it belongs to, and has its effective date.
LEMMA RowFacts ==
  ASSUME NEW x, IsRow(x)
  PROVE  /\ Owner(x) \in Posting /\ x.id[2] \in 1..Len(Lines(Owner(x)))
         /\ x.id = <<Owner(x), x.id[2]>>
         /\ x.effective = Journal[Owner(x)].effective
  BY DEF IsRow, Owner

\* The rows of a call are one row per line.
LEMMA NewRowsAre ==
  ASSUME NEW p \in Posting, NEW tail, NEW start
  PROVE  NewRows(p, tail, start) = {RowAt(p, tail, start, i) : i \in 1..Len(Lines(p))}
  BY JournalFacts DEF NewRows, RowAt

\* What the insertion of a row gives it.
LEMMA NewRowFacts ==
  ASSUME NEW p \in Posting, NEW tail, NEW start \in Nat, NEW x \in NewRows(p, tail, start)
  PROVE  /\ IsRow(x) /\ Owner(x) = p /\ start < x.at /\ x.at <= start + Len(Lines(p))
         /\ x.status = "POSTED"
         /\ x.hash = computeHash(x.id, x.amount, x.previousHash)
  <1> DEFINE n == Len(Lines(p))
             h == Hashes(p, tail)
  <1>0. PICK i \in 1..Len(Lines(p)) : x = RowAt(p, tail, start, i)
    BY NewRowsAre
  <1>1. n \in Nat /\ i \in 0..n /\ i - 1 \in 0..n /\ i \in Nat /\ i # 0
    BY JournalFacts
  <1>2. h = [k \in 0..n |-> IF k = 0 THEN tail
                             ELSE computeHash(<<p, k>>, Lines(p)[k].amount, h[k - 1])]
    BY HashesUnfold
  <1>3. h[i] = computeHash(<<p, i>>, Lines(p)[i].amount, h[i - 1])
    <2> HIDE DEF h, n
    <2> QED BY <1>1, <1>2
  <1>4. x.id = <<p, i>> /\ x.at = start + i /\ x.amount = Lines(p)[i].amount /\ x.status = "POSTED"
        /\ x.previousHash = h[i - 1] /\ x.hash = h[i]
    BY <1>0 DEF RowAt
  <1>5. DOMAIN x = RowFields
    BY <1>0 DEF RowAt, RowFields
  <1>6. Lines(p)[i].amount \in Nat
    BY JournalFacts DEF LineType
  <1>7. x.account = Lines(p)[i].account /\ x.entryType = Lines(p)[i].entryType
        /\ x.effective = Journal[p].effective /\ x.ref = Journal[p].ref
    BY <1>0 DEF RowAt
  <1>8. start + i \in Nat /\ start < start + i /\ start + i <= start + n
    BY <1>1
  <1> HIDE DEF h
  <1>9. IsRow(x)
    <2>1. i \in 1..Len(Lines(p))
      OBVIOUS
    <2>2. QED
      BY <1>4, <1>5, <1>6, <1>7, <1>8, <2>1 DEF IsRow
  <1>10. Owner(x) = p
    BY <1>4 DEF Owner
  <1>11. x.hash = computeHash(x.id, x.amount, x.previousHash)
    BY <1>3, <1>4
  <1>12. QED
    BY <1>4, <1>8, <1>9, <1>10, <1>11

\* A journal's rows have an id each of their own.
LEMMA NewRowIds ==
  ASSUME NEW p \in Posting, NEW tail, NEW start \in Nat
  PROVE  \A x, y \in NewRows(p, tail, start) : x.id = y.id => x = y
  <1> SUFFICES ASSUME NEW x \in NewRows(p, tail, start), NEW y \in NewRows(p, tail, start),
                      x.id = y.id
               PROVE  x = y
    OBVIOUS
  <1>1. PICK i \in 1..Len(Lines(p)) : x = RowAt(p, tail, start, i)
    BY NewRowsAre
  <1>2. PICK j \in 1..Len(Lines(p)) : y = RowAt(p, tail, start, j)
    BY NewRowsAre
  <1>3. x.id[2] = i
    BY <1>1 DEF RowAt
  <1>4. y.id[2] = j
    BY <1>2 DEF RowAt
  <1>5. QED
    BY <1>1, <1>2, <1>3, <1>4

\* And an instant each of their own.
LEMMA NewRowInstants ==
  ASSUME NEW p \in Posting, NEW tail, NEW start \in Nat
  PROVE  \A x, y \in NewRows(p, tail, start) : x.at = y.at => x = y
  <1> SUFFICES ASSUME NEW x \in NewRows(p, tail, start), NEW y \in NewRows(p, tail, start),
                      x.at = y.at
               PROVE  x = y
    OBVIOUS
  <1>1. PICK i \in 1..Len(Lines(p)) : x = RowAt(p, tail, start, i)
    BY NewRowsAre
  <1>2. PICK j \in 1..Len(Lines(p)) : y = RowAt(p, tail, start, j)
    BY NewRowsAre
  <1>3. x.at = start + i
    BY <1>1 DEF RowAt
  <1>4. y.at = start + j
    BY <1>2 DEF RowAt
  <1>5. start + i = start + j
    BY <1>3, <1>4
  <1>6. i = j
    <2>1. i \in Int /\ j \in Int
      BY JournalFacts
    <2>2. QED
      BY ONLY <1>5, <2>1, start \in Nat
  <1>7. QED
    BY <1>1, <1>2, <1>6

\* Each is chained from the tail or from the row inserted before it.
LEMMA NewRowLink ==
  ASSUME NEW p \in Posting, NEW tail, NEW start \in Nat, NEW x \in NewRows(p, tail, start)
  PROVE  \/ x.previousHash = tail
         \/ \E y \in NewRows(p, tail, start) : y.hash = x.previousHash /\ y.at < x.at
  <1>1. PICK i \in 1..Len(Lines(p)) : x = RowAt(p, tail, start, i)
    BY NewRowsAre
  <1>2. CASE i = 1
    <2>1. x.previousHash = Hashes(p, tail)[0]
      BY <1>1, <1>2 DEF RowAt
    <2>2. Hashes(p, tail)[0] = tail
      <3>1. 0 \in 0..Len(Lines(p))
        BY JournalFacts
      <3>2. QED
        BY <3>1, HashesUnfold
    <2>3. QED
      BY <2>1, <2>2
  <1>3. CASE i # 1
    <2>1. i - 1 \in 1..Len(Lines(p)) /\ i \in Int
      BY <1>3, JournalFacts
    <2>2. PICK y \in NewRows(p, tail, start) : y = RowAt(p, tail, start, i - 1)
      BY <2>1, NewRowsAre
    <2>3. y.at = start + (i - 1) /\ y.hash = Hashes(p, tail)[i - 1]
      BY <2>2 DEF RowAt
    <2>4. x.at = start + i /\ x.previousHash = Hashes(p, tail)[i - 1]
      BY <1>1 DEF RowAt
    <2>5. start + (i - 1) < start + i
      BY ONLY <2>1, start \in Nat
    <2>6. QED
      BY <2>2, <2>3, <2>4, <2>5
  <1>4. QED
    BY <1>2, <1>3

-----------------------------------------------------------------------------
(* Where the rows are: the inductive invariant behind the archive.         *)

Shape ==
  /\ now \in Nat
  /\ tx = [p \in Posting |-> tx[p]]
  /\ \A p \in Posting : DOMAIN tx[p] = {"step", "upto", "lock", "rows"}
  /\ script \in [Archivable -> {"idle", "copied", "detached"}]
  /\ csv = [d \in Archivable |-> csv[d]]
  /\ touched = [d \in Archivable |-> touched[d]]

\* A call has rows of its own between its INSERTs and its COMMIT.
Pending ==
  \A p \in Posting :
    /\ tx[p].step # "commit" => tx[p].rows = {}
    /\ \A x, y \in tx[p].rows : x.id = y.id => x = y
    /\ \A x \in tx[p].rows :
         IsRow(x) /\ Owner(x) = p /\ x.at <= now /\ x.effective \notin Detached

\* Committed rows are the rows of finished calls; they are in one place.
Kept ==
  /\ \A x \in ledger \cup standalone \cup posted :
       IsRow(x) /\ tx[Owner(x)].step = "done" /\ x.at <= now
  /\ \A x \in ledger \cup standalone : Mirrors(posted, x)
  /\ \A x \in posted : \E y \in ledger \cup standalone : y.id = x.id
  /\ \A x, y \in ledger \cup standalone : x.id = y.id => x = y
  /\ \A x \in ledger : x.effective \notin Detached
  /\ \A x \in standalone : x.effective \in Detached

\* What a copy and its partition differ in has been touched since.
Copied ==
  \A d \in Archivable : script[d] # "idle" =>
    /\ \A x \in ledger \cup standalone : x.effective = d /\ x \notin csv[d] => x.id \in touched[d]
    /\ \A x \in csv[d] : ~(x \in ledger \cup standalone /\ x.effective = d) => x.id \in touched[d]

RowsInv == Shape /\ Pending /\ Kept /\ Copied

\* At the start the rows of the opening journal are in the table.
LEMMA RowsInit == Init => RowsInv
  <1> SUFFICES ASSUME Init PROVE RowsInv
    OBVIOUS
  <1>1. Opening \in Posting /\ Len(Lines(Opening)) \in Nat
    BY AuditAssumption, JournalFacts
  <1>2. Detached = {}
    BY DEF Init, Detached
  <1>3. \A p \in Posting : /\ DOMAIN tx[p] = {"step", "upto", "lock", "rows"}
                           /\ tx[p].rows = {}
                           /\ p = Opening => tx[p].step = "done"
    BY DEF Init, NoTx
  <1>4. Shape
    BY <1>1, <1>3 DEF Init, Shape
  <1>5. Pending
    BY <1>3 DEF Pending
  <1>6. ASSUME NEW x \in ledger PROVE IsRow(x) /\ Owner(x) = Opening /\ x.at <= now
    <2>1. x \in NewRows(Opening, Genesis, 0) /\ now = Len(Lines(Opening))
      BY <1>6 DEF Init
    <2>2. IsRow(x) /\ Owner(x) = Opening /\ x.at <= 0 + Len(Lines(Opening))
      BY <1>1, <2>1, NewRowFacts
    <2>3. QED
      BY <1>1, <2>1, <2>2
  <1>7. \A x, y \in ledger : x.id = y.id => x = y
    BY <1>1, NewRowIds DEF Init
  <1>8. posted = ledger /\ standalone = {}
    BY DEF Init
  <1>9. Kept
    BY <1>1, <1>2, <1>3, <1>6, <1>7, <1>8 DEF Kept, Mirrors
  <1>10. Copied
    BY DEF Init, Copied
  <1>11. QED
    BY <1>4, <1>5, <1>9, <1>10 DEF RowsInv

\* The tail query, a rollback, the audit: no row moves.
LEMMA RowsQuiet ==
  ASSUME RowsInv, now' = now, tx' = [p \in Posting |-> tx'[p]],
         \A p \in Posting : /\ DOMAIN tx'[p] = {"step", "upto", "lock", "rows"}
                            /\ tx'[p] = tx[p] \/ /\ tx'[p].rows = {} /\ tx'[p].step # "commit"
                                                 /\ tx[p].step # "done",
         UNCHANGED <<ledger, ArchiveVars, posted, touched>>
  PROVE  RowsInv'
  <1>1. Detached' = Detached
    BY DEF Detached, ArchiveVars
  <1>2. Shape'
    BY DEF RowsInv, Shape, ArchiveVars
  <1>3. Pending'
    BY <1>1 DEF RowsInv, Pending
  <1>4. Kept'
    <2>1. ASSUME NEW x \in ledger \cup standalone \cup posted
          PROVE  IsRow(x) /\ tx'[Owner(x)].step = "done" /\ x.at <= now
      BY <2>1, RowFacts DEF RowsInv, Kept
    <2>2. QED
      BY <1>1, <2>1 DEF RowsInv, Kept, ArchiveVars
  <1>5. Copied'
    BY DEF RowsInv, Copied, ArchiveVars
  <1>6. QED
    BY <1>2, <1>3, <1>4, <1>5 DEF RowsInv

\* Reading the tail moves no row.
LEMMA RowsReadTail ==
  ASSUME RowsInv, NEW p \in Posting, ReadTail(p)
  PROVE  RowsInv'
  <1>1. tx' = [tx EXCEPT ![p] = tx'[p]] /\ tx'[p].rows = {} /\ tx'[p].step = "lock"
        /\ DOMAIN tx'[p] = {"step", "upto", "lock", "rows"}
    BY DEF RowsInv, Shape, ReadTail, NoTx
  <1>2. tx[p].step = "read" /\ now' = now /\ UNCHANGED <<ledger, ArchiveVars, posted, touched>>
    BY DEF ReadTail
  <1>3. tx' = [q \in Posting |-> tx'[q]] /\ \A q \in Posting \ {p} : tx'[q] = tx[q]
    BY <1>1 DEF RowsInv, Shape
  <1>4. \A q \in Posting : DOMAIN tx[q] = {"step", "upto", "lock", "rows"}
    BY DEF RowsInv, Shape
  <1>5. QED
    BY <1>1, <1>2, <1>3, <1>4, RowsQuiet

\* A rollback drops uncommitted rows only.
LEMMA RowsRollback ==
  ASSUME RowsInv, NEW p \in Posting, Rollback(p)
  PROVE  RowsInv'
  <1>1. tx' = [tx EXCEPT ![p] = tx'[p]] /\ tx'[p].rows = {} /\ tx'[p].step = "failed"
        /\ DOMAIN tx'[p] = {"step", "upto", "lock", "rows"}
    BY DEF RowsInv, Shape, Rollback, NoTx
  <1>2. tx[p].step # "done" /\ now' = now /\ UNCHANGED <<ledger, ArchiveVars, posted, touched>>
    BY DEF Rollback, IsOpen
  <1>3. tx' = [q \in Posting |-> tx'[q]] /\ \A q \in Posting \ {p} : tx'[q] = tx[q]
    BY <1>1 DEF RowsInv, Shape
  <1>4. \A q \in Posting : DOMAIN tx[q] = {"step", "upto", "lock", "rows"}
    BY DEF RowsInv, Shape
  <1>5. QED
    BY <1>1, <1>2, <1>3, <1>4, RowsQuiet

\* The inserted rows are uncommitted, new, and in no detached partition.
LEMMA RowsInsertEntries ==
  ASSUME RowsInv, NEW p \in Posting, InsertEntries(p)
  PROVE  RowsInv'
  <1> DEFINE tail == TailHash({x \in Live(ledger) : x.at <= tx[p].upto})
             new == NewRows(p, tail, now)
  <1>1. /\ tx[p].step = "lock" /\ Journal[p].effective \notin Detached
        /\ tx' = [tx EXCEPT ![p].step = "commit", ![p].lock = tail, ![p].rows = new]
        /\ now' = now + Len(Lines(p))
        /\ UNCHANGED <<ledger, ArchiveVars, posted, touched>>
    BY DEF InsertEntries
  <1> HIDE DEF tail
  <1>2. Len(Lines(p)) \in Nat /\ now \in Nat /\ now' \in Nat /\ now <= now'
    <2>1. Len(Lines(p)) \in Nat /\ now \in Nat
      BY JournalFacts DEF RowsInv, Shape
    <2>2. QED
      BY <1>1, <2>1
  <1>3. Detached' = Detached
    BY <1>1 DEF Detached, ArchiveVars
  <1>4. ASSUME NEW x \in new
        PROVE  IsRow(x) /\ Owner(x) = p /\ x.at <= now' /\ x.effective \notin Detached
    <2>1. x \in NewRows(p, tail, now) /\ now \in Nat
      BY <1>2, <1>4
    <2>2. IsRow(x) /\ Owner(x) = p /\ x.at <= now + Len(Lines(p))
      BY <2>1, NewRowFacts
    <2>3. x.effective = Journal[p].effective
      BY <2>2, RowFacts
    <2>4. x.at <= now'
      BY <1>1, <1>2, <2>2
    <2>5. QED
      BY <1>1, <2>2, <2>3, <2>4
  <1>11. \A x, y \in new : x.id = y.id => x = y
    BY <1>2, NewRowIds DEF new
  <1> HIDE DEF new
  <1>5. /\ tx' = [q \in Posting |-> tx'[q]]
        /\ \A q \in Posting : DOMAIN tx'[q] = {"step", "upto", "lock", "rows"}
        /\ tx'[p].step = "commit" /\ tx'[p].rows = new
        /\ \A q \in Posting \ {p} : tx'[q] = tx[q]
    BY <1>1 DEF RowsInv, Shape
  <1>6. Shape'
    BY <1>1, <1>2, <1>5 DEF RowsInv, Shape, ArchiveVars
  <1>7. Pending'
    <2> SUFFICES ASSUME NEW q \in Posting
                 PROVE  /\ tx'[q].step # "commit" => tx'[q].rows = {}
                        /\ \A x, y \in tx'[q].rows : x.id = y.id => x = y
                        /\ \A x \in tx'[q].rows :
                             IsRow(x) /\ Owner(x) = q /\ x.at <= now' /\ x.effective \notin Detached'
      BY DEF Pending
    <2>1. CASE q = p
      BY <1>3, <1>4, <1>5, <1>11, <2>1
    <2>2. CASE q # p
      <3>1. /\ tx[q].step # "commit" => tx[q].rows = {}
            /\ \A x, y \in tx[q].rows : x.id = y.id => x = y
            /\ \A x \in tx[q].rows :
                 IsRow(x) /\ Owner(x) = q /\ x.at <= now /\ x.effective \notin Detached
        BY DEF RowsInv, Pending
      <3>2. \A x \in tx[q].rows : x.at \in Nat
        BY <3>1 DEF IsRow
      <3>3. QED
        BY <1>2, <1>3, <1>5, <2>2, <3>1, <3>2
    <2>3. QED
      BY <2>1, <2>2
  <1>8. Kept'
    <2>1. ASSUME NEW x \in ledger \cup standalone \cup posted
          PROVE  IsRow(x) /\ tx'[Owner(x)].step = "done" /\ x.at <= now'
      <3>1. IsRow(x) /\ tx[Owner(x)].step = "done" /\ x.at <= now
        BY <2>1 DEF RowsInv, Kept
      <3>2. Owner(x) \in Posting /\ x.at \in Nat
        BY <3>1, RowFacts DEF IsRow
      <3>3. Owner(x) # p
        BY <1>1, <3>1
      <3>4. tx'[Owner(x)] = tx[Owner(x)]
        BY <1>5, <3>2, <3>3
      <3>5. x.at <= now'
        BY <1>2, <3>1, <3>2
      <3>6. QED
        BY <3>1, <3>4, <3>5
    <2>2. QED
      BY <1>1, <1>3, <2>1 DEF RowsInv, Kept, ArchiveVars
  <1>9. Copied'
    BY <1>1 DEF RowsInv, Copied, ArchiveVars
  <1>10. QED
    BY <1>6, <1>7, <1>8, <1>9 DEF RowsInv

\* A commit adds rows to the table and touches the partitions they are in.
LEMMA RowsCommit ==
  ASSUME RowsInv, NEW p \in Posting, Commit(p)
  PROVE  RowsInv'
  <1> DEFINE new == tx[p].rows
  <1>1. /\ tx[p].step = "commit"
        /\ ledger' = ledger \cup new /\ posted' = posted \cup new
        /\ touched' = [d \in Archivable |-> touched[d] \cup {x.id : x \in {y \in new : y.effective = d}}]
        /\ now' = now /\ UNCHANGED ArchiveVars
    BY DEF Commit, Touch
  <1>2. /\ tx' = [q \in Posting |-> tx'[q]]
        /\ \A q \in Posting : DOMAIN tx'[q] = {"step", "upto", "lock", "rows"}
        /\ tx'[p].step = "done" /\ tx'[p].rows = {}
        /\ \A q \in Posting \ {p} : tx'[q] = tx[q]
    BY DEF RowsInv, Shape, Commit, NoTx
  <1>3. Detached' = Detached
    BY <1>1 DEF Detached, ArchiveVars
  <1>4. \A x \in new : IsRow(x) /\ Owner(x) = p /\ x.at <= now /\ x.effective \notin Detached
    BY DEF RowsInv, Pending
  <1>9. \A x, y \in new : x.id = y.id => x = y
    BY DEF RowsInv, Pending
  <1> HIDE DEF new
  <1>5. ASSUME NEW x \in ledger \cup standalone \cup posted
        PROVE  IsRow(x) /\ Owner(x) \in Posting /\ Owner(x) # p /\ tx[Owner(x)].step = "done" /\ x.at <= now
    BY <1>1, <1>5, RowFacts DEF RowsInv, Kept
  <1>6. Shape'
    BY <1>1, <1>2 DEF RowsInv, Shape, ArchiveVars
  <1>7. Pending'
    BY <1>1, <1>2, <1>3 DEF RowsInv, Pending
  <1>8. Kept'
    <2>1. ASSUME NEW x \in ledger' \cup standalone' \cup posted'
          PROVE  IsRow(x) /\ tx'[Owner(x)].step = "done" /\ x.at <= now'
      <3>1. CASE x \in new
        BY <1>1, <1>2, <1>4, <3>1
      <3>2. CASE x \in ledger \cup standalone \cup posted
        BY <1>1, <1>2, <1>5, <3>2
      <3>3. QED
        BY <1>1, <2>1, <3>1, <3>2 DEF ArchiveVars
    <2>2. \A x \in ledger' \cup standalone' : Mirrors(posted', x)
      <3>1. \A x \in new : Mirrors(posted', x)
        BY <1>1 DEF Mirrors
      <3>2. \A x \in ledger \cup standalone : Mirrors(posted', x)
        BY <1>1 DEF RowsInv, Kept, Mirrors
      <3>3. QED
        BY <1>1, <3>1, <3>2 DEF ArchiveVars
    <2>3. \A x \in posted' : \E y \in ledger' \cup standalone' : y.id = x.id
      <3>1. \A x \in posted : \E y \in ledger \cup standalone : y.id = x.id
        BY DEF RowsInv, Kept
      <3>2. QED
        BY <1>1, <3>1 DEF ArchiveVars
    <2>4. \A x, y \in ledger' \cup standalone' : x.id = y.id => x = y
      <3> SUFFICES ASSUME NEW x \in ledger' \cup standalone', NEW y \in ledger' \cup standalone', x.id = y.id
                   PROVE  x = y
        OBVIOUS
      <3>1. Owner(x) = Owner(y)
        BY DEF Owner
      <3>2. CASE x \in new
        <4>1. y \in new
          BY <1>1, <1>4, <1>5, <3>1, <3>2 DEF ArchiveVars
        <4>2. QED
          BY <1>9, <3>2, <4>1
      <3>3. CASE y \in new
        <4>1. x \in new
          BY <1>1, <1>4, <1>5, <3>1, <3>3 DEF ArchiveVars
        <4>2. QED
          BY <1>9, <3>3, <4>1
      <3>4. CASE x \notin new /\ y \notin new
        BY <1>1, <3>4 DEF RowsInv, Kept, ArchiveVars
      <3>5. QED
        BY <3>2, <3>3, <3>4
    <2>5. QED
      BY <1>1, <1>3, <1>4, <2>1, <2>2, <2>3, <2>4 DEF RowsInv, Kept, ArchiveVars
  <1>10. Copied'
    <2> SUFFICES ASSUME NEW d \in Archivable, script[d] # "idle"
                 PROVE  /\ \A x \in ledger' \cup standalone' :
                              x.effective = d /\ x \notin csv[d] => x.id \in touched'[d]
                        /\ \A x \in csv[d] :
                              ~(x \in ledger' \cup standalone' /\ x.effective = d) => x.id \in touched'[d]
      BY <1>1 DEF Copied, ArchiveVars
    <2>1. /\ \A x \in ledger \cup standalone : x.effective = d /\ x \notin csv[d] => x.id \in touched[d]
          /\ \A x \in csv[d] : ~(x \in ledger \cup standalone /\ x.effective = d) => x.id \in touched[d]
      BY DEF RowsInv, Copied
    <2>2. touched'[d] = touched[d] \cup {x.id : x \in {y \in new : y.effective = d}}
      BY <1>1
    <2>3. QED
      BY <1>1, <2>1, <2>2 DEF ArchiveVars
  <1>11. QED
    BY <1>6, <1>7, <1>8, <1>10 DEF RowsInv

\* A maintenance UPDATE changes the amount and the status of a row.
LEMMA UpdateRowIs ==
  ASSUME RowsInv, NEW x \in ledger, UpdateRow(x)
  PROVE  \E new : /\ ledger' = (ledger \ {x}) \cup {new}
                  /\ IsRow(new) /\ new.id = x.id /\ Owner(new) = Owner(x) /\ new.at = x.at
                  /\ new.effective = x.effective /\ new.hash = x.hash
                  /\ new.previousHash = x.previousHash
  <1>1. IsRow(x)
    BY DEF RowsInv, Kept
  <1>2. PICK st \in {"POSTED", "REVERSED"}, amount \in NewAmount \cup {x.amount} :
          ledger' = (ledger \ {x}) \cup {[x EXCEPT !.status = st, !.amount = amount]}
    BY DEF UpdateRow
  <1>3. amount \in Nat
    BY <1>1, AuditAssumption DEF IsRow
  <1> DEFINE new == [x EXCEPT !.status = st, !.amount = amount]
  <1>4. /\ IsRow(new) /\ new.id = x.id /\ Owner(new) = Owner(x) /\ new.at = x.at
        /\ new.effective = x.effective /\ new.hash = x.hash /\ new.previousHash = x.previousHash
    <2>1. DOMAIN x = RowFields
      BY <1>1 DEF IsRow
    <2>2. /\ DOMAIN new = RowFields /\ new.id = x.id /\ new.at = x.at /\ new.effective = x.effective
          /\ new.hash = x.hash /\ new.previousHash = x.previousHash
          /\ new.account = x.account /\ new.entryType = x.entryType /\ new.ref = x.ref
          /\ new.amount = amount
      BY <2>1 DEF RowFields
    <2> HIDE DEF new
    <2>3. IsRow(new)
      BY <1>1, <1>3, <2>2 DEF IsRow
    <2>4. QED
      BY <2>2, <2>3 DEF Owner
  <1>5. QED
    BY <1>2, <1>4

\* An UPDATE keeps the row's identity and touches its partition.
LEMMA RowsUpdateRow ==
  ASSUME RowsInv, NEW x \in ledger, UpdateRow(x)
  PROVE  RowsInv'
  <1>1. PICK new : /\ ledger' = (ledger \ {x}) \cup {new}
                   /\ IsRow(new) /\ new.id = x.id /\ Owner(new) = Owner(x) /\ new.at = x.at
                   /\ new.effective = x.effective /\ new.hash = x.hash
                   /\ new.previousHash = x.previousHash
    BY UpdateRowIs
  <1>2. /\ touched' = [d \in Archivable |-> touched[d] \cup {z.id : z \in {y \in {x} : y.effective = d}}]
        /\ UNCHANGED <<PostingVars, ArchiveVars, posted>>
    BY DEF UpdateRow, Touch
  <1>3. Detached' = Detached
    BY <1>2 DEF Detached, ArchiveVars
  <1>4. Shape'
    BY <1>2 DEF RowsInv, Shape, ArchiveVars, PostingVars
  <1>5. Pending'
    BY <1>2, <1>3 DEF RowsInv, Pending, PostingVars
  <1>6. Kept'
    <2>1. IsRow(x) /\ tx[Owner(x)].step = "done" /\ x.at <= now /\ Mirrors(posted, x)
          /\ x.effective \notin Detached
      BY DEF RowsInv, Kept
    <2>2. Mirrors(posted, new)
      BY <1>1, <2>1 DEF Mirrors
    <2>3. \A y \in posted : \E z \in ledger' \cup standalone : z.id = y.id
      <3> SUFFICES ASSUME NEW y \in posted PROVE \E z \in ledger' \cup standalone : z.id = y.id
        OBVIOUS
      <3>1. PICK z \in ledger \cup standalone : z.id = y.id
        BY DEF RowsInv, Kept
      <3>2. QED
        BY <1>1, <3>1
    <2>4. \A y, z \in ledger' \cup standalone : y.id = z.id => y = z
      <3>1. \A y, z \in ledger \cup standalone : y.id = z.id => y = z
        BY DEF RowsInv, Kept
      <3>2. x \notin standalone
        BY <2>1 DEF RowsInv, Kept
      <3>3. \A y \in ledger' \cup standalone : y # new => y \in ledger \cup standalone /\ y # x
        BY <1>1, <3>2
      <3>4. \A y \in ledger' \cup standalone : y # new => y.id # new.id
        BY <1>1, <3>1, <3>3
      <3>5. QED
        BY <3>1, <3>3, <3>4
    <2>5. \A y \in ledger' \cup standalone \cup posted :
            IsRow(y) /\ tx[Owner(y)].step = "done" /\ y.at <= now
      BY <1>1, <2>1 DEF RowsInv, Kept
    <2>6. \A y \in ledger' \cup standalone : Mirrors(posted, y)
      BY <1>1, <2>2 DEF RowsInv, Kept
    <2>7. (\A y \in ledger' : y.effective \notin Detached) /\ \A y \in standalone : y.effective \in Detached
      BY <1>1, <2>1 DEF RowsInv, Kept
    <2>8. QED
      BY <1>2, <1>3, <2>3, <2>4, <2>5, <2>6, <2>7 DEF Kept, ArchiveVars, PostingVars
  <1>7. Copied'
    <2> SUFFICES ASSUME NEW d \in Archivable, script[d] # "idle"
                 PROVE  /\ \A y \in ledger' \cup standalone :
                              y.effective = d /\ y \notin csv[d] => y.id \in touched'[d]
                        /\ \A y \in csv[d] :
                              ~(y \in ledger' \cup standalone /\ y.effective = d) => y.id \in touched'[d]
      BY <1>2 DEF Copied, ArchiveVars
    <2>1. /\ \A y \in ledger \cup standalone : y.effective = d /\ y \notin csv[d] => y.id \in touched[d]
          /\ \A y \in csv[d] : ~(y \in ledger \cup standalone /\ y.effective = d) => y.id \in touched[d]
      BY DEF RowsInv, Copied
    <2>2. /\ touched[d] \subseteq touched'[d]
          /\ x.effective = d => x.id \in touched'[d]
      BY <1>2
    <2>3. QED
      BY <1>1, <2>1, <2>2
  <1>8. QED
    BY <1>4, <1>5, <1>6, <1>7 DEF RowsInv

\* COPY makes the CSV equal to the partition.
LEMMA RowsArchiveCopy ==
  ASSUME RowsInv, NEW d \in Archivable, ArchiveCopy(d)
  PROVE  RowsInv'
  <1>1. /\ script[d] # "detached" /\ script' = [script EXCEPT ![d] = "copied"]
        /\ csv' = [csv EXCEPT ![d] = {x \in ledger : x.effective = d}]
        /\ touched' = [touched EXCEPT ![d] = {}]
        /\ UNCHANGED <<PostingVars, ledger, standalone, posted>>
    BY DEF ArchiveCopy
  <1>2. Detached' = Detached
    BY <1>1 DEF Detached, RowsInv, Shape
  <1>3. Shape'
    BY <1>1 DEF RowsInv, Shape, PostingVars
  <1>4. Pending'
    BY <1>1, <1>2 DEF RowsInv, Pending, PostingVars
  <1>5. Kept'
    BY <1>1, <1>2 DEF RowsInv, Kept, PostingVars
  <1>6. Copied'
    <2> SUFFICES ASSUME NEW e \in Archivable, script'[e] # "idle"
                 PROVE  /\ \A x \in ledger \cup standalone :
                              x.effective = e /\ x \notin csv'[e] => x.id \in touched'[e]
                        /\ \A x \in csv'[e] :
                              ~(x \in ledger \cup standalone /\ x.effective = e) => x.id \in touched'[e]
      BY <1>1 DEF Copied
    <2>1. CASE e = d
      <3>1. csv'[d] = {x \in ledger : x.effective = d}
        BY <1>1 DEF RowsInv, Shape
      <3>2. \A x \in standalone : x.effective # d
        BY <1>1 DEF RowsInv, Kept, Detached
      <3>3. QED
        BY <2>1, <3>1, <3>2
    <2>2. CASE e # d
      <3>1. csv'[e] = csv[e] /\ touched'[e] = touched[e] /\ script'[e] = script[e]
        BY <1>1, <2>2 DEF RowsInv, Shape
      <3>2. QED
        BY <3>1 DEF RowsInv, Copied
    <2>3. QED
      BY <2>1, <2>2
  <1>7. QED
    BY <1>3, <1>4, <1>5, <1>6 DEF RowsInv

\* DETACH moves the rows of one partition; no transaction has others in it.
LEMMA RowsArchiveDetach ==
  ASSUME RowsInv, NEW d \in Archivable, ArchiveDetach(d)
  PROVE  RowsInv'
  <1> DEFINE rows == {x \in ledger : x.effective = d}
  <1>1. /\ script[d] = "copied" /\ script' = [script EXCEPT ![d] = "detached"]
        /\ \A p \in Posting : ~IsOpen(p)
        /\ ledger' = ledger \ rows /\ standalone' = standalone \cup rows
        /\ UNCHANGED <<PostingVars, csv, posted, touched>>
    BY DEF ArchiveDetach
  <1>2. Detached' = Detached \cup {d}
    BY <1>1 DEF Detached, RowsInv, Shape
  <1>3. ledger' \cup standalone' = ledger \cup standalone
    BY <1>1
  <1>4. Shape'
    BY <1>1 DEF RowsInv, Shape, PostingVars
  <1>5. Pending'
    <2>1. \A p \in Posting : tx[p].rows = {}
      BY <1>1 DEF RowsInv, Pending, IsOpen
    <2>2. QED
      BY <1>1, <2>1 DEF Pending, PostingVars
  <1>6. Kept'
    <2>1. (\A x \in ledger' : x.effective \notin Detached') /\ \A x \in standalone' : x.effective \in Detached'
      BY <1>1, <1>2 DEF RowsInv, Kept
    <2>2. QED
      BY <1>1, <1>3, <2>1 DEF RowsInv, Kept, PostingVars
  <1>7. Copied'
    <2>1. \A e \in Archivable : script'[e] # "idle" => script[e] # "idle"
      BY <1>1 DEF RowsInv, Shape
    <2>2. QED
      BY <1>1, <1>3, <2>1 DEF RowsInv, Copied
  <1>8. QED
    BY <1>4, <1>5, <1>6, <1>7 DEF RowsInv

\* Rows stay where the invariant says, whatever step is taken.
LEMMA RowsStep == RowsInv /\ [Next]_vars => RowsInv'
  <1> SUFFICES ASSUME RowsInv, [Next]_vars PROVE RowsInv'
    OBVIOUS
  <1>1. ASSUME UNCHANGED <<now, tx, ledger, ArchiveVars, posted, touched>> PROVE RowsInv'
    BY <1>1, RowsQuiet DEF RowsInv, Shape
  <1>2. ASSUME NEW p \in Posting, ReadTail(p) \/ InsertEntries(p) \/ Rollback(p) \/ Commit(p)
        PROVE  RowsInv'
    BY <1>2, RowsReadTail, RowsInsertEntries, RowsRollback, RowsCommit
  <1>3. ASSUME NEW x \in ledger, UpdateRow(x) PROVE RowsInv'
    BY <1>3, RowsUpdateRow
  <1>4. ASSUME NEW d \in Archivable, ArchiveCopy(d) \/ ArchiveDetach(d) PROVE RowsInv'
    BY <1>4, RowsArchiveCopy, RowsArchiveDetach
  <1>5. ASSUME NEW from \in RangeStart, NEW to \in RangeEnd, VerifyChain(from, to) PROVE RowsInv'
    BY <1>1, <1>5 DEF VerifyChain, PostingVars
  <1>6. ASSUME Export PROVE RowsInv'
    BY <1>1, <1>6 DEF Export, PostingVars
  <1>7. CASE UNCHANGED vars
    BY <1>1, <1>7 DEF vars, ArchiveVars
  <1>8. QED
    BY <1>2, <1>3, <1>4, <1>5, <1>6, <1>7 DEF Next

\* Archiving loses no committed row and keeps none twice, whatever is posted,
\* updated or audited meanwhile; and a CSV written by archivePartition() misses
\* only what changed between its COPY and its DETACH.
THEOREM ArchiveLosesNothing == Spec => []ArchiveKeepsEveryRow
  <1>1. RowsInv => ArchiveKeepsEveryRow
    <2> SUFFICES ASSUME RowsInv PROVE ArchiveKeepsEveryRow
      OBVIOUS
    <2> DEFINE Ids(rows) == {x.id : x \in rows}
    <2>1. Ids(ledger) \cup Ids(standalone) = Ids(posted)
      <3>1. \A x \in ledger \cup standalone : \E y \in posted : y.id = x.id
        BY DEF RowsInv, Kept, Mirrors
      <3>2. \A x \in posted : \E y \in ledger \cup standalone : y.id = x.id
        BY DEF RowsInv, Kept
      <3>3. QED
        BY <3>1, <3>2
    <2>2. Ids(ledger) \cap Ids(standalone) = {}
      <3>1. ASSUME NEW x \in ledger, NEW y \in standalone PROVE x.id # y.id
        BY <3>1 DEF RowsInv, Kept
      <3>2. QED
        BY <3>1
    <2>3. \A x \in ledger : x.effective \notin Detached
      BY DEF RowsInv, Kept
    <2>4. ASSUME NEW d \in Detached
          PROVE  LET table == {x \in standalone : x.effective = d}
                 IN  Ids((table \ csv[d]) \cup (csv[d] \ table)) \subseteq touched[d]
      <3> DEFINE table == {x \in standalone : x.effective = d}
      <3>1. d \in Archivable /\ script[d] # "idle"
        BY <2>4 DEF Detached
      <3>2. table = {x \in ledger \cup standalone : x.effective = d}
        BY <2>3, <2>4
      <3>3. \A x \in (table \ csv[d]) \cup (csv[d] \ table) : x.id \in touched[d]
        BY <3>1, <3>2 DEF RowsInv, Copied
      <3>4. QED
        BY <3>3
    <2>5. QED
      BY <2>1, <2>2, <2>3, <2>4 DEF ArchiveKeepsEveryRow
  <1>2. QED
    BY RowsInit, RowsStep, <1>1, PTL DEF Spec

-----------------------------------------------------------------------------
(* The chain as it is committed, and what verifyChain() says of it.        *)

\* Rows chained from one set of rows by two calls can be committed together.
LEMMA ChainedUnion ==
  ASSUME NEW P, NEW A, NEW B, Chained(P \cup A), Chained(P \cup B),
         \A x \in A, y \in B : x.id # y.id /\ x.at # y.at
  PROVE  Chained((P \cup A) \cup B)
  <1> DEFINE U == (P \cup A) \cup B
  <1>1. \A x, y \in U : x.id = y.id => x = y
    BY DEF Chained
  <1>2. \A x, y \in U : x.at = y.at => x = y
    BY DEF Chained
  <1>3. \A x \in U : x.at \in Nat /\ x.hash = computeHash(x.id, x.amount, x.previousHash)
    BY DEF Chained
  <1>4. \A x \in U : x.previousHash # Genesis =>
                       \E y \in U : y.hash = x.previousHash /\ y.at < x.at
    <2> SUFFICES ASSUME NEW x \in U, x.previousHash # Genesis
                 PROVE  \E y \in U : y.hash = x.previousHash /\ y.at < x.at
      OBVIOUS
    <2>1. CASE x \in P \cup A
      <3>1. PICK y \in P \cup A : y.hash = x.previousHash /\ y.at < x.at
        BY <2>1 DEF Chained
      <3>2. QED
        BY <3>1
    <2>2. CASE x \in P \cup B
      <3>1. PICK y \in P \cup B : y.hash = x.previousHash /\ y.at < x.at
        BY <2>2 DEF Chained
      <3>2. QED
        BY <3>1
    <2>3. QED
      BY <2>1, <2>2
  <1>5. QED
    BY <1>1, <1>2, <1>3, <1>4 DEF Chained

\* A journal chained from genesis or from a committed row extends the chain.
LEMMA ChainedNew ==
  ASSUME NEW P, Chained(P), NEW p \in Posting, NEW tail, NEW start \in Nat,
         \A x \in P : Owner(x) # p /\ x.at <= start,
         tail = Genesis \/ \E y \in P : y.hash = tail
  PROVE  Chained(P \cup NewRows(p, tail, start))
  <1> DEFINE N == NewRows(p, tail, start)
             U == P \cup N
  <1>1. \A x \in N : /\ Owner(x) = p /\ start < x.at /\ x.at \in Nat
                     /\ x.hash = computeHash(x.id, x.amount, x.previousHash)
    BY NewRowFacts DEF IsRow
  <1>3. \A x, y \in N : x.id = y.id => x = y
    BY NewRowIds
  <1>4. \A x, y \in N : x.at = y.at => x = y
    BY NewRowInstants
  <1>5. ASSUME NEW x \in N, x.previousHash # Genesis
        PROVE  \E y \in U : y.hash = x.previousHash /\ y.at < x.at
    <2>1. CASE x.previousHash = tail
      <3>1. start < x.at /\ x.at \in Nat
        BY <1>1, <1>5
      <3>2. PICK y \in P : y.hash = tail
        BY <1>5, <2>1
      <3>3. y.at <= start /\ y.at \in Nat
        BY DEF Chained
      <3>4. QED
        BY <2>1, <3>1, <3>2, <3>3
    <2>2. CASE \E y \in N : y.hash = x.previousHash /\ y.at < x.at
      BY <2>2
    <2>3. QED
      BY <1>5, <2>1, <2>2, NewRowLink
  <1> HIDE DEF N
  <1>6. \A x \in P, y \in N : x.id # y.id /\ x.at # y.at
    <2> SUFFICES ASSUME NEW x \in P, NEW y \in N PROVE x.id # y.id /\ x.at # y.at
      OBVIOUS
    <2>1. Owner(x) # Owner(y)
      BY <1>1
    <2>2. x.at \in Nat /\ x.at <= start /\ start < y.at /\ y.at \in Nat
      BY <1>1 DEF Chained
    <2>3. QED
      BY <2>1, <2>2 DEF Owner
  <1>7. \A x, y \in U : x.id = y.id => x = y
    BY <1>3, <1>6 DEF Chained
  <1>8. \A x, y \in U : x.at = y.at => x = y
    BY <1>4, <1>6 DEF Chained
  <1>9. \A x \in U : x.at \in Nat /\ x.hash = computeHash(x.id, x.amount, x.previousHash)
    BY <1>1 DEF Chained
  <1>10. ASSUME NEW x \in P, x.previousHash # Genesis
         PROVE  \E y \in U : y.hash = x.previousHash /\ y.at < x.at
    <2>1. PICK y \in P : y.hash = x.previousHash /\ y.at < x.at
      BY <1>10 DEF Chained
    <2>2. QED
      BY <2>1
  <1>11. \A x \in U : x.previousHash # Genesis =>
                        \E y \in U : y.hash = x.previousHash /\ y.at < x.at
    BY <1>5, <1>10
  <1>12. Chained(U)
    BY <1>7, <1>8, <1>9, <1>11 DEF Chained
  <1>13. QED
    BY <1>12 DEF N

\* Every call chains from what is committed, and no two calls share an instant.
ChainInv ==
  /\ Chained(posted)
  /\ \A p \in Posting : Chained(posted \cup tx[p].rows)
  /\ \A p, q \in Posting : p # q => \A x \in tx[p].rows, y \in tx[q].rows : x.at # y.at

\* The opening journal is chained from genesis.
LEMMA ChainInit == Init => ChainInv
  <1> SUFFICES ASSUME Init PROVE ChainInv
    OBVIOUS
  <1>1. Opening \in Posting /\ 0 \in Nat
    BY AuditAssumption
  <1>2. Chained({})
    BY DEF Chained
  <1>3. Chained({} \cup NewRows(Opening, Genesis, 0))
    BY <1>1, <1>2, ChainedNew
  <1>4. posted = NewRows(Opening, Genesis, 0) /\ {} \cup NewRows(Opening, Genesis, 0) = posted
    BY DEF Init
  <1>5. \A p \in Posting : tx[p].rows = {}
    BY DEF Init, NoTx
  <1>6. \A p \in Posting : posted \cup tx[p].rows = posted
    BY <1>5
  <1>7. QED
    BY <1>3, <1>4, <1>5, <1>6 DEF ChainInv

\* A step that inserts and commits no row.
LEMMA ChainQuiet ==
  ASSUME ChainInv, posted' = posted,
         \A p \in Posting : tx'[p].rows = tx[p].rows \/ tx'[p].rows = {}
  PROVE  ChainInv'
  <1>1. ASSUME NEW p \in Posting PROVE Chained(posted' \cup tx'[p].rows)
    <2>1. CASE tx'[p].rows = tx[p].rows
      BY <2>1 DEF ChainInv
    <2>2. CASE tx'[p].rows = {}
      <3>1. posted' \cup tx'[p].rows = posted
        BY <2>2
      <3>2. QED
        BY <3>1 DEF ChainInv
    <2>3. QED
      BY <2>1, <2>2
  <1>2. \A p, q \in Posting : p # q => \A x \in tx'[p].rows, y \in tx'[q].rows : x.at # y.at
    BY DEF ChainInv
  <1>3. QED
    BY <1>1, <1>2 DEF ChainInv

\* Inserted rows chain from a committed row and from one another.
LEMMA ChainInsertEntries ==
  ASSUME RowsInv, ChainInv, NEW p \in Posting, InsertEntries(p)
  PROVE  ChainInv'
  <1> DEFINE S == {x \in Live(ledger) : x.at <= tx[p].upto}
             tail == TailHash(S)
             new == NewRows(p, tail, now)
  <1>1. /\ tx[p].step = "lock" /\ posted' = posted
        /\ tx' = [tx EXCEPT ![p].step = "commit", ![p].lock = tail, ![p].rows = new]
    BY DEF InsertEntries
  <1>2. now \in Nat
    BY DEF RowsInv, Shape
  <1>3. tail = Genesis \/ \E y \in posted : y.hash = tail
    <2>1. CASE S = {}
      BY <2>1 DEF TailHash
    <2>2. CASE S # {}
      <3>1. \A x \in S : x.at \in Nat /\ x.at <= now /\ Mirrors(posted, x)
        BY DEF Live, RowsInv, Kept, IsRow
      <3>2. Last(S) \in S
        <4> HIDE DEF S
        <4> QED BY <1>2, <2>2, <3>1, LastRow
      <3>3. PICK y \in posted : y.hash = Last(S).hash
        BY <3>1, <3>2 DEF Mirrors
      <3>4. QED
        BY <2>2, <3>3 DEF TailHash
    <2>3. QED
      BY <2>1, <2>2
  <1>4. \A x \in posted : Owner(x) # p /\ x.at <= now
    BY <1>1 DEF RowsInv, Kept
  <1> HIDE DEF S, tail
  <1>5. Chained(posted \cup new)
    BY <1>2, <1>3, <1>4, ChainedNew DEF ChainInv
  <1>6. \A x \in new : now < x.at
    BY <1>2, NewRowFacts
  <1> HIDE DEF new
  <1>7. tx'[p].rows = new /\ \A q \in Posting \ {p} : tx'[q] = tx[q]
    BY <1>1 DEF RowsInv, Shape
  <1>8. \A q \in Posting : Chained(posted \cup tx'[q].rows)
    BY <1>5, <1>7 DEF ChainInv
  <1>9. \A q \in Posting \ {p} : \A x \in tx[q].rows : x.at \in Nat /\ x.at <= now
    BY DEF RowsInv, Pending, IsRow
  <1>10. \A q \in Posting \ {p} : \A x \in new, y \in tx[q].rows : x.at # y.at
    BY <1>2, <1>6, <1>9
  <1>11. \A q, r \in Posting : q # r => \A x \in tx'[q].rows, y \in tx'[r].rows : x.at # y.at
    <2> SUFFICES ASSUME NEW q \in Posting, NEW r \in Posting, q # r,
                        NEW x \in tx'[q].rows, NEW y \in tx'[r].rows
                 PROVE  x.at # y.at
      OBVIOUS
    <2>1. CASE q = p
      BY <1>7, <1>10, <2>1
    <2>2. CASE r = p
      BY <1>7, <1>10, <2>2
    <2>3. CASE q # p /\ r # p
      BY <1>7, <2>3 DEF ChainInv
    <2>4. QED
      BY <2>1, <2>2, <2>3
  <1>12. QED
    BY <1>1, <1>8, <1>11 DEF ChainInv

\* What one call commits leaves the rows of the others chained.
LEMMA ChainCommit ==
  ASSUME RowsInv, ChainInv, NEW p \in Posting, Commit(p)
  PROVE  ChainInv'
  <1>1. /\ posted' = posted \cup tx[p].rows /\ tx'[p].rows = {}
        /\ \A q \in Posting \ {p} : tx'[q] = tx[q]
    BY DEF RowsInv, Shape, Commit, NoTx
  <1>2. ASSUME NEW q \in Posting \ {p} PROVE Chained(posted' \cup tx'[q].rows)
    <2>1. \A x \in tx[p].rows, y \in tx[q].rows : x.id # y.id /\ x.at # y.at
      <3>1. \A x \in tx[p].rows, y \in tx[q].rows : Owner(x) = p /\ Owner(y) = q /\ x.at # y.at
        BY <1>2 DEF ChainInv, RowsInv, Pending
      <3>2. QED
        BY <1>2, <3>1 DEF Owner
    <2>2. Chained(posted \cup tx[p].rows) /\ Chained(posted \cup tx[q].rows)
      BY <1>2 DEF ChainInv
    <2>3. Chained((posted \cup tx[p].rows) \cup tx[q].rows)
      BY <2>1, <2>2, ChainedUnion
    <2>4. QED
      BY <1>1, <1>2, <2>3
  <1>3. Chained(posted')
    BY <1>1 DEF ChainInv
  <1>4. posted' \cup tx'[p].rows = posted'
    BY <1>1
  <1>5. \A q \in Posting : Chained(posted' \cup tx'[q].rows)
    BY <1>2, <1>3, <1>4
  <1>6. \A q, r \in Posting : q # r => \A x \in tx'[q].rows, y \in tx'[r].rows : x.at # y.at
    BY <1>1 DEF ChainInv
  <1>7. QED
    BY <1>3, <1>5, <1>6 DEF ChainInv

\* The chain stays a chain, whatever step is taken.
LEMMA ChainStep == RowsInv /\ ChainInv /\ [Next]_vars => ChainInv'
  <1> SUFFICES ASSUME RowsInv, ChainInv, [Next]_vars PROVE ChainInv'
    OBVIOUS
  <1>1. ASSUME UNCHANGED <<tx, posted>> PROVE ChainInv'
    BY <1>1, ChainQuiet
  <1>2. ASSUME NEW p \in Posting, ReadTail(p) \/ Rollback(p) PROVE ChainInv'
    <2>1. posted' = posted /\ \A q \in Posting : tx'[q].rows = tx[q].rows \/ tx'[q].rows = {}
      BY <1>2 DEF ReadTail, Rollback, NoTx, RowsInv, Shape
    <2>2. QED
      BY <2>1, ChainQuiet
  <1>3. ASSUME NEW p \in Posting, InsertEntries(p) \/ Commit(p) PROVE ChainInv'
    BY <1>3, ChainInsertEntries, ChainCommit
  <1>4. ASSUME NEW x \in ledger, UpdateRow(x) PROVE ChainInv'
    BY <1>1, <1>4 DEF UpdateRow, PostingVars
  <1>5. ASSUME NEW d \in Archivable, ArchiveCopy(d) \/ ArchiveDetach(d) PROVE ChainInv'
    BY <1>1, <1>5 DEF ArchiveCopy, ArchiveDetach, PostingVars
  <1>6. ASSUME NEW from \in RangeStart, NEW to \in RangeEnd, VerifyChain(from, to) PROVE ChainInv'
    BY <1>1, <1>6 DEF VerifyChain, PostingVars
  <1>7. ASSUME Export PROVE ChainInv'
    BY <1>1, <1>7 DEF Export, PostingVars
  <1>8. CASE UNCHANGED vars
    BY <1>1, <1>8 DEF vars
  <1>9. QED
    BY <1>2, <1>3, <1>4, <1>5, <1>6, <1>7, <1>8 DEF Next

\* The verdict on the rows read, however much is committed after it.
VerdictInv ==
  /\ DOMAIN audit = DOMAIN NoAudit
  /\ audit.step # "verify" =>
       /\ Readable(posted, audit.rows)
       /\ Exact(posted, audit.rows, audit.valid, audit.firstBreakAt)

\* No verdict has been given at the start.
LEMMA VerdictInit == Init => VerdictInv
  BY DEF Init, VerdictInv, NoAudit

\* Committing leaves the verdict as exact as it was.
LEMMA VerdictKept ==
  ASSUME VerdictInv, ChainInv, ChainInv', posted \subseteq posted',
         DOMAIN audit' = DOMAIN audit, audit'.step # "verify" => audit.step # "verify",
         audit'.rows = audit.rows, audit'.valid = audit.valid,
         audit'.firstBreakAt = audit.firstBreakAt
  PROVE  VerdictInv'
  <1> SUFFICES ASSUME audit.step # "verify"
               PROVE  /\ Readable(posted', audit.rows)
                      /\ Exact(posted', audit.rows, audit.valid, audit.firstBreakAt)
    BY DEF VerdictInv
  <1>1. Readable(posted, audit.rows) /\ Exact(posted, audit.rows, audit.valid, audit.firstBreakAt)
    BY DEF VerdictInv
  <1>2. Chained(posted) /\ Chained(posted')
    BY DEF ChainInv
  <1>3. Readable(posted', audit.rows)
    BY <1>1 DEF Readable, Mirrors
  <1>4. Exact(posted', audit.rows, audit.valid, audit.firstBreakAt)
    BY <1>1, <1>2, ExactIsStable
  <1>5. QED
    BY <1>3, <1>4

\* The verdict is exact when it is given.
LEMMA VerdictVerifyChain ==
  ASSUME RowsInv, ChainInv, VerdictInv, NEW from, NEW to, VerifyChain(from, to)
  PROVE  VerdictInv'
  <1> DEFINE rows == Found(from, to)
             valid == \A x \in rows : ~breaks(rows, x)
             breakAt == IF valid THEN Genesis ELSE firstBreak(rows).id
  <1>1. posted' = posted /\ DOMAIN audit' = DOMAIN audit
    BY DEF VerifyChain
  <1>2. audit'.rows = rows /\ audit'.valid = valid /\ audit'.firstBreakAt = breakAt
    BY DEF VerifyChain, VerdictInv, NoAudit
  <1>3. Readable(posted, rows)
    BY DEF Found, Live, Readable, RowsInv, Kept
  <1>4. Chained(posted)
    BY DEF ChainInv
  <1>5. valid \in BOOLEAN /\ (valid <=> \A x \in rows : ~breaks(rows, x))
        /\ (~valid => breakAt = firstBreak(rows).id)
    OBVIOUS
  <1> HIDE DEF rows, valid, breakAt
  <1>6. Exact(posted, rows, valid, breakAt)
    BY <1>3, <1>4, <1>5, VerdictIsExact
  <1>7. QED
    BY <1>1, <1>2, <1>3, <1>6 DEF VerdictInv

\* The verdict stays exact, since committed rows are never forgotten.
LEMMA VerdictStep ==
  RowsInv /\ ChainInv /\ ChainInv' /\ VerdictInv /\ [Next]_vars => VerdictInv'
  <1> SUFFICES ASSUME RowsInv, ChainInv, ChainInv', VerdictInv, [Next]_vars PROVE VerdictInv'
    OBVIOUS
  <1>1. ASSUME audit' = audit, posted \subseteq posted' PROVE VerdictInv'
    BY <1>1, VerdictKept
  <1>2. ASSUME NEW p \in Posting, ReadTail(p) \/ InsertEntries(p) \/ Rollback(p) \/ Commit(p)
        PROVE  VerdictInv'
    <2>1. audit' = audit /\ posted \subseteq posted'
      BY <1>2 DEF ReadTail, InsertEntries, Rollback, Commit
    <2>2. QED
      BY <1>1, <2>1
  <1>3. ASSUME audit' = [audit EXCEPT !.maintained = audit.maintained \/ audit.step = "export"],
               posted' = posted
        PROVE  VerdictInv'
    <2>1. /\ DOMAIN audit' = DOMAIN audit /\ audit'.step = audit.step /\ audit'.rows = audit.rows
          /\ audit'.valid = audit.valid /\ audit'.firstBreakAt = audit.firstBreakAt
      BY <1>3 DEF VerdictInv, NoAudit
    <2>2. QED
      BY <1>3, <2>1, VerdictKept
  <1>4. ASSUME NEW x \in ledger, UpdateRow(x) PROVE VerdictInv'
    BY <1>3, <1>4 DEF UpdateRow
  <1>5. ASSUME NEW d \in Archivable, ArchiveCopy(d) \/ ArchiveDetach(d) PROVE VerdictInv'
    <2>1. CASE ArchiveCopy(d)
      BY <1>1, <2>1 DEF ArchiveCopy
    <2>2. CASE ArchiveDetach(d)
      BY <1>3, <2>2 DEF ArchiveDetach
    <2>3. QED
      BY <1>5, <2>1, <2>2
  <1>6. ASSUME NEW from \in RangeStart, NEW to \in RangeEnd, VerifyChain(from, to) PROVE VerdictInv'
    BY <1>6, VerdictVerifyChain
  <1>7. ASSUME Export PROVE VerdictInv'
    <2>1. /\ audit.step = "export" /\ posted' = posted
          /\ audit' = [audit EXCEPT !.step = "done", !.entries = Found(audit.from, audit.to)]
      BY <1>7 DEF Export
    <2>2. /\ DOMAIN audit' = DOMAIN audit /\ audit'.rows = audit.rows
          /\ audit'.valid = audit.valid /\ audit'.firstBreakAt = audit.firstBreakAt
      BY <2>1 DEF VerdictInv, NoAudit
    <2>3. QED
      BY <2>1, <2>2, VerdictKept
  <1>8. CASE UNCHANGED vars
    BY <1>1, <1>8 DEF vars
  <1>9. QED
    BY <1>2, <1>4, <1>5, <1>6, <1>7, <1>8 DEF Next

\* verifyChain() is exact: it accepts the rows it reads exactly when each says
\* what was posted, hangs from a row read before it and shares its predecessor
\* with none; and everything before the break it reports is sound.  However
\* postings interleave, fork, are archived or are updated.
THEOREM ChainVerdictsAreExact == Spec => []ChainVerdictIsExact
  <1>1. VerdictInv => ChainVerdictIsExact
    <2> SUFFICES ASSUME VerdictInv, audit.step # "verify"
                 PROVE  /\ audit.valid <=>
                             /\ \A x \in audit.rows : Sound(audit.rows, x)
                             /\ \A x, y \in audit.rows : x.previousHash = y.previousHash => x = y
                        /\ ~audit.valid =>
                             \E b \in audit.rows :
                               /\ b.id = audit.firstBreakAt
                               /\ \A x \in audit.rows : x.at < b.at => Sound(audit.rows, x)
      BY DEF ChainVerdictIsExact
    <2>1. Exact(posted, audit.rows, audit.valid, audit.firstBreakAt)
      BY DEF VerdictInv
    <2>2. QED
      BY <2>1, SoundIsSoundIn DEF Exact
  <1>2. QED
    BY RowsInit, RowsStep, ChainInit, ChainStep, VerdictInit, VerdictStep, <1>1, PTL DEF Spec

-----------------------------------------------------------------------------
(* The export, and what was verified for it.                               *)

\* Between the two queries of exportForRegulator(), of a period that is over.
Between ==
  audit.step = "export" /\ ~audit.maintained /\ audit.to <= audit.startedAt

ExportInv ==
  /\ DOMAIN audit = DOMAIN NoAudit
  /\ audit.to \in Nat /\ audit.startedAt \in Nat /\ audit.startedAt <= now
  /\ Between => /\ audit.rows \subseteq Found(audit.from, audit.to)
                /\ Found(audit.from, audit.to) \subseteq audit.rows \cup audit.inFlight
                /\ \A p \in Posting : \A x \in tx[p].rows :
                     x.at <= audit.startedAt => x \in audit.inFlight
  /\ ExportIsWhatWasVerified

\* Nothing has been verified or exported at the start.
LEMMA ExportInit == Init => ExportInv
  <1>1. Len(Lines(Opening)) \in Nat
    BY AuditAssumption, JournalFacts
  <1>2. QED
    BY <1>1 DEF Init, ExportInv, Between, NoAudit, ExportIsWhatWasVerified

\* A step of a posting: rows inserted now are later than the verification,
\* rows committed now were inserted before it or are later, too.
LEMMA ExportPosting ==
  ASSUME RowsInv, ExportInv, audit' = audit, now' \in Nat, now <= now',
         ledger \subseteq ledger',
         \A x \in ledger' \ ledger : \E p \in Posting : x \in tx[p].rows,
         \A p \in Posting : \A x \in tx'[p].rows :
           x \in tx[p].rows \/ (x.at \in Nat /\ now < x.at)
  PROVE  ExportInv'
  <1>1. now \in Nat /\ audit.to \in Nat /\ audit.startedAt \in Nat /\ audit.startedAt <= now
    BY DEF RowsInv, Shape, ExportInv
  <1>2. DOMAIN audit' = DOMAIN NoAudit /\ audit'.startedAt <= now'
    <2>1. audit.startedAt <= now'
      BY <1>1
    <2>2. QED
      BY <2>1 DEF ExportInv
  <1>3. ASSUME Between
        PROVE  /\ audit.rows \subseteq Found(audit.from, audit.to)'
               /\ Found(audit.from, audit.to)' \subseteq audit.rows \cup audit.inFlight
               /\ \A p \in Posting : \A x \in tx'[p].rows :
                    x.at <= audit.startedAt => x \in audit.inFlight
    <2>1. /\ audit.rows \subseteq Found(audit.from, audit.to)
          /\ Found(audit.from, audit.to) \subseteq audit.rows \cup audit.inFlight
          /\ \A p \in Posting : \A x \in tx[p].rows : x.at <= audit.startedAt => x \in audit.inFlight
          /\ audit.to <= audit.startedAt
      BY <1>3 DEF ExportInv, Between
    <2>2. Found(audit.from, audit.to) \subseteq Found(audit.from, audit.to)'
      BY DEF Found, Live
    <2>3. ASSUME NEW x \in Found(audit.from, audit.to)' PROVE x \in audit.rows \cup audit.inFlight
      <3>1. CASE x \in ledger
        <4>1. x \in Found(audit.from, audit.to)
          BY <2>3, <3>1 DEF Found, Live
        <4>2. QED
          BY <2>1, <4>1
      <3>2. CASE x \notin ledger
        <4>1. x \in ledger' \ ledger /\ x.at <= audit.to
          BY <2>3, <3>2 DEF Found, Live
        <4>2. PICK p \in Posting : x \in tx[p].rows
          BY <4>1
        <4>3. x.at \in Nat
          BY <4>2 DEF RowsInv, Pending, IsRow
        <4>4. x.at <= audit.startedAt
          BY <1>1, <2>1, <4>1, <4>3
        <4>5. QED
          BY <2>1, <4>2, <4>4
      <3>3. QED
        BY <3>1, <3>2
    <2>4. ASSUME NEW p \in Posting, NEW x \in tx'[p].rows, x.at <= audit.startedAt
          PROVE  x \in audit.inFlight
      <3>1. ~(x.at \in Nat /\ now < x.at)
        BY <1>1, <2>4
      <3>2. x \in tx[p].rows
        BY <2>4, <3>1
      <3>3. QED
        BY <2>1, <2>4, <3>2
    <2>5. QED
      BY <2>1, <2>2, <2>3, <2>4
  <1>4. Between' <=> Between
    BY DEF Between
  <1>5. ExportIsWhatWasVerified'
    BY DEF ExportInv, ExportIsWhatWasVerified
  <1>6. QED
    BY <1>1, <1>2, <1>3, <1>4, <1>5 DEF ExportInv

\* After the verification, postings of the period can only be of calls that
\* were in flight.
LEMMA ExportPostingSteps ==
  ASSUME RowsInv, ExportInv, NEW p \in Posting,
         ReadTail(p) \/ InsertEntries(p) \/ Rollback(p) \/ Commit(p)
  PROVE  ExportInv'
  <1>1. now \in Nat /\ tx = [q \in Posting |-> tx[q]]
        /\ \A q \in Posting : DOMAIN tx[q] = {"step", "upto", "lock", "rows"}
    BY DEF RowsInv, Shape
  <1>2. CASE ReadTail(p) \/ Rollback(p)
    <2>1. audit' = audit /\ now' = now /\ ledger' = ledger
      BY <1>2 DEF ReadTail, Rollback
    <2>2. \A q \in Posting : tx'[q].rows = tx[q].rows \/ tx'[q].rows = {}
      BY <1>1, <1>2 DEF ReadTail, Rollback, NoTx
    <2>3. now' \in Nat /\ now <= now'
      BY <1>1, <2>1
    <2>4. QED
      BY <2>1, <2>2, <2>3, ExportPosting
  <1>3. CASE Commit(p)
    <2>1. audit' = audit /\ now' = now /\ ledger' = ledger \cup tx[p].rows
      BY <1>3 DEF Commit
    <2>2. \A q \in Posting : tx'[q].rows = tx[q].rows \/ tx'[q].rows = {}
      BY <1>1, <1>3 DEF Commit, NoTx
    <2>3. now' \in Nat /\ now <= now'
      BY <1>1, <2>1
    <2>4. \A x \in ledger' \ ledger : \E q \in Posting : x \in tx[q].rows
      BY <2>1
    <2>5. QED
      BY <2>1, <2>2, <2>3, <2>4, ExportPosting
  <1>4. CASE InsertEntries(p)
    <2> DEFINE tail == TailHash({x \in Live(ledger) : x.at <= tx[p].upto})
    <2>1. /\ audit' = audit /\ ledger' = ledger /\ now' = now + Len(Lines(p))
          /\ tx' = [tx EXCEPT ![p].step = "commit", ![p].lock = tail,
                              ![p].rows = NewRows(p, tail, now)]
      BY <1>4 DEF InsertEntries
    <2> HIDE DEF tail
    <2>2. now' \in Nat /\ now <= now'
      <3>1. Len(Lines(p)) \in Nat
        BY JournalFacts
      <3>2. QED
        BY <1>1, <2>1, <3>1
    <2>3. \A q \in Posting \ {p} : tx'[q].rows = tx[q].rows
      BY <1>1, <2>1
    <2>4. tx'[p].rows = NewRows(p, tail, now)
      BY <1>1, <2>1
    <2>5. \A x \in NewRows(p, tail, now) : x.at \in Nat /\ now < x.at
      BY <1>1, NewRowFacts DEF IsRow
    <2>6. \A q \in Posting : \A x \in tx'[q].rows :
            x \in tx[q].rows \/ (x.at \in Nat /\ now < x.at)
      BY <2>3, <2>4, <2>5
    <2>7. QED
      BY <2>1, <2>2, <2>6, ExportPosting
  <1>5. QED
    BY <1>2, <1>3, <1>4

\* An UPDATE or a DETACH between the queries is marked as maintenance.
LEMMA ExportMaintained ==
  ASSUME ExportInv, now' = now,
         audit' = [audit EXCEPT !.maintained = audit.maintained \/ audit.step = "export"]
  PROVE  ExportInv'
  <1>1. /\ DOMAIN audit' = DOMAIN audit
        /\ audit'.step = audit.step /\ audit'.to = audit.to /\ audit'.startedAt = audit.startedAt
        /\ audit'.rows = audit.rows /\ audit'.entries = audit.entries
        /\ audit'.inFlight = audit.inFlight
        /\ audit'.maintained <=> audit.maintained \/ audit.step = "export"
    BY DEF ExportInv, NoAudit
  <1>2. ~Between'
    BY <1>1 DEF Between
  <1>3. ExportIsWhatWasVerified'
    BY <1>1 DEF ExportInv, ExportIsWhatWasVerified
  <1>4. QED
    BY <1>1, <1>2, <1>3 DEF ExportInv

\* The verification reads what is there, and notes what is in flight.
LEMMA ExportVerifyChain ==
  ASSUME RowsInv, ExportInv, NEW from \in RangeStart, NEW to \in RangeEnd, VerifyChain(from, to)
  PROVE  ExportInv'
  <1>1. /\ DOMAIN audit' = DOMAIN audit /\ audit'.step = "export"
        /\ audit'.from = from /\ audit'.to = to /\ audit'.startedAt = now
        /\ audit'.rows = Found(from, to)
        /\ audit'.inFlight = UNION {tx[p].rows : p \in Posting}
    BY DEF VerifyChain, ExportInv, NoAudit
  <1>2. now' = now /\ tx' = tx /\ ledger' = ledger /\ now \in Nat /\ to \in Nat
    BY AuditAssumption DEF VerifyChain, PostingVars, RowsInv, Shape
  <1>3. Found(audit.from, audit.to)' = Found(from, to)
    BY <1>1, <1>2 DEF Found, Live
  <1>4. \A p \in Posting : \A x \in tx'[p].rows : x \in audit'.inFlight
    BY <1>1, <1>2
  <1>5. ExportIsWhatWasVerified'
    BY <1>1 DEF ExportIsWhatWasVerified
  <1>6. QED
    BY <1>1, <1>2, <1>3, <1>4, <1>5 DEF ExportInv

\* The export reads what was verified, and besides only what was in flight.
LEMMA ExportExport ==
  ASSUME ExportInv, Export
  PROVE  ExportInv'
  <1>1. /\ DOMAIN audit' = DOMAIN audit /\ audit'.step = "done" /\ audit.step = "export"
        /\ audit'.to = audit.to /\ audit'.startedAt = audit.startedAt
        /\ audit'.rows = audit.rows /\ audit'.inFlight = audit.inFlight
        /\ audit'.maintained = audit.maintained
        /\ audit'.entries = Found(audit.from, audit.to)
    BY DEF Export, ExportInv, NoAudit
  <1>2. now' = now
    BY DEF Export, PostingVars
  <1>3. ~Between'
    BY <1>1 DEF Between
  <1>4. ExportIsWhatWasVerified'
    <2> SUFFICES ASSUME ~audit'.maintained, audit'.to <= audit'.startedAt
                 PROVE  /\ audit'.rows \subseteq audit'.entries
                        /\ audit'.entries \ audit'.rows \subseteq audit'.inFlight
      BY DEF ExportIsWhatWasVerified
    <2>1. Between
      BY <1>1 DEF Between
    <2>2. /\ audit.rows \subseteq Found(audit.from, audit.to)
          /\ Found(audit.from, audit.to) \subseteq audit.rows \cup audit.inFlight
      BY <2>1 DEF ExportInv
    <2>3. QED
      BY <1>1, <2>2
  <1>5. QED
    BY <1>1, <1>2, <1>3, <1>4 DEF ExportInv

\* The package stays within what was verified or in flight, whatever step is
\* taken.
LEMMA ExportStep == RowsInv /\ ExportInv /\ [Next]_vars => ExportInv'
  <1> SUFFICES ASSUME RowsInv, ExportInv, [Next]_vars PROVE ExportInv'
    OBVIOUS
  <1>1. ASSUME UNCHANGED <<now, tx, ledger, audit>> PROVE ExportInv'
    BY <1>1 DEF ExportInv, Between, Found, Live, ExportIsWhatWasVerified
  <1>2. ASSUME NEW p \in Posting, ReadTail(p) \/ InsertEntries(p) \/ Rollback(p) \/ Commit(p)
        PROVE  ExportInv'
    BY <1>2, ExportPostingSteps
  <1>3. ASSUME NEW x \in ledger, UpdateRow(x) PROVE ExportInv'
    BY <1>3, ExportMaintained DEF UpdateRow, PostingVars
  <1>4. ASSUME NEW d \in Archivable, ArchiveCopy(d) \/ ArchiveDetach(d) PROVE ExportInv'
    <2>1. CASE ArchiveCopy(d)
      BY <1>1, <2>1 DEF ArchiveCopy, PostingVars
    <2>2. CASE ArchiveDetach(d)
      BY <2>2, ExportMaintained DEF ArchiveDetach, PostingVars
    <2>3. QED
      BY <1>4, <2>1, <2>2
  <1>5. ASSUME NEW from \in RangeStart, NEW to \in RangeEnd, VerifyChain(from, to) PROVE ExportInv'
    BY <1>5, ExportVerifyChain
  <1>6. ASSUME Export PROVE ExportInv'
    BY <1>6, ExportExport
  <1>7. CASE UNCHANGED vars
    BY <1>1, <1>7 DEF vars
  <1>8. QED
    BY <1>2, <1>3, <1>4, <1>5, <1>6, <1>7 DEF Next

\* exportForRegulator() reads twice; for a period that is over, and without
\* maintenance in between, the package holds all that was verified, and beyond
\* it only rows that were inserted and not yet committed at the verification.
THEOREM ExportsAreVerified == Spec => []ExportIsWhatWasVerified
  <1>1. ExportInv => ExportIsWhatWasVerified
    BY DEF ExportInv
  <1>2. QED
    BY RowsInit, RowsStep, ExportInit, ExportStep, <1>1, PTL DEF Spec

-----------------------------------------------------------------------------
(* Totals and nets of rows.                                                *)

\* Rows that can be summed.
Summable(S) == IsFiniteSet(S) /\ \A x \in S : x.amount \in Nat

\* A part of summable rows is summable.
LEMMA SummablePart ==
  ASSUME NEW S, Summable(S), NEW T, T \subseteq S
  PROVE  Summable(T)
  BY FS_Subset DEF Summable

\* The total of one side is a natural number.
LEMMA TotalNat ==
  ASSUME NEW S, Summable(S), NEW e
  PROVE  Total(S, e) \in Nat
  <1> DEFINE w == [x \in S |-> x.amount]
             D == {x \in S : x.entryType = e}
  <1>1. IsFiniteSet(D)
    BY FS_Subset DEF Summable
  <1>2. \A x \in D : w[x] \in Nat
    BY DEF Summable
  <1>3. Total(S, e) = SumFunctionOnSet(w, D)
    BY DEF Total
  <1>4. QED
    <2> HIDE DEF w, D
    <2> QED BY <1>1, <1>2, <1>3, SumNat

\* A total is the sum of the totals of two parts.
LEMMA TotalSplit ==
  ASSUME NEW S, Summable(S), NEW T, T \subseteq S, NEW e
  PROVE  Total(S, e) = Total(T, e) + Total(S \ T, e)
  <1> DEFINE w == [x \in S |-> x.amount]
             v == [x \in T |-> x.amount]
             u == [x \in S \ T |-> x.amount]
             DS == {x \in S : x.entryType = e}
             DT == {x \in T : x.entryType = e}
             DU == {x \in S \ T : x.entryType = e}
  <1>1. IsFiniteSet(DS) /\ DT \subseteq DS /\ DS \ DT = DU
    BY FS_Subset DEF Summable
  <1>2. IsFiniteSet(DT) /\ IsFiniteSet(DU)
    <2>1. DU \subseteq DS
      OBVIOUS
    <2>2. QED
      BY <1>1, <2>1, FS_Subset
  <1>3. \A x \in DS : w[x] \in Int
    BY DEF Summable
  <1>4. (\A x \in DT : w[x] = v[x]) /\ \A x \in DU : w[x] = u[x]
    OBVIOUS
  <1>5. /\ Total(S, e) = SumFunctionOnSet(w, DS) /\ Total(T, e) = SumFunctionOnSet(v, DT)
        /\ Total(S \ T, e) = SumFunctionOnSet(u, DU)
    BY DEF Total
  <1> HIDE DEF w, v, u, DS, DT, DU
  <1>6. SumFunctionOnSet(w, DS) = SumFunctionOnSet(w, DT) + SumFunctionOnSet(w, DU)
    BY <1>1, <1>3, SumSplit
  <1>7. SumFunctionOnSet(w, DT) = SumFunctionOnSet(v, DT)
    BY <1>2, <1>4, SumEqual
  <1>8. SumFunctionOnSet(w, DU) = SumFunctionOnSet(u, DU)
    BY <1>2, <1>4, SumEqual
  <1>9. QED
    BY <1>5, <1>6, <1>7, <1>8

\* The net amount of rows is a number.
LEMMA NetInt ==
  ASSUME NEW S, Summable(S)
  PROVE  Net(S) \in Int
  BY TotalNat DEF Net

\* The net amount of rows is that of a part and of the rest.
LEMMA NetSplit ==
  ASSUME NEW S, Summable(S), NEW T, T \subseteq S
  PROVE  Net(S) = Net(T) + Net(S \ T)
  <1>1. Summable(T) /\ Summable(S \ T)
    BY SummablePart
  <1>2. \A e \in {"DEBIT", "CREDIT"} : Total(T, e) \in Nat /\ Total(S \ T, e) \in Nat
    BY <1>1, TotalNat
  <1>3. \A e \in {"DEBIT", "CREDIT"} : Total(S, e) = Total(T, e) + Total(S \ T, e)
    BY TotalSplit
  <1>4. QED
    BY <1>2, <1>3 DEF Net

\* No rows have the net amount zero.
LEMMA NetEmpty == Net({}) = 0
  <1>1. \A e : Total({}, e) = 0
    <2> TAKE e
    <2>1. {x \in {} : x.entryType = e} = {}
      OBVIOUS
    <2>2. QED
      BY <2>1, SumEmpty DEF Total
  <1>2. QED
    BY <1>1 DEF Net

\* Accounts divide the rows: a total is the sum of the accounts' totals.
LEMMA TotalByAccount ==
  ASSUME NEW S, Summable(S), \A x \in S : x.account \in Account, NEW e
  PROVE  SumFunctionOnSet([a \in Account |-> Total(Of(S, a), e)], Account) = Total(S, e)
  <1> DEFINE w == [a \in Account |-> Total(Of(S, a), e)]
             In(A) == {x \in S : x.account \in A}
             Bad == {A \in SUBSET Account : SumFunctionOnSet(w, A) # Total(In(A), e)}
  <1>1. IsFiniteSet(Account)
    BY ReportAssumption
  <1>2. \A a \in Account : w[a] \in Int
    <2> SUFFICES ASSUME NEW a \in Account PROVE Total(Of(S, a), e) \in Nat
      OBVIOUS
    <2>1. Summable(Of(S, a))
      BY SummablePart DEF Of
    <2>2. QED
      BY <2>1, TotalNat
  <1>3. ASSUME Bad # {} PROVE FALSE
    <2>1. PICK A \in Bad : \A B \in Bad : B \subseteq A => B = A
      <3>1. Bad \subseteq SUBSET Account
        OBVIOUS
      <3>2. QED
        <4> HIDE DEF Bad
        <4> QED BY <1>1, <1>3, <3>1, SubsetMin
    <2>2. A \subseteq Account /\ SumFunctionOnSet(w, A) # Total(In(A), e)
      OBVIOUS
    <2>3. IsFiniteSet(A)
      BY <1>1, <2>2, FS_Subset
    <2>4. CASE A = {}
      <3>1. In(A) = {}
        BY <2>4
      <3>2. Total({}, e) = 0
        <4>1. {x \in {} : x.entryType = e} = {}
          OBVIOUS
        <4>2. QED
          BY <4>1, SumEmpty DEF Total
      <3>3. SumFunctionOnSet(w, A) = 0
        <4> HIDE DEF w
        <4> QED BY <2>4, SumEmpty
      <3>4. QED
        BY <2>2, <3>1, <3>2, <3>3
    <2>5. CASE A # {}
      <3>1. PICK a \in A : TRUE
        BY <2>5
      <3> DEFINE B == A \ {a}
      <3>2. B \subseteq A /\ B # A
        BY <3>1
      <3>3. SumFunctionOnSet(w, B) = Total(In(B), e)
        BY <2>1, <2>2, <3>2
      <3>4. SumFunctionOnSet(w, A) = w[a] + SumFunctionOnSet(w, B)
        <4>1. \A x \in A : w[x] \in Int
          BY <1>2, <2>2
        <4>2. QED
          <5> HIDE DEF w
          <5> QED BY <2>3, <3>1, <4>1, SumRemove
      <3>5. Of(S, a) \subseteq In(A) /\ In(A) \ Of(S, a) = In(B)
        BY <3>1 DEF Of
      <3>6. Summable(In(A))
        BY SummablePart
      <3>7. Total(In(A), e) = Total(Of(S, a), e) + Total(In(B), e)
        BY <3>5, <3>6, TotalSplit
      <3>8. w[a] = Total(Of(S, a), e)
        BY <2>2, <3>1
      <3>9. QED
        BY <2>2, <3>3, <3>4, <3>7, <3>8
    <2>6. QED
      BY <2>4, <2>5
  <1>4. SumFunctionOnSet(w, Account) = Total(In(Account), e)
    BY <1>3
  <1>5. In(Account) = S
    OBVIOUS
  <1>6. QED
    BY <1>4, <1>5

-----------------------------------------------------------------------------
(* Journals stay whole until maintenance changes a row.                    *)

\* A call has finitely many rows.
LEMMA NewRowsFinite ==
  ASSUME NEW p \in Posting, NEW tail, NEW start
  PROVE  IsFiniteSet(NewRows(p, tail, start))
  <1> DEFINE I == 1..Len(Lines(p))
             N == NewRows(p, tail, start)
             f == [i \in I |-> RowAt(p, tail, start, i)]
  <1>1. IsFiniteSet(I)
    BY JournalFacts, FS_Interval
  <1>2. N = {RowAt(p, tail, start, i) : i \in I}
    BY NewRowsAre
  <1>3. f \in Surjection(I, N)
    BY <1>2 DEF Surjection
  <1>4. QED
    <2> HIDE DEF f, I, N
    <2>1. IsFiniteSet(N)
      BY <1>1, <1>3, FS_Surjection
    <2>2. QED
      BY <2>1 DEF N

\* The rows of call p, wherever they are kept.
RowsOf(p) == {x \in ledger \cup standalone : Owner(x) = p}

WholeInv ==
  /\ updates \in Nat
  /\ IsFiniteSet(ledger)
  /\ \A p \in Posting : tx[p].step = "commit" =>
       \E tail : \E start \in Nat : tx[p].rows = NewRows(p, tail, start)
  /\ updates = 0 => \A p \in Posting : tx[p].step = "done" =>
       \E tail : \E start \in Nat : RowsOf(p) = NewRows(p, tail, start)

\* The opening journal is in the table as a whole.
LEMMA WholeInit == Init => WholeInv
  <1> SUFFICES ASSUME Init PROVE WholeInv
    OBVIOUS
  <1>1. Opening \in Posting /\ 0 \in Nat
    BY AuditAssumption
  <1>2. /\ ledger = NewRows(Opening, Genesis, 0) /\ standalone = {} /\ updates = 0
        /\ \A p \in Posting : tx[p].step # "commit" /\ (tx[p].step = "done" => p = Opening)
    BY DEF Init, NoTx
  <1>3. IsFiniteSet(ledger)
    BY <1>1, <1>2, NewRowsFinite
  <1>4. \A x \in ledger : Owner(x) = Opening
    BY <1>1, <1>2, NewRowFacts
  <1>5. RowsOf(Opening) = NewRows(Opening, Genesis, 0)
    BY <1>2, <1>4 DEF RowsOf
  <1>6. QED
    BY <1>1, <1>2, <1>3, <1>5 DEF WholeInv

\* A step that commits and changes no row.
LEMMA WholeQuiet ==
  ASSUME WholeInv, updates' = updates, ledger' \cup standalone' = ledger \cup standalone,
         ledger' \subseteq ledger,
         \A p \in Posting : /\ tx'[p].step = "commit" =>
                                 \E tail : \E start \in Nat : tx'[p].rows = NewRows(p, tail, start)
                            /\ tx'[p].step = "done" => tx[p].step = "done"
  PROVE  WholeInv'
  <1>1. IsFiniteSet(ledger')
    BY FS_Subset DEF WholeInv
  <1>2. \A p : RowsOf(p)' = RowsOf(p)
    BY DEF RowsOf
  <1>3. QED
    BY <1>1, <1>2 DEF WholeInv

\* Before the commit the rows of a call are those of its lines.
LEMMA WholePosting ==
  ASSUME RowsInv, WholeInv, NEW p \in Posting, ReadTail(p) \/ InsertEntries(p) \/ Rollback(p)
  PROVE  WholeInv'
  <1>1. now \in Nat /\ tx = [q \in Posting |-> tx[q]]
        /\ \A q \in Posting : DOMAIN tx[q] = {"step", "upto", "lock", "rows"}
    BY DEF RowsInv, Shape
  <1>2. updates' = updates /\ ledger' = ledger /\ standalone' = standalone
    BY DEF ReadTail, InsertEntries, Rollback, ArchiveVars
  <1>3. \A q \in Posting \ {p} : tx'[q] = tx[q]
    BY <1>1 DEF ReadTail, InsertEntries, Rollback
  <1>4. tx'[p].step # "done"
    <2>1. CASE ReadTail(p)
      BY <1>1, <2>1 DEF ReadTail, NoTx
    <2>2. CASE InsertEntries(p)
      BY <1>1, <2>2 DEF InsertEntries
    <2>3. CASE Rollback(p)
      BY <1>1, <2>3 DEF Rollback, NoTx
    <2>4. QED
      BY <2>1, <2>2, <2>3
  <1>5. tx'[p].step = "commit" => \E tail : \E start \in Nat : tx'[p].rows = NewRows(p, tail, start)
    <2>1. CASE InsertEntries(p)
      <3> DEFINE tail == TailHash({x \in Live(ledger) : x.at <= tx[p].upto})
      <3>1. tx' = [tx EXCEPT ![p].step = "commit", ![p].lock = tail,
                             ![p].rows = NewRows(p, tail, now)]
        BY <2>1 DEF InsertEntries
      <3> HIDE DEF tail
      <3>2. tx'[p].rows = NewRows(p, tail, now)
        BY <1>1, <3>1
      <3>3. QED
        BY <1>1, <3>2
    <2>2. CASE ReadTail(p) \/ Rollback(p)
      BY <1>1, <2>2 DEF ReadTail, Rollback, NoTx
    <2>3. QED
      BY <2>1, <2>2
  <1>6. \A q \in Posting :
          /\ tx'[q].step = "commit" => \E tail : \E start \in Nat : tx'[q].rows = NewRows(q, tail, start)
          /\ tx'[q].step = "done" => tx[q].step = "done"
    BY <1>3, <1>4, <1>5 DEF WholeInv
  <1>7. QED
    BY <1>2, <1>6, WholeQuiet

\* A commit makes all rows of a call visible.
LEMMA WholeCommit ==
  ASSUME RowsInv, WholeInv, NEW p \in Posting, Commit(p)
  PROVE  WholeInv'
  <1>1. /\ tx[p].step = "commit" /\ ledger' = ledger \cup tx[p].rows
        /\ standalone' = standalone /\ updates' = updates
    BY DEF Commit, ArchiveVars
  <1>2. tx'[p].step = "done" /\ \A q \in Posting \ {p} : tx'[q] = tx[q]
    BY DEF RowsInv, Shape, Commit, NoTx
  <1>3. PICK tail : \E start \in Nat : tx[p].rows = NewRows(p, tail, start)
    BY <1>1 DEF WholeInv
  <1>4. IsFiniteSet(tx[p].rows)
    BY <1>3, NewRowsFinite
  <1>5. IsFiniteSet(ledger')
    BY <1>1, <1>4, FS_Union DEF WholeInv
  <1>6. \A x \in tx[p].rows : Owner(x) = p
    BY DEF RowsInv, Pending
  <1>7. \A x \in ledger \cup standalone : Owner(x) # p
    BY <1>1 DEF RowsInv, Kept
  <1>8. RowsOf(p)' = tx[p].rows
    BY <1>1, <1>6, <1>7 DEF RowsOf
  <1>9. \A q \in Posting \ {p} : RowsOf(q)' = RowsOf(q)
    BY <1>1, <1>6 DEF RowsOf
  <1>10. \A q \in Posting : tx'[q].step = "commit" =>
           \E t : \E start \in Nat : tx'[q].rows = NewRows(q, t, start)
    BY <1>2 DEF WholeInv
  <1>11. ASSUME updates' = 0, NEW q \in Posting, tx'[q].step = "done"
         PROVE  \E t : \E start \in Nat : RowsOf(q)' = NewRows(q, t, start)
    <2>1. CASE q = p
      BY <1>3, <1>8, <2>1
    <2>2. CASE q # p
      BY <1>1, <1>2, <1>9, <1>11, <2>2 DEF WholeInv
    <2>3. QED
      BY <2>1, <2>2
  <1>12. QED
    BY <1>1, <1>5, <1>10, <1>11 DEF WholeInv

\* An UPDATE is counted, and adds no row.
LEMMA WholeUpdateRow ==
  ASSUME RowsInv, WholeInv, NEW x \in ledger, UpdateRow(x)
  PROVE  WholeInv'
  <1>1. PICK new : ledger' = (ledger \ {x}) \cup {new}
    BY UpdateRowIs
  <1>2. updates' = updates + 1 /\ tx' = tx
    BY DEF UpdateRow, PostingVars
  <1>3. IsFiniteSet(ledger')
    <2>1. IsFiniteSet(ledger \ {x})
      BY FS_Subset DEF WholeInv
    <2>2. QED
      BY <1>1, <2>1, FS_AddElement
  <1>4. updates' \in Nat /\ updates' # 0
    BY <1>2 DEF WholeInv
  <1>5. QED
    BY <1>2, <1>3, <1>4 DEF WholeInv

\* Journals stay whole until a row is updated, whatever step is taken.
LEMMA WholeStep == RowsInv /\ WholeInv /\ [Next]_vars => WholeInv'
  <1> SUFFICES ASSUME RowsInv, WholeInv, [Next]_vars PROVE WholeInv'
    OBVIOUS
  <1>1. ASSUME tx' = tx, updates' = updates, ledger' \cup standalone' = ledger \cup standalone,
               ledger' \subseteq ledger
        PROVE  WholeInv'
    BY <1>1, WholeQuiet DEF WholeInv
  <1>2. ASSUME NEW p \in Posting, ReadTail(p) \/ InsertEntries(p) \/ Rollback(p) \/ Commit(p)
        PROVE  WholeInv'
    BY <1>2, WholePosting, WholeCommit
  <1>3. ASSUME NEW x \in ledger, UpdateRow(x) PROVE WholeInv'
    BY <1>3, WholeUpdateRow
  <1>4. ASSUME NEW d \in Archivable, ArchiveCopy(d) \/ ArchiveDetach(d) PROVE WholeInv'
    BY <1>1, <1>4 DEF ArchiveCopy, ArchiveDetach, PostingVars
  <1>5. ASSUME NEW from \in RangeStart, NEW to \in RangeEnd, VerifyChain(from, to) PROVE WholeInv'
    BY <1>1, <1>5 DEF VerifyChain, PostingVars, ArchiveVars
  <1>6. ASSUME Export PROVE WholeInv'
    BY <1>1, <1>6 DEF Export, PostingVars, ArchiveVars
  <1>7. CASE UNCHANGED vars
    BY <1>1, <1>7 DEF vars
  <1>8. QED
    BY <1>2, <1>3, <1>4, <1>5, <1>6, <1>7 DEF Next

-----------------------------------------------------------------------------
(* The reports.                                                            *)

\* Every set of rows of the table can be summed, account by account.
LEMMA LedgerSummable ==
  ASSUME RowsInv, WholeInv, NEW S, S \subseteq ledger
  PROVE  /\ Summable(S)
         /\ \A x \in S : x.account \in Account /\ x.effective \in Nat /\ x.effective # 0
  <1>1. \A x \in S : IsRow(x)
    BY DEF RowsInv, Kept
  <1>2. Summable(S)
    BY <1>1, FS_Subset DEF WholeInv, Summable, IsRow
  <1>3. ASSUME NEW x \in S PROVE x.account \in Account /\ x.effective \in Nat /\ x.effective # 0
    <2>0. PICK p \in Posting : \E i \in 1..Len(Lines(p)) :
            x.account = Lines(p)[i].account /\ x.effective = Journal[p].effective
      BY <1>1, <1>3 DEF IsRow
    <2>1. PICK i \in 1..Len(Lines(p)) :
            x.account = Lines(p)[i].account /\ x.effective = Journal[p].effective
      BY <2>0
    <2>2. Lines(p)[i] \in LineType /\ Journal[p].effective \in Period
      BY JournalFacts
    <2>3. QED
      BY <2>1, <2>2, AuditAssumption DEF LineType
  <1>4. QED
    BY <1>2, <1>3

\* The arithmetic of a statement: E is the net before the period, O the net of
\* its page, R that of its other pages, n the normal side of the account.
LEMMA StatementArithmetic ==
  ASSUME NEW n \in {1, -1}, NEW E \in Int, NEW O \in Int, NEW R \in Int
  PROVE  /\ n * (E + (O + R)) - (n * E + n * O) = n * R + 0
         /\ n * (0 + (O + R)) - (1 * 0 + 1 * O) = n * R + (n - 1) * O
         /\ 1 * 0 - (1 * 0 + 1 * 0) = n * 0 + (n - 1) * 0
  <1>1. CASE n = 1
    BY <1>1
  <1>2. CASE n = -1
    BY <1>2
  <1>3. QED
    BY <1>1, <1>2

\* Successive account statements connect, except for what is on the pages not
\* shown and for the sign of the first period of a credit-normal account.
THEOREM StatementsDoConnect == Spec => []StatementsConnect
  <1>1. RowsInv /\ WholeInv => StatementsConnect
    <2> SUFFICES ASSUME RowsInv, WholeInv, NEW a \in Account, NEW from \in Period, NEW to \in Period,
                        NEW page \in {1, 2}, from <= to
                 PROVE  LET lines == Of(Posted(ledger, from, to), a)
                            onPage == OnPage(lines, page)
                            isNew == Of(Posted(ledger, 0, from - 1), a) = {}
                        IN  accountStatement(ledger, a, to + 1, to + 1, 1).openingBalance
                              - accountStatement(ledger, a, from, to, page).closingBalance
                            = normalBalanceSign(a) * Net(lines \ onPage)
                              + (IF isNew THEN (normalBalanceSign(a) - 1) * Net(onPage) ELSE 0)
      BY DEF StatementsConnect
    <2> DEFINE E == Of(Posted(ledger, 0, from - 1), a)
               L == Of(Posted(ledger, from, to), a)
               O == OnPage(L, page)
               T == Of(Posted(ledger, 0, (to + 1) - 1), a)
               n == normalBalanceSign(a)
    <2>1. from \in Nat /\ from # 0 /\ to \in Nat
      BY AuditAssumption
    <2>2. \A x \in ledger : x.effective \in Nat
      BY LedgerSummable
    <2>3. L \subseteq T /\ T \ L = E /\ T \subseteq ledger
      BY <2>1, <2>2 DEF Of, Posted
    <2>4. O \subseteq L
      BY DEF OnPage
    <2>5. Summable(T) /\ Summable(L) /\ Summable(E) /\ Summable(O) /\ Summable(L \ O)
      <3> HIDE DEF T, L, E, O
      <3>1. Summable(T)
        BY <2>3, LedgerSummable
      <3>2. L \subseteq T /\ E \subseteq T /\ O \subseteq T /\ L \ O \subseteq T
        BY <2>3, <2>4
      <3>3. QED
        BY <3>1, <3>2, SummablePart
    <2>6. Net(T) = Net(E) + (Net(O) + Net(L \ O))
          /\ Net(E) \in Int /\ Net(O) \in Int /\ Net(L \ O) \in Int
      <3> HIDE DEF T, L, E, O
      <3>1. Net(E) \in Int /\ Net(O) \in Int /\ Net(L \ O) \in Int
        BY <2>5, NetInt
      <3>2. Net(T) = Net(L) + Net(E)
        BY <2>3, <2>5, NetSplit
      <3>3. Net(L) = Net(O) + Net(L \ O)
        BY <2>4, <2>5, NetSplit
      <3>4. QED
        BY <3>1, <3>2, <3>3
    <2>7. n \in {1, -1}
      BY DEF normalBalanceSign
    <2>8. accountStatement(ledger, a, to + 1, to + 1, 1).openingBalance
            = (IF T = {} THEN 1 ELSE n) * Net(T)
      BY DEF accountStatement
    <2>9. accountStatement(ledger, a, from, to, page).closingBalance
            = (IF E = {} THEN 1 ELSE n) * Net(E) + (IF E = {} THEN 1 ELSE n) * Net(O)
      BY DEF accountStatement
    <2> HIDE DEF T, L, E, O, n
    <2>10. (IF T = {} THEN 1 ELSE n) * Net(T)
             - ((IF E = {} THEN 1 ELSE n) * Net(E) + (IF E = {} THEN 1 ELSE n) * Net(O))
           = n * Net(L \ O) + (IF E = {} THEN (n - 1) * Net(O) ELSE 0)
      <3>1. CASE E # {}
        <4>1. T # {}
          BY <2>3, <3>1
        <4>2. n * (Net(E) + (Net(O) + Net(L \ O))) - (n * Net(E) + n * Net(O)) = n * Net(L \ O) + 0
          BY <2>6, <2>7, StatementArithmetic
        <4>3. QED
          BY <2>6, <3>1, <4>1, <4>2
      <3>2. CASE E = {} /\ T # {}
        <4>1. Net(E) = 0
          BY <3>2, NetEmpty
        <4>2. n * (0 + (Net(O) + Net(L \ O))) - (1 * 0 + 1 * Net(O)) = n * Net(L \ O) + (n - 1) * Net(O)
          BY <2>6, <2>7, StatementArithmetic
        <4>3. QED
          BY <2>6, <3>2, <4>1, <4>2
      <3>3. CASE E = {} /\ T = {}
        <4>1. O = {} /\ L \ O = {}
          BY <2>3, <2>4, <3>3
        <4>2. Net(T) = 0 /\ Net(E) = 0 /\ Net(O) = 0 /\ Net(L \ O) = 0
          BY <3>3, <4>1, NetEmpty
        <4>3. 1 * 0 - (1 * 0 + 1 * 0) = n * 0 + (n - 1) * 0
          BY <2>6, <2>7, StatementArithmetic
        <4>4. QED
          BY <3>3, <4>2, <4>3
      <3>4. QED
        BY <3>1, <3>2, <3>3
    <2>11. QED
      BY <2>8, <2>9, <2>10 DEF L, E, O, n
  <1>2. QED
    BY RowsInit, RowsStep, WholeInit, WholeStep, <1>1, PTL DEF Spec

\* The rows of a journal net to nothing, as postJournalEntry() made sure.
LEMMA JournalNetsToZero ==
  ASSUME NEW p \in Posting, NEW tail, NEW start \in Nat
  PROVE  Net(NewRows(p, tail, start)) = 0
  <1> DEFINE I == 1..Len(Lines(p))
             N == NewRows(p, tail, start)
             w == [x \in N |-> x.amount]
             v == [i \in DOMAIN Lines(p) |-> Lines(p)[i].amount]
             h == [i \in I |-> RowAt(p, tail, start, i)]
             On(e) == {i \in DOMAIN Lines(p) : Lines(p)[i].entryType = e}
  <1>1. IsFiniteSet(I) /\ DOMAIN Lines(p) = I
    BY JournalFacts, FS_Interval
  <1>2. N = {RowAt(p, tail, start, i) : i \in I}
    BY NewRowsAre
  <1>3. \A i \in I : /\ h[i] \in N /\ h[i].id = <<p, i>>
                     /\ h[i].amount = Lines(p)[i].amount /\ h[i].entryType = Lines(p)[i].entryType
    BY <1>2 DEF RowAt
  <1>4. \A i, j \in I : h[i] = h[j] => i = j
    <2> SUFFICES ASSUME NEW i \in I, NEW j \in I, h[i] = h[j] PROVE i = j
      OBVIOUS
    <2>1. <<p, i>> = <<p, j>>
      BY <1>3
    <2>2. QED
      BY <2>1
  <1>5. \A i \in I : v[i] \in Int /\ w[h[i]] = v[i]
    BY <1>1, <1>3, JournalFacts DEF LineType
  <1>6. N = {h[i] : i \in I}
    BY <1>2
  <1> HIDE DEF w, v, h
  <1>7. ASSUME NEW e PROVE Total(N, e) = SumFunctionOnSet(v, On(e))
    <2> DEFINE D == On(e)
    <2>1. D \subseteq I /\ IsFiniteSet(D)
      BY <1>1, FS_Subset
    <2>2. {x \in N : x.entryType = e} = {h[i] : i \in D}
      BY <1>1, <1>3, <1>6
    <2>3. \A i, j \in D : h[i] = h[j] => i = j
      BY <1>4, <2>1
    <2>4. \A i \in D : v[i] \in Int /\ w[h[i]] = v[i]
      BY <1>5, <2>1
    <2>5. Total(N, e) = SumFunctionOnSet(w, {x \in N : x.entryType = e})
      BY DEF Total, w
    <2> HIDE DEF D
    <2>6. SumFunctionOnSet(w, {h[i] : i \in D}) = SumFunctionOnSet(v, D)
      <3>1. IsFiniteSet(D)
        BY <2>1
      <3>2. QED
        BY ONLY <2>3, <2>4, <3>1, SumImage
    <2>7. QED
      BY <2>2, <2>5, <2>6 DEF D
  <1>8. SumFunctionOnSet(v, On("DEBIT")) = SumFunctionOnSet(v, On("CREDIT"))
    BY AuditAssumption DEF v
  <1>9. Summable(N)
    BY NewRowsFinite, NewRowFacts DEF Summable, IsRow
  <1>10. Total(N, "DEBIT") \in Nat /\ Total(N, "DEBIT") = Total(N, "CREDIT")
    <2>1. Total(N, "DEBIT") \in Nat
      BY <1>9, TotalNat
    <2>2. QED
      BY <1>7, <1>8, <2>1
  <1>11. QED
    BY <1>10 DEF Net

\* Before any maintenance, whole journals net to nothing together.
LEMMA WholeNet ==
  ASSUME RowsInv, WholeInv, updates = 0,
         NEW S \in SUBSET ledger, \A x \in S : RowsOf(Owner(x)) \subseteq S
  PROVE  Net(S) = 0
  <1> DEFINE Closed(U) == \A x \in U : RowsOf(Owner(x)) \subseteq U
             Bad == {U \in SUBSET ledger : Closed(U) /\ Net(U) # 0}
  <1>1. ASSUME Bad # {} PROVE FALSE
    <2>1. PICK U \in Bad : \A V \in Bad : V \subseteq U => V = U
      <3>1. Bad \subseteq SUBSET ledger /\ IsFiniteSet(ledger)
        BY DEF WholeInv
      <3>2. QED
        <4> HIDE DEF Bad
        <4> QED BY <1>1, <3>1, SubsetMin
    <2>2. U \subseteq ledger /\ Closed(U) /\ Net(U) # 0
      OBVIOUS
    <2>3. U # {}
      BY <2>2, NetEmpty
    <2>4. PICK x \in U : TRUE
      BY <2>3
    <2> DEFINE p == Owner(x)
               G == RowsOf(p)
    <2>5. p \in Posting /\ tx[p].step = "done"
      BY <2>2, RowFacts DEF RowsInv, Kept
    <2>6. G \subseteq U /\ x \in G
      BY <2>2, <2>4 DEF RowsOf
    <2>7. PICK tail : \E start \in Nat : G = NewRows(p, tail, start)
      BY <2>5 DEF WholeInv
    <2>8. Net(G) = 0
      BY <2>5, <2>7, JournalNetsToZero
    <2>9. Closed(U \ G)
      <3> SUFFICES ASSUME NEW y \in U \ G, NEW z \in RowsOf(Owner(y)) PROVE z \in U \ G
        OBVIOUS
      <3>1. z \in U
        BY <2>2
      <3>2. Owner(y) # p
        BY <2>2 DEF RowsOf
      <3>3. Owner(z) = Owner(y)
        BY DEF RowsOf
      <3>4. z \notin G
        BY <3>2, <3>3 DEF RowsOf
      <3>5. QED
        BY <3>1, <3>4
    <2>10. Net(U \ G) = 0
      <3> HIDE DEF Closed, G
      <3> QED BY <2>1, <2>2, <2>6, <2>9
    <2>11. Summable(U)
      BY <2>2, LedgerSummable
    <2>12. Net(U) = Net(G) + Net(U \ G)
      <3> HIDE DEF G
      <3> QED BY <2>6, <2>11, NetSplit
    <2>13. QED
      BY <2>2, <2>8, <2>10, <2>12
  <1>2. QED
    BY <1>1

\* A dated query finds whole journals, before any maintenance.
LEMMA FoundIsWhole ==
  ASSUME RowsInv, WholeInv, updates = 0, NEW from, NEW to,
         NEW x \in Posted(ledger, from, to)
  PROVE  RowsOf(Owner(x)) \subseteq Posted(ledger, from, to)
  <1> SUFFICES ASSUME NEW y \in RowsOf(Owner(x)) PROVE y \in Posted(ledger, from, to)
    OBVIOUS
  <1>1. x \in ledger /\ from <= x.effective /\ x.effective <= to
    BY DEF Posted
  <1>2. IsRow(x) /\ tx[Owner(x)].step = "done" /\ x.effective \notin Detached
    BY <1>1 DEF RowsInv, Kept
  <1>3. Owner(x) \in Posting /\ x.effective = Journal[Owner(x)].effective
    BY <1>2, RowFacts
  <1>4. y \in ledger \cup standalone /\ Owner(y) = Owner(x)
    BY DEF RowsOf
  <1>5. IsRow(y)
    BY <1>4 DEF RowsInv, Kept
  <1>6. y.effective = x.effective
    BY <1>3, <1>4, <1>5, RowFacts
  <1>7. y \in ledger
    BY <1>2, <1>4, <1>6 DEF RowsInv, Kept
  <1>8. PICK tail : \E start \in Nat : RowsOf(Owner(x)) = NewRows(Owner(x), tail, start)
    BY <1>2, <1>3 DEF WholeInv
  <1>9. y.status = "POSTED"
    BY <1>3, <1>8, NewRowFacts
  <1>10. QED
    BY <1>1, <1>6, <1>7, <1>9 DEF Posted

\* The rows a report finds, and their net by account.
LEMMA AccountNets ==
  ASSUME NEW S, Summable(S), NEW a
  PROVE  /\ Total(Of(S, a), "DEBIT") \in Nat /\ Total(Of(S, a), "CREDIT") \in Nat
         /\ Net(Of(S, a)) = Total(Of(S, a), "DEBIT") - Total(Of(S, a), "CREDIT")
         /\ Net(Of(S, a)) \in Int
  <1>1. Summable(Of(S, a))
    BY SummablePart DEF Of
  <1>2. Total(Of(S, a), "DEBIT") \in Nat /\ Total(Of(S, a), "CREDIT") \in Nat
    BY <1>1, TotalNat
  <1>3. QED
    BY <1>2 DEF Net

\* The trial balance is the net of all rows found, and so is the check's.
LEMMA TrialIsNet ==
  ASSUME RowsInv, WholeInv, NEW asOf
  PROVE  LET found == Posted(ledger, 0, asOf)
         IN  /\ trialBalance(ledger, asOf).discrepancy = Net(found)
             /\ trialBalanceCheck(ledger, asOf) = Net(found)
             /\ SumFunctionOnSet([a \in Account |-> Net(Of(found, a))], Account) = Net(found)
             /\ Net(found) \in Int
  <1> DEFINE S == Posted(ledger, 0, asOf)
             D == [a \in Account |-> Total(Of(S, a), "DEBIT")]
             C == [a \in Account |-> Total(Of(S, a), "CREDIT")]
             M == [a \in Account |-> -Total(Of(S, a), "CREDIT")]
             N == [a \in Account |-> Net(Of(S, a))]
             active == {a \in Account : Total(Of(S, a), "DEBIT") + Total(Of(S, a), "CREDIT") > 0}
  <1>1. S \subseteq ledger
    BY DEF Posted
  <1>2. Summable(S) /\ \A x \in S : x.account \in Account
    <2> HIDE DEF S
    <2> QED BY <1>1, LedgerSummable
  <1> HIDE DEF S
  <1>3. \A a \in Account : /\ D[a] \in Nat /\ C[a] \in Nat /\ M[a] = -C[a]
                           /\ N[a] = D[a] - C[a] /\ N[a] \in Int
    BY <1>2, AccountNets
  <1>4. SumFunctionOnSet(D, Account) = Total(S, "DEBIT")
    BY <1>2, TotalByAccount
  <1>5. SumFunctionOnSet(C, Account) = Total(S, "CREDIT")
    BY <1>2, TotalByAccount
  <1>6. trialBalance(ledger, asOf).discrepancy = SumFunctionOnSet(D, Account) - SumFunctionOnSet(C, Account)
    BY DEF trialBalance, SumFunction, S
  <1>7. trialBalanceCheck(ledger, asOf) = SumFunctionOnSet(N, active)
    BY DEF trialBalanceCheck, S
  <1>8. \A a \in Account \ active : N[a] = 0
    <2> SUFFICES ASSUME NEW a \in Account, ~(D[a] + C[a] > 0) PROVE N[a] = 0
      OBVIOUS
    <2> HIDE DEF D, C, N
    <2> QED BY <1>3
  <1>9. active \subseteq Account
    OBVIOUS
  <1>10. IsFiniteSet(Account)
    BY ReportAssumption
  <1> HIDE DEF D, C, M, N, active
  <1>11. SumFunctionOnSet(M, Account) = -SumFunctionOnSet(C, Account)
    <2>1. \A a \in Account : C[a] \in Int /\ M[a] = -C[a]
      BY <1>3
    <2>2. QED
      BY <1>10, <2>1, SumNegate
  <1>12. SumFunctionOnSet(N, Account) = SumFunctionOnSet(D, Account) + SumFunctionOnSet(M, Account)
    <2>1. \A a \in Account : D[a] \in Int /\ M[a] \in Int /\ N[a] = D[a] + M[a]
      BY <1>3
    <2>2. QED
      BY <1>10, <2>1, SumPlus
  <1>13. SumFunctionOnSet(N, Account) = SumFunctionOnSet(N, active)
    <2>1. SumFunctionOnSet(N, Account) = SumFunctionOnSet(N, active) + SumFunctionOnSet(N, Account \ active)
      BY <1>3, <1>9, <1>10, SumSplit
    <2>2. IsFiniteSet(Account \ active) /\ IsFiniteSet(active)
      BY <1>9, <1>10, FS_Subset
    <2>3. SumFunctionOnSet(N, Account \ active) = 0
      BY <1>8, <2>2, SumZero
    <2>4. SumFunctionOnSet(N, active) \in Int
      BY <1>3, <1>9, <2>2, SumType
    <2>5. QED
      BY <2>1, <2>3, <2>4
  <1>14. Total(S, "DEBIT") \in Nat /\ Total(S, "CREDIT") \in Nat
    BY <1>2, TotalNat
  <1>15. Net(S) = Total(S, "DEBIT") - Total(S, "CREDIT")
    BY DEF Net
  <1>16. /\ trialBalance(ledger, asOf).discrepancy = Net(S)
         /\ trialBalanceCheck(ledger, asOf) = Net(S)
         /\ SumFunctionOnSet(N, Account) = Net(S)
         /\ Net(S) \in Int
    BY <1>4, <1>5, <1>6, <1>7, <1>11, <1>12, <1>13, <1>14, <1>15
  <1>17. QED
    BY <1>16 DEF S, N

\* The seven account types divide the accounts.
LEMMA SumByType ==
  ASSUME NEW w, \A a \in Account : w[a] \in Int
  PROVE  LET Sum(types) == SumFunctionOnSet(w, OfType(types))
         IN  /\ SumFunctionOnSet(w, Account) =
                  Sum({"ASSET", "CONTRA_ASSET"}) + Sum({"LIABILITY"}) + Sum({"EQUITY"})
                  + Sum({"REVENUE"}) + Sum({"EXPENSE", "CONTRA_REVENUE"})
             /\ Sum({"ASSET", "CONTRA_ASSET"}) = Sum({"ASSET"}) + Sum({"CONTRA_ASSET"})
  <1> DEFINE A == OfType({"ASSET"})
             B == OfType({"CONTRA_ASSET"})
             AB == OfType({"ASSET", "CONTRA_ASSET"})
             L == OfType({"LIABILITY"})
             E == OfType({"EQUITY"})
             R == OfType({"REVENUE"})
             X == OfType({"EXPENSE", "CONTRA_REVENUE"})
  <1>1. /\ AB = A \cup B /\ A \cap B = {}
        /\ Account = (((AB \cup L) \cup E) \cup R) \cup X
        /\ AB \cap L = {} /\ (AB \cup L) \cap E = {} /\ ((AB \cup L) \cup E) \cap R = {}
        /\ (((AB \cup L) \cup E) \cup R) \cap X = {}
        /\ A \subseteq Account /\ B \subseteq Account
    BY ReportAssumption DEF OfType, DebitNormal, CreditNormal
  <1>2. IsFiniteSet(Account)
    BY ReportAssumption
  <1> HIDE DEF A, B, AB, L, E, R, X
  <1>3. /\ IsFiniteSet(A) /\ IsFiniteSet(B) /\ IsFiniteSet(AB) /\ IsFiniteSet(L) /\ IsFiniteSet(E)
        /\ IsFiniteSet(R) /\ IsFiniteSet(X)
    BY <1>1, <1>2, FS_Subset
  <1>4. IsFiniteSet(AB \cup L) /\ IsFiniteSet((AB \cup L) \cup E)
        /\ IsFiniteSet(((AB \cup L) \cup E) \cup R)
    BY <1>3, FS_Union
  <1>5. SumFunctionOnSet(w, AB) = SumFunctionOnSet(w, A) + SumFunctionOnSet(w, B)
    BY <1>1, <1>3, SumUnion
  <1>6. SumFunctionOnSet(w, AB \cup L) = SumFunctionOnSet(w, AB) + SumFunctionOnSet(w, L)
    BY <1>1, <1>3, SumUnion
  <1>7. SumFunctionOnSet(w, (AB \cup L) \cup E) = SumFunctionOnSet(w, AB \cup L) + SumFunctionOnSet(w, E)
    BY <1>1, <1>3, <1>4, SumUnion
  <1>8. SumFunctionOnSet(w, ((AB \cup L) \cup E) \cup R)
          = SumFunctionOnSet(w, (AB \cup L) \cup E) + SumFunctionOnSet(w, R)
    BY <1>1, <1>3, <1>4, SumUnion
  <1>9. SumFunctionOnSet(w, Account)
          = SumFunctionOnSet(w, ((AB \cup L) \cup E) \cup R) + SumFunctionOnSet(w, X)
    BY <1>1, <1>3, <1>4, SumUnion
  <1>10. QED
    BY <1>5, <1>6, <1>7, <1>8, <1>9 DEF A, B, AB, L, E, R, X

\* What the balance sheet and the income statement sum, in terms of the nets N
\* of the accounts.
LEMMA SheetAndIncome ==
  ASSUME NEW N, \A a \in Account : N[a] \in Int,
         NEW bal, \A a \in Account : bal[a] = normalBalanceSign(a) * N[a],
         NEW neg, \A a \in Account : neg[a] = -N[a],
         NEW abs, \A a \in Account : abs[a] = AbsInt(N[a]),
         NEW exc, \A a \in Account : exc[a] = IF neg[a] > 0 THEN neg[a] ELSE 0
  PROVE  LET Sum(w, types) == SumFunctionOnSet(w, OfType(types))
         IN  Sum(bal, {"ASSET", "CONTRA_ASSET"}) - (Sum(bal, {"LIABILITY"}) + Sum(bal, {"EQUITY"}))
             = SumFunctionOnSet(N, Account)
               + (Sum(neg, {"REVENUE"}) - Sum(abs, {"EXPENSE", "CONTRA_REVENUE"}))
               + 2 * Sum(neg, {"CONTRA_ASSET"})
               + 2 * Sum(exc, {"EXPENSE", "CONTRA_REVENUE"})
  <1> DEFINE A == OfType({"ASSET"})
             B == OfType({"CONTRA_ASSET"})
             AB == OfType({"ASSET", "CONTRA_ASSET"})
             L == OfType({"LIABILITY"})
             E == OfType({"EQUITY"})
             R == OfType({"REVENUE"})
             X == OfType({"EXPENSE", "CONTRA_REVENUE"})
             two == [a \in Account |-> exc[a] * 2]
  <1>0. \A T \in {A, B, L, E, R, X} : T \subseteq Account /\ IsFiniteSet(T)
    <2>1. IsFiniteSet(Account)
      BY ReportAssumption
    <2>2. \A types : OfType(types) \subseteq Account
      BY DEF OfType
    <2>3. QED
      BY <2>1, <2>2, FS_Subset
  <1>1. /\ \A a \in A : normalBalanceSign(a) = 1
        /\ \A a \in B \cup L \cup E : normalBalanceSign(a) = -1
    BY DEF normalBalanceSign, OfType, DebitNormal
  <1>2. \A a \in Account : /\ neg[a] \in Int /\ abs[a] \in Int /\ exc[a] \in Int
                           /\ two[a] = exc[a] * 2 /\ two[a] \in Int /\ abs[a] = N[a] + two[a]
    BY DEF AbsInt
  <1>3. SumFunctionOnSet(N, Account) =
          SumFunctionOnSet(N, AB) + SumFunctionOnSet(N, L) + SumFunctionOnSet(N, E)
          + SumFunctionOnSet(N, R) + SumFunctionOnSet(N, X)
        /\ SumFunctionOnSet(N, AB) = SumFunctionOnSet(N, A) + SumFunctionOnSet(N, B)
    BY SumByType
  <1>4. \A a \in Account : bal[a] \in Int
    BY DEF normalBalanceSign
  <1>5. SumFunctionOnSet(bal, AB) = SumFunctionOnSet(bal, A) + SumFunctionOnSet(bal, B)
    BY <1>4, SumByType
  <1> HIDE DEF A, B, AB, L, E, R, X, two
  <1>6. SumFunctionOnSet(bal, A) = SumFunctionOnSet(N, A)
    <2>1. \A a \in A : bal[a] = N[a]
      BY <1>0, <1>1
    <2>2. QED
      BY <1>0, <2>1, SumEqual
  <1>7. ASSUME NEW T \in {B, L, E} PROVE SumFunctionOnSet(bal, T) = -SumFunctionOnSet(N, T)
    <2>1. \A a \in T : N[a] \in Int /\ bal[a] = -N[a]
      BY <1>0, <1>1
    <2>2. QED
      BY <1>0, <2>1, SumNegate
  <1>8. ASSUME NEW T \in {B, R} PROVE SumFunctionOnSet(neg, T) = -SumFunctionOnSet(N, T)
    <2>1. \A a \in T : N[a] \in Int /\ neg[a] = -N[a]
      BY <1>0
    <2>2. QED
      BY <1>0, <2>1, SumNegate
  <1>9. SumFunctionOnSet(abs, X) = SumFunctionOnSet(N, X) + SumFunctionOnSet(two, X)
    <2>1. \A a \in X : N[a] \in Int /\ two[a] \in Int /\ abs[a] = N[a] + two[a]
      BY <1>0, <1>2
    <2>2. QED
      BY <1>0, <2>1, SumPlus
  <1>10. SumFunctionOnSet(two, X) = SumFunctionOnSet(exc, X) * 2
    <2>1. \A a \in X : exc[a] \in Int /\ two[a] = exc[a] * 2
      BY <1>0, <1>2
    <2>2. QED
      BY <1>0, <2>1, SumScale
  <1>11. /\ SumFunctionOnSet(N, A) \in Int /\ SumFunctionOnSet(N, B) \in Int
         /\ SumFunctionOnSet(N, L) \in Int /\ SumFunctionOnSet(N, E) \in Int
         /\ SumFunctionOnSet(N, R) \in Int /\ SumFunctionOnSet(N, X) \in Int
         /\ SumFunctionOnSet(exc, X) \in Int
    <2>1. \A T \in {A, B, L, E, R, X} : \A a \in T : N[a] \in Int /\ exc[a] \in Int
      BY <1>0, <1>2
    <2>2. QED
      BY <1>0, <2>1, SumType
  <1>12. SumFunctionOnSet(bal, AB) - (SumFunctionOnSet(bal, L) + SumFunctionOnSet(bal, E))
         = SumFunctionOnSet(N, Account)
           + (SumFunctionOnSet(neg, R) - SumFunctionOnSet(abs, X))
           + 2 * SumFunctionOnSet(neg, B) + 2 * SumFunctionOnSet(exc, X)
    BY <1>3, <1>5, <1>6, <1>7, <1>8, <1>9, <1>10, <1>11
  <1>13. QED
    BY <1>12 DEF AB, L, E, R, X, B

\* Trial balance, its script, balance sheet and income statement agree at any
\* date, and the trial balance is even until maintenance changes a row.
THEOREM ReportsAlwaysTie == Spec => []ReportsTie
  <1>1. RowsInv /\ WholeInv => ReportsTie
    <2> SUFFICES ASSUME RowsInv, WholeInv, NEW asOf \in Period
                 PROVE  LET found == Posted(ledger, 0, asOf)
                            CreditNet == [a \in Account |-> -Net(Of(found, a))]
                            CreditExcess == [a \in Account |-> IF CreditNet[a] > 0 THEN CreditNet[a] ELSE 0]
                            trial == trialBalance(ledger, asOf).discrepancy
                        IN  /\ updates = 0 => trial = 0
                            /\ trialBalanceCheck(ledger, asOf) = trial
                            /\ Discrepancy(balanceSheet(ledger, asOf)) =
                                 trial + incomeStatement(ledger, 0, asOf).netIncome
                                 + 2 * SumFunctionOnSet(CreditNet, OfType({"CONTRA_ASSET"}))
                                 + 2 * SumFunctionOnSet(CreditExcess, OfType({"EXPENSE", "CONTRA_REVENUE"}))
      BY DEF ReportsTie
    <2> DEFINE S == Posted(ledger, 0, asOf)
               N == [a \in Account |-> Net(Of(S, a))]
               bal == [a \in Account |-> normalBalanceSign(a) * Net(Of(S, a))]
               neg == [a \in Account |-> -Net(Of(S, a))]
               abs == [a \in Account |-> AbsInt(Net(Of(S, a)))]
               exc == [a \in Account |-> IF neg[a] > 0 THEN neg[a] ELSE 0]
               Sum(w, types) == SumFunctionOnSet(w, OfType(types))
    <2>1. /\ trialBalance(ledger, asOf).discrepancy = Net(S)
          /\ trialBalanceCheck(ledger, asOf) = Net(S)
          /\ SumFunctionOnSet(N, Account) = Net(S)
          /\ Net(S) \in Int
      BY TrialIsNet
    <2>2. S \subseteq ledger
      BY DEF Posted
    <2>3. ASSUME updates = 0 PROVE Net(S) = 0
      <3>1. \A x \in S : RowsOf(Owner(x)) \subseteq S
        BY <2>3, FoundIsWhole
      <3>2. QED
        <4> HIDE DEF S
        <4> QED BY <2>2, <2>3, <3>1, WholeNet
    <2>4. Discrepancy(balanceSheet(ledger, asOf)) =
            Sum(bal, {"ASSET", "CONTRA_ASSET"}) - (Sum(bal, {"LIABILITY"}) + Sum(bal, {"EQUITY"}))
      BY DEF Discrepancy, balanceSheet
    <2>5. incomeStatement(ledger, 0, asOf).netIncome =
            Sum(neg, {"REVENUE"}) - Sum(abs, {"EXPENSE", "CONTRA_REVENUE"})
      BY DEF incomeStatement
    <2>6. \A a \in Account : N[a] \in Int
      <3>1. Summable(S)
        <4> HIDE DEF S
        <4> QED BY <2>2, LedgerSummable
      <3>2. QED
        BY <3>1, AccountNets
    <2> HIDE DEF S
    <2>7. /\ \A a \in Account : bal[a] = normalBalanceSign(a) * N[a]
          /\ \A a \in Account : neg[a] = -N[a]
          /\ \A a \in Account : abs[a] = AbsInt(N[a])
          /\ \A a \in Account : exc[a] = IF neg[a] > 0 THEN neg[a] ELSE 0
      OBVIOUS
    <2> HIDE DEF N, bal, neg, abs, exc
    <2>8. Sum(bal, {"ASSET", "CONTRA_ASSET"}) - (Sum(bal, {"LIABILITY"}) + Sum(bal, {"EQUITY"}))
          = SumFunctionOnSet(N, Account)
            + (Sum(neg, {"REVENUE"}) - Sum(abs, {"EXPENSE", "CONTRA_REVENUE"}))
            + 2 * Sum(neg, {"CONTRA_ASSET"}) + 2 * Sum(exc, {"EXPENSE", "CONTRA_REVENUE"})
      BY <2>6, <2>7, SheetAndIncome
    <2>9. QED
      BY <2>1, <2>3, <2>4, <2>5, <2>8 DEF S, neg, exc
  <1>2. QED
    BY RowsInit, RowsStep, WholeInit, WholeStep, <1>1, PTL DEF Spec

-----------------------------------------------------------------------------
(* Reconciliation.                                                         *)

\* A journal has rows, and they carry its amounts.
LEMMA JournalAmounts ==
  ASSUME NEW p \in Posting, NEW tail, NEW start \in Nat
  PROVE  LET amounts == {Lines(p)[i].amount : i \in DOMAIN Lines(p)}
         IN  /\ NewRows(p, tail, start) # {}
             /\ {x.amount : x \in NewRows(p, tail, start)} = amounts
             /\ Max(amounts) \in Int
  <1> DEFINE I == 1..Len(Lines(p))
             M == {Lines(p)[i].amount : i \in I}
             f == [i \in I |-> Lines(p)[i].amount]
  <1>1. Len(Lines(p)) \in Nat /\ Len(Lines(p)) # 0 /\ DOMAIN Lines(p) = I
    <2>1. Lines(p) # << >> /\ Lines(p) \in Seq(LineType)
      BY AuditAssumption DEF Lines, JournalType
    <2>2. QED
      BY <2>1, JournalFacts
  <1>2. NewRows(p, tail, start) = {RowAt(p, tail, start, i) : i \in I}
    BY NewRowsAre
  <1>3. \A i \in I : RowAt(p, tail, start, i).amount = Lines(p)[i].amount
    BY DEF RowAt
  <1>4. 1 \in I
    BY <1>1
  <1>5. {x.amount : x \in NewRows(p, tail, start)} = M /\ NewRows(p, tail, start) # {}
    BY <1>2, <1>3, <1>4
  <1>6. M # {} /\ M \subseteq Int
    BY <1>4, JournalFacts DEF LineType
  <1>7. IsFiniteSet(M)
    <2>1. IsFiniteSet(I)
      BY <1>1, FS_Interval
    <2>2. f \in Surjection(I, M)
      BY DEF Surjection
    <2>3. QED
      <3> HIDE DEF f, I, M
      <3> QED BY <2>1, <2>2, FS_Surjection
  <1>8. Max(M) \in Int
    <2> HIDE DEF M
    <2>1. PICK m \in M : \A k \in M : k <= m
      BY <1>6, <1>7, FiniteMax
    <2>2. \E m1 \in M : \A k \in M : m1 >= k
      BY <1>6, <2>1
    <2>3. Max(M) \in M
      BY <2>2 DEF Max
    <2>4. QED
      BY <1>6, <2>3
  <1>9. QED
    BY <1>1, <1>5, <1>8

\* The calls whose journals are in the books for a period.
DoneIn(from, to) ==
  {p \in Posting : /\ tx[p].step = "done"
                   /\ from <= Journal[p].effective /\ Journal[p].effective <= to}

\* Before any maintenance, the rows of such a call are all found by a query of
\* the period, or all detached.
LEMMA DoneRows ==
  ASSUME RowsInv, WholeInv, updates = 0, NEW from, NEW to, NEW p \in DoneIn(from, to)
  PROVE  LET amounts == {Lines(p)[i].amount : i \in DOMAIN Lines(p)}
         IN  /\ RowsOf(p) # {}
             /\ {x.amount : x \in RowsOf(p)} = amounts
             /\ Max(amounts) \in Int
             /\ Journal[p].effective \notin Detached => RowsOf(p) \subseteq Posted(ledger, from, to)
             /\ Journal[p].effective \in Detached => RowsOf(p) \subseteq standalone
  <1>1. p \in Posting /\ tx[p].step = "done" /\ from <= Journal[p].effective /\ Journal[p].effective <= to
    BY DEF DoneIn
  <1>2. PICK tail : \E start \in Nat : RowsOf(p) = NewRows(p, tail, start)
    BY <1>1 DEF WholeInv
  <1>3. PICK start \in Nat : RowsOf(p) = NewRows(p, tail, start)
    BY <1>2
  <1>4. LET amounts == {Lines(p)[i].amount : i \in DOMAIN Lines(p)}
        IN  /\ RowsOf(p) # {}
            /\ {x.amount : x \in RowsOf(p)} = amounts
            /\ Max(amounts) \in Int
    BY <1>1, <1>3, JournalAmounts
  <1>5. \A x \in RowsOf(p) : x.effective = Journal[p].effective /\ x.status = "POSTED"
    <2> SUFFICES ASSUME NEW x \in RowsOf(p)
                 PROVE  x.effective = Journal[p].effective /\ x.status = "POSTED"
      OBVIOUS
    <2>1. IsRow(x) /\ Owner(x) = p /\ x.status = "POSTED"
      BY <1>1, <1>3, NewRowFacts
    <2>2. QED
      BY <2>1, RowFacts
  <1>6. \A x \in RowsOf(p) : /\ x \in ledger \cup standalone
                             /\ x \in ledger => Journal[p].effective \notin Detached
                             /\ x \in standalone => Journal[p].effective \in Detached
    BY <1>5 DEF RowsOf, RowsInv, Kept
  <1>7. QED
    BY <1>1, <1>4, <1>5, <1>6 DEF Posted

\* Who a row found or detached belongs to.
LEMMA RowOwner ==
  ASSUME RowsInv, NEW x \in ledger \cup standalone
  PROVE  /\ Owner(x) \in Posting /\ tx[Owner(x)].step = "done" /\ x \in RowsOf(Owner(x))
         /\ x.ref = Journal[Owner(x)].ref /\ x.effective = Journal[Owner(x)].effective
  <1>1. IsRow(x) /\ tx[Owner(x)].step = "done"
    BY DEF RowsInv, Kept
  <1>2. x.ref = Journal[Owner(x)].ref
    BY <1>1 DEF IsRow, Owner
  <1>3. QED
    BY <1>1, <1>2, RowFacts DEF RowsOf

\* A statement that lists what was posted for the period reconciles, but for
\* the journals that were archived.
THEOREM OwnStatementsReconcile == Spec => []OwnStatementReconciles
  <1>1. RowsInv /\ WholeInv => OwnStatementReconciles
    <2> SUFFICES ASSUME RowsInv, WholeInv, updates = 0, NEW from \in Period, NEW to \in Period
                 PROVE  LET external == OwnStatement(from, to)
                            report == reconcile(ledger, from, to, external)
                            archived == {x.ref : x \in standalone} \cap DOMAIN external
                        IN  /\ report.missingInLedger = archived
                            /\ report.matched = DOMAIN external \ archived
                            /\ isFullyReconciled(report) <=> archived = {}
                            /\ isFullyReconciled(report) => report.totalDiscrepancy = 0
      BY DEF OwnStatementReconciles
    <2> DEFINE done == DoneIn(from, to)
               F == Posted(ledger, from, to)
               ext == OwnStatement(from, to)
               lm == ledgerMap(F)
               Amounts(p) == {Lines(p)[i].amount : i \in DOMAIN Lines(p)}
               Of1(ref) == CHOOSE p \in done : Journal[p].ref = ref
               archived == {x.ref : x \in standalone} \cap DOMAIN ext
               both == DOMAIN lm \cap DOMAIN ext
               matched == {ref \in both : AbsInt(lm[ref] - ext[ref]) <= Tolerance}
               report == reconcile(ledger, from, to, ext)
    <2>1. ext = [ref \in {Journal[p].ref : p \in done} |-> Max(Amounts(Of1(ref)))]
      BY DEF OwnStatement, DoneIn
    <2>2. lm = [ref \in {x.ref : x \in F} |-> Max({x.amount : x \in {y \in F : y.ref = ref}})]
      BY DEF ledgerMap
    <2>3. \A p, q \in Posting : Journal[p].ref = Journal[q].ref => p = q
      BY AuditAssumption
    <2>4. \A p \in done : p \in Posting /\ Of1(Journal[p].ref) = p
      BY <2>3 DEF DoneIn
    <2> HIDE DEF Of1
    <2>5. \A x \in F : /\ x \in ledger /\ Owner(x) \in done
                       /\ x.ref = Journal[Owner(x)].ref /\ Journal[Owner(x)].effective \notin Detached
                       /\ x \in RowsOf(Owner(x))
      <3> SUFFICES ASSUME NEW x \in F
                   PROVE  /\ x \in ledger /\ Owner(x) \in done
                          /\ x.ref = Journal[Owner(x)].ref /\ Journal[Owner(x)].effective \notin Detached
                          /\ x \in RowsOf(Owner(x))
        OBVIOUS
      <3>1. x \in ledger /\ from <= x.effective /\ x.effective <= to
        BY DEF Posted
      <3>2. x.effective \notin Detached
        BY <3>1 DEF RowsInv, Kept
      <3>3. QED
        BY <3>1, <3>2, RowOwner DEF DoneIn
    <2>6. ASSUME NEW p \in done
          PROVE  /\ RowsOf(p) # {} /\ {x.amount : x \in RowsOf(p)} = Amounts(p)
                 /\ Max(Amounts(p)) \in Int
                 /\ Journal[p].effective \notin Detached => RowsOf(p) \subseteq F
                 /\ Journal[p].effective \in Detached => RowsOf(p) \subseteq standalone
                 /\ \A x \in RowsOf(p) : x.ref = Journal[p].ref
      <3>1. \A x \in RowsOf(p) : x.ref = Journal[p].ref
        BY RowOwner DEF RowsOf
      <3>2. RowsInv /\ WholeInv /\ updates = 0 /\ p \in DoneIn(from, to)
        BY <2>6
      <3>3. /\ RowsOf(p) # {}
            /\ {x.amount : x \in RowsOf(p)} = {Lines(p)[i].amount : i \in DOMAIN Lines(p)}
            /\ Max({Lines(p)[i].amount : i \in DOMAIN Lines(p)}) \in Int
            /\ Journal[p].effective \notin Detached => RowsOf(p) \subseteq Posted(ledger, from, to)
            /\ Journal[p].effective \in Detached => RowsOf(p) \subseteq standalone
        BY ONLY <3>2, DoneRows
      <3>4. QED
        BY <3>1, <3>3
    <2> HIDE DEF F
    <2>7. DOMAIN ext = {Journal[p].ref : p \in done} /\ DOMAIN lm = {x.ref : x \in F}
      BY <2>1, <2>2
    <2>8. ASSUME NEW p \in done
          PROVE  /\ Journal[p].ref \in DOMAIN lm <=> Journal[p].effective \notin Detached
                 /\ Journal[p].ref \in archived <=> Journal[p].effective \in Detached
      <3>1. ASSUME Journal[p].ref \in DOMAIN lm PROVE Journal[p].effective \notin Detached
        <4>1. PICK x \in F : x.ref = Journal[p].ref
          BY <2>7, <3>1
        <4>2. Owner(x) = p
          BY <2>3, <2>4, <2>5, <2>8, <4>1
        <4>3. QED
          BY <2>5, <4>2
      <3>2. ASSUME Journal[p].effective \notin Detached PROVE Journal[p].ref \in DOMAIN lm
        <4>1. PICK x \in RowsOf(p) : TRUE
          BY <2>6, <2>8
        <4>2. x \in F /\ x.ref = Journal[p].ref
          BY <2>6, <2>8, <3>2
        <4>3. QED
          BY <2>7, <4>2
      <3>3. ASSUME Journal[p].ref \in archived PROVE Journal[p].effective \in Detached
        <4>1. PICK x \in standalone : x.ref = Journal[p].ref
          BY <3>3
        <4>2. Owner(x) = p
          BY <2>3, <2>4, <2>8, <4>1, RowOwner
        <4>3. x.effective = Journal[p].effective
          BY <4>2, RowOwner
        <4>4. QED
          BY <4>3 DEF RowsInv, Kept
      <3>4. ASSUME Journal[p].effective \in Detached PROVE Journal[p].ref \in archived
        <4>1. PICK x \in RowsOf(p) : TRUE
          BY <2>6, <2>8
        <4>2. x \in standalone /\ x.ref = Journal[p].ref
          BY <2>6, <2>8, <3>4
        <4>3. QED
          BY <2>7, <2>8, <4>2
      <3>5. QED
        BY <3>1, <3>2, <3>3, <3>4
    <2>9. ASSUME NEW x \in F
          PROVE  /\ x.ref \in DOMAIN ext
                 /\ lm[x.ref] = ext[x.ref] /\ lm[x.ref] \in Int
      <3> DEFINE p == Owner(x)
      <3>1. p \in done /\ x.ref = Journal[p].ref /\ Journal[p].effective \notin Detached
        BY <2>5, <2>9
      <3>2. {y \in F : y.ref = x.ref} = RowsOf(p)
        <4>1. \A y \in F : y.ref = x.ref => y \in RowsOf(p)
          <5> SUFFICES ASSUME NEW y \in F, y.ref = x.ref PROVE y \in RowsOf(p)
            OBVIOUS
          <5>1. Owner(y) \in Posting /\ p \in Posting /\ Journal[Owner(y)].ref = Journal[p].ref
            BY <2>4, <2>5, <3>1
          <5>2. Owner(y) = p
            BY <2>3, <5>1
          <5>3. QED
            BY <2>5, <5>2
        <4>2. RowsOf(p) \subseteq F /\ \A y \in RowsOf(p) : y.ref = x.ref
          BY <2>6, <3>1
        <4>3. QED
          BY <4>1, <4>2
      <3>3. ext[x.ref] = Max(Amounts(p)) /\ x.ref \in DOMAIN ext
        <4>1. x.ref \in {Journal[q].ref : q \in done} /\ Of1(x.ref) = p
          BY <2>4, <3>1
        <4>2. QED
          BY <2>1, <4>1
      <3>4. lm[x.ref] = Max({y.amount : y \in {z \in F : z.ref = x.ref}})
        BY <2>2, <2>9
      <3>5. {y.amount : y \in {z \in F : z.ref = x.ref}} = Amounts(p)
        BY <2>6, <3>1, <3>2
      <3>6. QED
        BY <2>6, <3>1, <3>3, <3>4, <3>5
    <2> HIDE DEF ext, lm, done
    <2>10. DOMAIN lm \subseteq DOMAIN ext /\ \A ref \in DOMAIN lm : lm[ref] = ext[ref] /\ lm[ref] \in Int
      BY <2>7, <2>9
    <2>11. DOMAIN ext \ DOMAIN lm = archived
      BY <2>7, <2>8
    <2>12. matched = DOMAIN lm /\ both = DOMAIN lm
      <3>1. \A ref \in DOMAIN lm : AbsInt(lm[ref] - ext[ref]) <= Tolerance
        <4> SUFFICES ASSUME NEW ref \in DOMAIN lm PROVE AbsInt(lm[ref] - ext[ref]) <= Tolerance
          OBVIOUS
        <4>1. lm[ref] - ext[ref] = 0
          BY <2>10
        <4>2. QED
          BY <4>1, ReportAssumption DEF AbsInt
      <3>2. QED
        BY <2>10, <3>1
    <2>13. /\ report.matched = matched /\ report.amountMismatch = both \ matched
           /\ report.missingInExternal = DOMAIN lm \ DOMAIN ext
           /\ report.missingInLedger = DOMAIN ext \ DOMAIN lm
           /\ report.totalDiscrepancy =
                SumFunctionOnSet([ref \in both |-> AbsInt(lm[ref] - ext[ref])], both \ matched)
                + SumFunctionOnSet(lm, DOMAIN lm \ DOMAIN ext)
                + SumFunctionOnSet(ext, DOMAIN ext \ DOMAIN lm)
      BY DEF reconcile, unconsumed, lm, F
    <2>14. both \ matched = {} /\ DOMAIN lm \ DOMAIN ext = {}
      BY <2>10, <2>12
    <2>15. isFullyReconciled(report) <=> archived = {}
      BY <2>11, <2>13, <2>14 DEF isFullyReconciled
    <2>16. ASSUME archived = {} PROVE report.totalDiscrepancy = 0
      <3>1. \A w : SumFunctionOnSet(w, {}) = 0
        BY SumEmpty
      <3>2. DOMAIN ext \ DOMAIN lm = {}
        BY <2>11, <2>16
      <3>3. report.totalDiscrepancy = 0 + 0 + 0
        <4> HIDE DEF both, matched, report
        <4> QED BY <2>13, <2>14, <3>1, <3>2
      <3>4. QED
        BY <3>3
    <2>17. report.matched = DOMAIN ext \ archived
      BY <2>10, <2>11, <2>12, <2>13
    <2>18. report.missingInLedger = archived
      BY <2>11, <2>13
    <2> HIDE DEF report, archived
    <2>19. QED
      BY <2>15, <2>16, <2>17, <2>18 DEF report, archived, ext
  <1>2. QED
    BY RowsInit, RowsStep, WholeInit, WholeStep, <1>1, PTL DEF Spec
=============================================================================
