--------------------------- MODULE HandlersProofs ---------------------------
(***************************************************************************)
(* Proofs about the transaction handlers, for any wallets, amounts, rates  *)
(* and any sequence of transactions.                                       *)
(*                                                                         *)
(* A handler's journal is built from lines that satisfy simple conditions  *)
(* one by one; sums over lines are sums of weights, which follow the way   *)
(* the lines are put together.  What a handler hands over either takes     *)
(* nothing from any wallet (Giving), takes one line's worth from the one   *)
(* wallet it has checked and metered (Paying), or is a closure sweep.      *)
(***************************************************************************)
EXTENDS Handlers, SumTheorems

-----------------------------------------------------------------------------
(* Money.                                                                  *)

Even(x) == x \in Int /\ x % 2 = 0

\* Half of an even number is a number.
LEMMA EvenHalf ==
  ASSUME NEW x, Even(x)
  PROVE  x \in Int /\ \E k \in Int : x = 2 * k
  <1>1. x \in Int /\ x % 2 = 0
    BY DEF Even
  <1>2. x = 2 * (x \div 2) /\ x \div 2 \in Int
    BY <1>1
  <1>3. QED
    BY <1>1, <1>2

\* Twice a number is even.
LEMMA Doubled ==
  ASSUME NEW k \in Int
  PROVE  Even(2 * k)
  BY DEF Even

\* Even numbers stay even when added, subtracted or negated.
LEMMA EvenPlus ==
  ASSUME NEW x, Even(x), NEW y, Even(y)
  PROVE  Even(x + y) /\ Even(x - y) /\ Even(-x)
  BY DEF Even

\* toFixed(4) puts an amount on the grid, at most one half-unit higher, and
\* leaves alone what is there.
LEMMA ToFixedFacts ==
  ASSUME NEW h \in Int
  PROVE  /\ toFixed(h) \in Int /\ Even(toFixed(h))
         /\ h <= toFixed(h) /\ toFixed(h) <= h + 1
         /\ Even(h) => toFixed(h) = h
         /\ h > 0 => toFixed(h) > 0
  BY DEF toFixed, Even

\* An amount on the grid passes through the rounding of a sum.
LEMMA ToFixedPlus ==
  ASSUME NEW h \in Int, NEW g, Even(g)
  PROVE  toFixed(h + g) = toFixed(h) + g /\ toFixed(h - g) = toFixed(h) - g
  BY DEF toFixed, Even

\* A fraction of an amount is on the grid.
LEMMA ShareFacts ==
  ASSUME NEW h \in Int, NEW n \in Int, NEW d \in Nat \ {0}
  PROVE  Share(h, n, d) \in Int /\ Even(Share(h, n, d))
  <1> DEFINE k == h * n + d
             m == 2 * d
  <1>1. k \in Int /\ m \in Nat \ {0}
    OBVIOUS
  <1>2. k \div m \in Int
    <2> HIDE DEF k, m
    <2> QED BY <1>1
  <1>3. QED
    BY <1>2, Doubled DEF Share, Even

\* So are the conversions of Numbers, whichever way a tie falls.
LEMMA NumberFacts ==
  ASSUME NEW h \in Int, NEW up
  PROVE  /\ Even(toFixedNumber(h, up))
         /\ toFixedNumber(h, up) \in {toFixed(h), toFixed(h) - 2}
         /\ Even(h) => toFixedNumber(h, up) = h
         /\ ~Even(h) => toFixedNumber(h, up) \in {h - 1, h + 1}
  BY DEF toFixedNumber, toFixed, Even

\* Shares computed from Numbers or from cut quotients.
LEMMA ShareNumberFacts ==
  ASSUME NEW h \in Int, NEW n \in Int, NEW d \in Nat \ {0}, NEW up
  PROVE  ShareNumber(h, n, d, up) \in Int /\ Even(ShareNumber(h, n, d, up))
  <1>1. Even(Share(h, n, d))
    BY ShareFacts
  <1>2. Even(2) /\ Even(0)
    BY DEF Even
  <1>3. ShareNumber(h, n, d, up) = Share(h, n, d) - 2 \/ ShareNumber(h, n, d, up) = Share(h, n, d) - 0
    BY DEF ShareNumber
  <1>4. QED
    BY <1>1, <1>2, <1>3, EvenPlus DEF Even

\* One unit of currency, and everything counted in such units, is on the grid.
LEMMA UnitFacts ==
  /\ One \in Nat /\ One > 0 /\ Even(One)
  /\ \A k \in Int : Even(k * One)
  /\ Even((2688 * One) \div 100) /\ (2688 * One) \div 100 > 0
  <1>1. One \in Nat /\ One > 0 /\ One % 200 = 0
    BY ScaleAssumption
  <1>2. PICK q \in Nat : One = 200 * q
    <2>1. One = 200 * (One \div 200) /\ One \div 200 \in Nat
      BY <1>1
    <2>2. QED
      BY <2>1
  <1>3. Even(One)
    BY <1>2 DEF Even
  <1>4. ASSUME NEW k \in Int PROVE Even(k * One)
    <2>1. k * One = 2 * (k * (100 * q)) /\ k * (100 * q) \in Int
      BY <1>2
    <2>2. QED
      BY <2>1, Doubled
  <1>5. (2688 * One) \div 100 = 2 * (2688 * q)
    BY <1>2
  <1>6. 2688 * q \in Int /\ q > 0
    BY <1>1, <1>2
  <1>7. Even((2688 * One) \div 100)
    BY <1>5, <1>6, Doubled
  <1>8. (2688 * One) \div 100 > 0
    BY <1>5, <1>6
  <1>9. QED
    BY <1>1, <1>3, <1>4, <1>7, <1>8

-----------------------------------------------------------------------------
(* Sums over the lines of a journal.  A weight gives every line a number.  *)

Weight == [LineType -> Int]

Weighed(lines, w) == [i \in DOMAIN lines |-> w[lines[i]]]
Sum(lines, w)     == SumFunctionOnSet(Weighed(lines, w), DOMAIN lines)

\* The domain of a sequence is an interval.
LEMMA SeqFacts ==
  ASSUME NEW S, NEW s \in Seq(S)
  PROVE  /\ Len(s) \in Nat /\ DOMAIN s = 1 .. Len(s) /\ IsFiniteSet(DOMAIN s)
         /\ \A i \in DOMAIN s : s[i] \in S
  <1>1. Len(s) \in Nat /\ DOMAIN s = 1 .. Len(s) /\ \A i \in DOMAIN s : s[i] \in S
    OBVIOUS
  <1>2. IsFiniteSet(1 .. Len(s))
    BY <1>1, FS_Interval
  <1>3. QED
    BY <1>1, <1>2

\* Lines weigh a number.
LEMMA SumInt ==
  ASSUME NEW lines \in Seq(LineType), NEW w \in Weight
  PROVE  Sum(lines, w) \in Int
  <1>1. IsFiniteSet(DOMAIN lines) /\ \A i \in DOMAIN lines : Weighed(lines, w)[i] \in Int
    BY SeqFacts DEF Weighed, Weight
  <1>2. QED
    BY <1>1, SumType DEF Sum

\* No lines weigh nothing.
LEMMA SumNone ==
  ASSUME NEW w
  PROVE  Sum(<< >>, w) = 0
  <1>1. DOMAIN << >> = {}
    OBVIOUS
  <1>2. QED
    BY <1>1, SumEmpty DEF Sum

\* One more line adds its weight.
LEMMA SumAppend ==
  ASSUME NEW lines \in Seq(LineType), NEW l \in LineType, NEW w \in Weight
  PROVE  Sum(Append(lines, l), w) = Sum(lines, w) + w[l]
  <1> DEFINE n == Len(lines)
             all == Append(lines, l)
             f == Weighed(all, w)
             g == Weighed(lines, w)
  <1>1. n \in Nat /\ DOMAIN lines = 1 .. n /\ IsFiniteSet(1 .. n)
    BY SeqFacts
  <1>2. /\ all \in Seq(LineType) /\ DOMAIN all = (1 .. n) \cup {n + 1} /\ n + 1 \notin 1 .. n
        /\ all[n + 1] = l /\ \A i \in 1 .. n : all[i] = lines[i]
    BY <1>1
  <1>3. \A i \in (1 .. n) \cup {n + 1} : f[i] \in Int
    BY <1>2, SeqFacts DEF Weighed, Weight
  <1>4. f[n + 1] = w[l] /\ \A i \in 1 .. n : f[i] = g[i]
    BY <1>1, <1>2 DEF Weighed
  <1>5. SumFunctionOnSet(f, 1 .. n) = SumFunctionOnSet(g, 1 .. n)
    <2> HIDE DEF f, g
    <2> QED BY <1>1, <1>4, SumEqual
  <1>6. SumFunctionOnSet(f, (1 .. n) \cup {n + 1}) = f[n + 1] + SumFunctionOnSet(f, 1 .. n)
    <2> HIDE DEF f, g
    <2> QED BY <1>1, <1>2, <1>3, SumAdd
  <1>7. SumFunctionOnSet(g, 1 .. n) \in Int /\ w[l] \in Int
    BY <1>1, SumInt DEF Sum, Weight
  <1>8. Sum(all, w) = w[l] + SumFunctionOnSet(g, 1 .. n) /\ Sum(lines, w) = SumFunctionOnSet(g, 1 .. n)
    BY <1>1, <1>2, <1>4, <1>5, <1>6 DEF Sum
  <1>9. QED
    BY ONLY <1>7, <1>8

\* Short lists, line by line.
LEMMA SumShort ==
  ASSUME NEW w \in Weight, NEW a \in LineType, NEW b \in LineType, NEW c \in LineType
  PROVE  /\ Sum(<<a>>, w) = w[a]
         /\ Sum(<<a, b>>, w) = w[a] + w[b]
         /\ Sum(<<a, b, c>>, w) = w[a] + w[b] + w[c]
  <1>1. /\ << >> \in Seq(LineType) /\ <<a>> \in Seq(LineType) /\ <<a, b>> \in Seq(LineType)
        /\ <<a>> = Append(<< >>, a) /\ <<a, b>> = Append(<<a>>, b)
        /\ <<a, b, c>> = Append(<<a, b>>, c)
    OBVIOUS
  <1>2. w[a] \in Int /\ w[b] \in Int /\ w[c] \in Int
    BY DEF Weight
  <1>3. Sum(<<a>>, w) = w[a]
    <2>1. Sum(Append(<< >>, a), w) = Sum(<< >>, w) + w[a]
      BY <1>1, SumAppend
    <2>2. Sum(<< >>, w) = 0
      BY SumNone
    <2>3. QED
      BY <1>1, <1>2, <2>1, <2>2
  <1>4. Sum(<<a, b>>, w) = w[a] + w[b]
    BY <1>1, <1>3, SumAppend
  <1>5. Sum(<<a, b, c>>, w) = w[a] + w[b] + w[c]
    BY <1>1, <1>4, SumAppend
  <1>6. QED
    BY <1>3, <1>4, <1>5

\* A list with at most one line more.
LEMMA SumAtMostOneMore ==
  ASSUME NEW lines \in Seq(LineType), NEW l \in LineType, NEW w \in Weight, NEW P \in BOOLEAN
  PROVE  /\ lines \o (IF P THEN <<l>> ELSE << >>) \in Seq(LineType)
         /\ Sum(lines \o (IF P THEN <<l>> ELSE << >>), w) = Sum(lines, w) + IF P THEN w[l] ELSE 0
  <1>1. lines \o <<l>> = Append(lines, l) /\ lines \o << >> = lines
    OBVIOUS
  <1>2. Append(lines, l) \in Seq(LineType) /\ Sum(lines, w) \in Int
    BY SumInt
  <1>3. Sum(Append(lines, l), w) = Sum(lines, w) + w[l]
    BY SumAppend
  <1>4. CASE P
    <2>1. (IF P THEN <<l>> ELSE << >>) = <<l>>
      BY <1>4
    <2>2. QED
      BY <1>1, <1>2, <1>3, <1>4, <2>1
  <1>5. CASE ~P
    <2>1. (IF P THEN <<l>> ELSE << >>) = << >>
      BY <1>5
    <2>2. QED
      BY <1>1, <1>2, <1>5, <2>1
  <1>6. QED
    BY <1>4, <1>5

\* The sum over some of the lines, as a sum over all of them.
LEMMA SumSome ==
  ASSUME NEW D, IsFiniteSet(D), NEW T, T \subseteq D,
         NEW f, \A i \in D : f[i] \in Int,
         NEW g, \A i \in D : g[i] = IF i \in T THEN f[i] ELSE 0
  PROVE  SumFunctionOnSet(f, T) = SumFunctionOnSet(g, D)
  <1>1. IsFiniteSet(T) /\ IsFiniteSet(D \ T)
    BY FS_Subset
  <1>2. \A i \in D : g[i] \in Int
    OBVIOUS
  <1>3. SumFunctionOnSet(g, D) = SumFunctionOnSet(g, T) + SumFunctionOnSet(g, D \ T)
    BY <1>2, SumSplit
  <1>4. SumFunctionOnSet(f, T) = SumFunctionOnSet(g, T)
    BY <1>1, SumEqual
  <1>5. SumFunctionOnSet(g, D \ T) = 0
    BY <1>1, SumZero
  <1>6. SumFunctionOnSet(g, T) \in Int
    BY <1>1, <1>2, SumType
  <1>7. QED
    BY <1>3, <1>4, <1>5, <1>6

\* Lines on which two weights agree weigh the same by both.
LEMMA SumSame ==
  ASSUME NEW lines \in Seq(LineType), NEW v, NEW w, \A i \in DOMAIN lines : v[lines[i]] = w[lines[i]]
  PROVE  Sum(lines, v) = Sum(lines, w)
  <1>1. IsFiniteSet(DOMAIN lines)
    BY SeqFacts
  <1>2. \A i \in DOMAIN lines : Weighed(lines, v)[i] = Weighed(lines, w)[i]
    BY DEF Weighed
  <1>3. QED
    BY <1>1, <1>2, SumEqual DEF Sum

\* Lines that each weigh nothing weigh nothing together.
LEMMA SumNothing ==
  ASSUME NEW lines \in Seq(LineType), NEW w, \A i \in DOMAIN lines : w[lines[i]] = 0
  PROVE  Sum(lines, w) = 0
  <1>1. IsFiniteSet(DOMAIN lines) /\ \A i \in DOMAIN lines : Weighed(lines, w)[i] = 0
    BY SeqFacts DEF Weighed
  <1>2. QED
    BY <1>1, SumZero DEF Sum

\* Lines of which none weighs less than nothing.
LEMMA SumNotNegative ==
  ASSUME NEW lines \in Seq(LineType), NEW w, \A i \in DOMAIN lines : w[lines[i]] \in Nat
  PROVE  Sum(lines, w) \in Nat
  <1>1. IsFiniteSet(DOMAIN lines) /\ \A i \in DOMAIN lines : Weighed(lines, w)[i] \in Nat
    BY SeqFacts DEF Weighed
  <1>2. QED
    BY <1>1, SumNat DEF Sum

\* Lines of which only one counts.
LEMMA SumAlone ==
  ASSUME NEW lines \in Seq(LineType), NEW w \in Weight, NEW e \in DOMAIN lines,
         \A i \in DOMAIN lines \ {e} : w[lines[i]] = 0
  PROVE  Sum(lines, w) = w[lines[e]]
  <1> DEFINE f == Weighed(lines, w)
             D == DOMAIN lines
  <1>1. IsFiniteSet(D) /\ IsFiniteSet(D \ {e})
    BY SeqFacts, FS_Subset
  <1>2. \A i \in D : f[i] \in Int
    BY SeqFacts DEF Weighed, Weight
  <1>3. f[e] = w[lines[e]] /\ \A i \in D \ {e} : f[i] = 0
    BY DEF Weighed
  <1>4. e \in D
    OBVIOUS
  <1>5. Sum(lines, w) = SumFunctionOnSet(f, D)
    BY DEF Sum
  <1>6. SumFunctionOnSet(f, D) = f[e] + SumFunctionOnSet(f, D \ {e})
    <2> HIDE DEF f, D
    <2> QED BY <1>1, <1>2, <1>4, SumRemove
  <1>7. SumFunctionOnSet(f, D \ {e}) = 0
    <2> HIDE DEF f, D
    <2> QED BY <1>1, <1>3, SumZero
  <1>8. QED
    BY <1>2, <1>3, <1>4, <1>5, <1>6, <1>7

-----------------------------------------------------------------------------
(* The sums of the model, as weights.                                      *)

SentOn(side) == [l \in LineType |-> IF l.entryType = side THEN l.amount ELSE 0]
StoredOn(cur, side) ==
  [l \in LineType |-> IF l.currency = cur /\ l.entryType = side THEN toFixed(l.amount) ELSE 0]
SideOn(a, cur, side) ==
  [l \in LineType |-> IF l.account = a /\ l.currency = cur /\ l.entryType = side
                      THEN toFixed(l.amount) ELSE 0]
EffectOn(a, cur) ==
  [l \in LineType |-> IF l.account = a /\ l.currency = cur
                      THEN IF l.entryType = "DEBIT" THEN toFixed(l.amount) ELSE -toFixed(l.amount)
                      ELSE 0]
ReachedOn(check) ==
  [l \in LineType |-> IF l.account \in {"platformOperatingCash"} \cup check
                      THEN 0 ELSE toFixed(l.amount)]

\* A line has an amount, and is stored with one.
LEMMA LineFacts ==
  ASSUME NEW l \in LineType
  PROVE  /\ l.amount \in Int /\ toFixed(l.amount) \in Int /\ Even(toFixed(l.amount))
         /\ l.account \in Account /\ l.currency \in Currency /\ l.entryType \in {"DEBIT", "CREDIT"}
  BY ToFixedFacts DEF LineType

\* The weights are weights.
LEMMA WeightTypes ==
  ASSUME NEW a, NEW cur, NEW side, NEW check
  PROVE  /\ SentOn(side) \in Weight /\ StoredOn(cur, side) \in Weight
         /\ SideOn(a, cur, side) \in Weight /\ EffectOn(a, cur) \in Weight
         /\ ReachedOn(check) \in Weight
  BY LineFacts DEF SentOn, StoredOn, SideOn, EffectOn, ReachedOn, Weight

\* What postJournalEntry() compares.
LEMMA TotalIsSum ==
  ASSUME NEW lines \in Seq(LineType), NEW side
  PROVE  Total(lines, side) = Sum(lines, SentOn(side)) /\ Total(lines, side) \in Int
  <1> DEFINE D == DOMAIN lines
             T == {i \in D : lines[i].entryType = side}
             f == Sent(lines)
             g == Weighed(lines, SentOn(side))
  <1>1. IsFiniteSet(D) /\ T \subseteq D /\ \A i \in D : lines[i] \in LineType
    BY SeqFacts
  <1>2. \A i \in D : f[i] \in Int
    BY <1>1, LineFacts DEF Sent
  <1>3. \A i \in D : g[i] = IF i \in T THEN f[i] ELSE 0
    BY <1>1 DEF Weighed, SentOn, Sent
  <1>4. SumFunctionOnSet(f, T) = SumFunctionOnSet(g, D)
    <2> HIDE DEF D, T, f, g
    <2> QED BY <1>1, <1>2, <1>3, SumSome
  <1>5. QED
    BY <1>4, WeightTypes, SumInt DEF Total, Sum

\* What the rows of a journal add up to in one currency.
LEMMA StoredTotalIsSum ==
  ASSUME NEW j, j.lines \in Seq(LineType), NEW cur, NEW side
  PROVE  StoredTotal(j, cur, side) = Sum(j.lines, StoredOn(cur, side))
  <1> DEFINE lines == j.lines
             D == DOMAIN lines
             T == {i \in D : lines[i].currency = cur /\ lines[i].entryType = side}
             f == Stored(lines)
             g == Weighed(lines, StoredOn(cur, side))
  <1>1. IsFiniteSet(D) /\ T \subseteq D /\ \A i \in D : lines[i] \in LineType
    BY SeqFacts
  <1>2. \A i \in D : f[i] \in Int
    BY <1>1, LineFacts DEF Stored
  <1>3. \A i \in D : g[i] = IF i \in T THEN f[i] ELSE 0
    BY <1>1 DEF Weighed, StoredOn, Stored
  <1>4. SumFunctionOnSet(f, T) = SumFunctionOnSet(g, D)
    <2> HIDE DEF D, T, f, g
    <2> QED BY <1>1, <1>2, <1>3, SumSome
  <1>5. QED
    BY <1>4 DEF StoredTotal, Sum

\* What reaches the other accounts.
LEMMA ReachedIsSum ==
  ASSUME NEW j, j.lines \in Seq(LineType)
  PROVE  Reached(j) = Sum(j.lines, ReachedOn(j.check))
  <1> DEFINE lines == j.lines
             D == DOMAIN lines
             T == {i \in D : lines[i].account \notin {"platformOperatingCash"} \cup j.check}
             f == Stored(lines)
             g == Weighed(lines, ReachedOn(j.check))
  <1>1. IsFiniteSet(D) /\ T \subseteq D /\ \A i \in D : lines[i] \in LineType
    BY SeqFacts
  <1>2. \A i \in D : f[i] \in Int
    BY <1>1, LineFacts DEF Stored
  <1>3. \A i \in D : g[i] = IF i \in T THEN f[i] ELSE 0
    BY <1>1 DEF Weighed, ReachedOn, Stored
  <1>4. SumFunctionOnSet(f, T) = SumFunctionOnSet(g, D)
    <2> HIDE DEF D, T, f, g
    <2> QED BY <1>1, <1>2, <1>3, SumSome
  <1>5. QED
    BY <1>4 DEF Reached, Sum

\* One side of an account.
LEMMA SideIsSum ==
  ASSUME NEW lines \in Seq(LineType), NEW a, NEW cur, NEW side
  PROVE  SumFunctionOnSet(Stored(lines), {i \in DOMAIN lines : /\ lines[i].account = a /\ lines[i].currency = cur
                                                               /\ lines[i].entryType = side})
         = Sum(lines, SideOn(a, cur, side))
  <1> DEFINE D == DOMAIN lines
             T == {i \in D : /\ lines[i].account = a /\ lines[i].currency = cur
                             /\ lines[i].entryType = side}
             f == Stored(lines)
             g == Weighed(lines, SideOn(a, cur, side))
  <1>1. IsFiniteSet(D) /\ T \subseteq D /\ \A i \in D : lines[i] \in LineType
    BY SeqFacts
  <1>2. \A i \in D : f[i] \in Int
    BY <1>1, LineFacts DEF Stored
  <1>3. \A i \in D : g[i] = IF i \in T THEN f[i] ELSE 0
    BY <1>1 DEF Weighed, SideOn, Stored
  <1>4. SumFunctionOnSet(f, T) = SumFunctionOnSet(g, D)
    <2> HIDE DEF D, T, f, g
    <2> QED BY <1>1, <1>2, <1>3, SumSome
  <1>5. QED
    BY <1>4 DEF Sum

\* What a journal does to an account.
LEMMA EffectIsSum ==
  ASSUME NEW lines \in Seq(LineType), NEW a, NEW cur
  PROVE  Effect(lines, a, cur) = Sum(lines, EffectOn(a, cur)) /\ Effect(lines, a, cur) \in Int
  <1> DEFINE D == DOMAIN lines
             debits == SideOn(a, cur, "DEBIT")
             credits == SideOn(a, cur, "CREDIT")
             x == Weighed(lines, EffectOn(a, cur))
             c == Weighed(lines, credits)
             d == Weighed(lines, debits)
  <1>1. Effect(lines, a, cur) = Sum(lines, debits) - Sum(lines, credits)
    BY SideIsSum DEF Effect
  <1>2. IsFiniteSet(D) /\ \A i \in D : lines[i] \in LineType
    BY SeqFacts
  <1>3. \A i \in D : x[i] \in Int /\ c[i] \in Int /\ d[i] = x[i] + c[i]
    BY <1>2, LineFacts DEF Weighed, EffectOn, SideOn
  <1>4. SumFunctionOnSet(d, D) = SumFunctionOnSet(x, D) + SumFunctionOnSet(c, D)
    <2> HIDE DEF D, x, c, d
    <2> QED BY <1>2, <1>3, SumPlus
  <1>5. Sum(lines, debits) = Sum(lines, EffectOn(a, cur)) + Sum(lines, credits)
    BY <1>4 DEF Sum
  <1>6. Sum(lines, EffectOn(a, cur)) \in Int /\ Sum(lines, credits) \in Int
    BY WeightTypes, SumInt
  <1>7. QED
    BY ONLY <1>1, <1>5, <1>6

\* Rows are on the grid, and so is what they do to a balance.
LEMMA EffectIsEven ==
  ASSUME NEW lines \in Seq(LineType), NEW a, NEW cur
  PROVE  Even(Effect(lines, a, cur))
  <1> DEFINE D == DOMAIN lines
             f == Weighed(lines, EffectOn(a, cur))
             half == [i \in D |-> f[i] \div 2]
  <1>1. IsFiniteSet(D) /\ \A i \in D : lines[i] \in LineType
    BY SeqFacts
  <1>2. ASSUME NEW i \in D PROVE Even(f[i])
    <2>1. Even(toFixed(lines[i].amount)) /\ Even(0)
      <3>1. Even(toFixed(lines[i].amount))
        BY <1>1, LineFacts
      <3>2. QED
        BY <3>1 DEF Even
    <2>2. f[i] \in {toFixed(lines[i].amount), -toFixed(lines[i].amount), 0}
      BY <1>1 DEF Weighed, EffectOn
    <2>3. Even(-toFixed(lines[i].amount))
      BY <2>1, EvenPlus
    <2>4. QED
      BY <2>1, <2>2, <2>3
  <1>3. \A i \in D : half[i] \in Int /\ f[i] = half[i] * 2
    BY <1>2 DEF Even
  <1>4. SumFunctionOnSet(f, D) = SumFunctionOnSet(half, D) * 2 /\ SumFunctionOnSet(half, D) \in Int
    <2> HIDE DEF D, f, half
    <2> QED BY <1>1, <1>3, SumScale, SumType
  <1>5. Effect(lines, a, cur) = SumFunctionOnSet(f, D)
    BY EffectIsSum DEF Sum
  <1>6. QED
    BY <1>4, <1>5, Doubled

-----------------------------------------------------------------------------
(* What lines a journal is made of.                                        *)

\* A line that takes nothing from a wallet; on wallet w, it is in another
\* currency; a line in the home currency whose amount is on the grid.
Harmless  == {l \in LineType : l.account \in Wallet => l.entryType = "DEBIT"}
Others(w) == {l \in Harmless : l.account # w \/ l.currency # "home"}
Exact     == {l \in LineType : Even(l.amount) /\ l.currency = "home"}

\* The lines take amount x from wallet w, and nothing else from any wallet;
\* what is taken is the first line on the wallet.
Pays(lines, w, x) ==
  \E i \in DOMAIN lines :
    /\ lines[i] = Credit(w, x)
    /\ \A k \in DOMAIN lines \ {i} : lines[k] \in Others(w)
    /\ \A k \in 1 .. i - 1 : lines[k].account # w

Positive(lines) == \A i \in DOMAIN lines : lines[i].amount > 0

\* The fields of a line, and where it belongs.
LEMMA LineInFacts ==
  ASSUME NEW cur \in Currency, NEW a \in Account, NEW side \in {"DEBIT", "CREDIT"}, NEW h \in Int
  PROVE  /\ LineIn(cur, a, side, h) \in LineType
         /\ LineIn(cur, a, side, h).account = a /\ LineIn(cur, a, side, h).currency = cur
         /\ LineIn(cur, a, side, h).entryType = side /\ LineIn(cur, a, side, h).amount = h
  BY DEF LineIn, LineType

\* System accounts are no wallets.
LEMMA AccountFacts ==
  /\ \A a \in SystemAccount : a \in Account /\ a \notin Wallet
  /\ \A w \in Wallet : w \in Account /\ w \notin SystemAccount /\ w # "platformOperatingCash"
  /\ "home" \in Currency /\ "target" \in Currency /\ Currency = {"home", "target"}
  /\ "platformOperatingCash" \in SystemAccount
  BY AccountAssumption DEF Account, SystemAccount, Currency

\* Lines in the home currency.
LEMMA HomeLine ==
  ASSUME NEW a \in Account, NEW h \in Int
  PROVE  /\ Debit(a, h) \in Harmless /\ Credit(a, h) \in LineType
         /\ Debit(a, h).amount = h /\ Credit(a, h).amount = h
         /\ Debit(a, h).account = a /\ Credit(a, h).account = a
         /\ Debit(a, h).currency = "home" /\ Credit(a, h).currency = "home"
         /\ Debit(a, h).entryType = "DEBIT" /\ Credit(a, h).entryType = "CREDIT"
         /\ a \notin Wallet => Credit(a, h) \in Harmless
         /\ Even(h) => Debit(a, h) \in Exact /\ Credit(a, h) \in Exact
         /\ \A w : a # w => /\ Debit(a, h) \in Others(w)
                            /\ a \notin Wallet => Credit(a, h) \in Others(w)
  <1>1. /\ Debit(a, h) = LineIn("home", a, "DEBIT", h)
        /\ Credit(a, h) = LineIn("home", a, "CREDIT", h)
    BY DEF Debit, Credit
  <1>2. "home" \in Currency
    BY AccountFacts
  <1>3. QED
    BY <1>1, <1>2, LineInFacts DEF Harmless, Others, Exact

\* Lines that take nothing from a wallet lower no wallet's balance.
LEMMA HarmlessEffect ==
  ASSUME NEW lines \in Seq(LineType), Positive(lines), NEW w \in Wallet, NEW cur,
         \A i \in DOMAIN lines :
           lines[i].account = w /\ lines[i].currency = cur => lines[i] \in Harmless
  PROVE  Effect(lines, w, cur) >= 0
  <1>1. ASSUME NEW i \in DOMAIN lines PROVE EffectOn(w, cur)[lines[i]] \in Nat
    <2>1. lines[i] \in LineType /\ lines[i].amount > 0 /\ lines[i].amount \in Int
      BY SeqFacts, LineFacts DEF Positive
    <2>2. toFixed(lines[i].amount) \in Int /\ toFixed(lines[i].amount) > 0
      BY <2>1, ToFixedFacts
    <2>3. CASE lines[i].account = w /\ lines[i].currency = cur
      <3>1. lines[i].entryType = "DEBIT"
        BY <2>3 DEF Harmless
      <3>2. EffectOn(w, cur)[lines[i]] = toFixed(lines[i].amount)
        BY <2>1, <2>3, <3>1 DEF EffectOn
      <3>3. QED
        BY <2>2, <3>2
    <2>4. CASE ~(lines[i].account = w /\ lines[i].currency = cur)
      BY <2>1, <2>4 DEF EffectOn
    <2>5. QED
      BY <2>3, <2>4
  <1>2. QED
    BY <1>1, SumNotNegative, EffectIsSum

\* What a payment does to the wallets.
LEMMA PaymentEffect ==
  ASSUME NEW lines \in Seq(LineType), Positive(lines), NEW w \in Wallet, NEW x \in Int,
         Pays(lines, w, x)
  PROVE  /\ Effect(lines, w, "home") = -toFixed(x)
         /\ \A v \in Wallet, cur \in Currency :
              v # w \/ cur # "home" => Effect(lines, v, cur) >= 0
  <1>1. PICK e \in DOMAIN lines : /\ lines[e] = Credit(w, x)
                                  /\ \A k \in DOMAIN lines \ {e} : lines[k] \in Others(w)
    BY DEF Pays
  <1>2. /\ Credit(w, x).account = w /\ Credit(w, x).currency = "home" /\ Credit(w, x) \in LineType
        /\ Credit(w, x).entryType = "CREDIT" /\ Credit(w, x).amount = x
    BY AccountFacts, HomeLine
  <1>3. Effect(lines, w, "home") = -toFixed(x)
    <2>1. \A i \in DOMAIN lines : lines[i] \in LineType
      BY SeqFacts
    <2>2. \A i \in DOMAIN lines \ {e} : EffectOn(w, "home")[lines[i]] = 0
      BY <1>1, <2>1 DEF EffectOn, Others
    <2>3. EffectOn(w, "home")[lines[e]] = -toFixed(x)
      BY <1>1, <1>2 DEF EffectOn
    <2>4. Sum(lines, EffectOn(w, "home")) = EffectOn(w, "home")[lines[e]]
      BY <2>2, SumAlone, WeightTypes
    <2>5. QED
      BY <2>3, <2>4, EffectIsSum
  <1>4. ASSUME NEW v \in Wallet, NEW cur \in Currency, v # w \/ cur # "home"
        PROVE  Effect(lines, v, cur) >= 0
    <2>1. \A i \in DOMAIN lines :
            lines[i].account = v /\ lines[i].currency = cur => lines[i] \in Harmless
      BY <1>1, <1>2, <1>4 DEF Others
    <2>2. QED
      BY <2>1, HarmlessEffect
  <1>5. QED
    BY <1>3, <1>4

\* Amounts on the grid are stored as they were compared.
LEMMA ExactBalanced ==
  ASSUME NEW j, j.lines \in Seq(Exact), Total(j.lines, "DEBIT") = Total(j.lines, "CREDIT")
  PROVE  StoredBalanced(j)
  <1>1. j.lines \in Seq(LineType) /\ \A i \in DOMAIN j.lines : j.lines[i] \in Exact
    BY DEF Exact
  <1>2. \A i \in DOMAIN j.lines : /\ j.lines[i] \in LineType /\ j.lines[i].currency = "home"
                                  /\ toFixed(j.lines[i].amount) = j.lines[i].amount
    BY <1>1, ToFixedFacts DEF Exact, Even
  <1>3. ASSUME NEW side PROVE StoredTotal(j, "home", side) = Total(j.lines, side)
    <2>1. \A i \in DOMAIN j.lines : StoredOn("home", side)[j.lines[i]] = SentOn(side)[j.lines[i]]
      BY <1>2 DEF StoredOn, SentOn
    <2>2. Sum(j.lines, StoredOn("home", side)) = Sum(j.lines, SentOn(side))
      BY <1>1, <2>1, SumSame
    <2>3. QED
      BY <1>1, <2>2, StoredTotalIsSum, TotalIsSum
  <1>4. ASSUME NEW side PROVE StoredTotal(j, "target", side) = 0
    <2>1. \A i \in DOMAIN j.lines : StoredOn("target", side)[j.lines[i]] = 0
      BY <1>2 DEF StoredOn
    <2>2. QED
      BY <1>1, <2>1, SumNothing, StoredTotalIsSum
  <1>5. QED
    BY <1>3, <1>4 DEF StoredBalanced, Currency

-----------------------------------------------------------------------------
(* How the handlers put their lines together.                              *)

\* A line on Platform Operating Cash with an amount on the grid.
IsPlug(l, cur) ==
  /\ l \in LineType /\ l \in Harmless /\ Even(l.amount)
  /\ l.account = "platformOperatingCash" /\ l.currency = cur

\* computeBalancingLeg() leaves the lines alone or adds one plug at the end.
LEMMA BalancingLeg ==
  ASSUME NEW lines \in Seq(LineType), NEW cur \in Currency
  PROVE  \/ computeBalancingLeg(lines, cur) = lines
         \/ \E l : IsPlug(l, cur) /\ computeBalancingLeg(lines, cur) = Append(lines, l)
  <1> DEFINE diff == Total(lines, "DEBIT") - Total(lines, "CREDIT")
             up == LineIn(cur, "platformOperatingCash", "CREDIT", toFixed(diff))
             down == LineIn(cur, "platformOperatingCash", "DEBIT", toFixed(-diff))
  <1>1. diff \in Int /\ -diff \in Int
    <2>1. Total(lines, "DEBIT") \in Int /\ Total(lines, "CREDIT") \in Int
      BY TotalIsSum
    <2>2. QED
      BY <2>1
  <1>2. ASSUME NEW h \in Int, NEW side \in {"DEBIT", "CREDIT"}
        PROVE  IsPlug(LineIn(cur, "platformOperatingCash", side, toFixed(h)), cur)
    <2>1. toFixed(h) \in Int /\ Even(toFixed(h))
      BY ToFixedFacts
    <2>2. "platformOperatingCash" \in Account /\ "platformOperatingCash" \notin Wallet
      BY AccountFacts
    <2>3. QED
      BY <2>1, <2>2, LineInFacts DEF IsPlug, Harmless
  <1>3. IsPlug(up, cur) /\ IsPlug(down, cur)
    <2> HIDE DEF diff
    <2> QED BY <1>1, <1>2
  <1>4. computeBalancingLeg(lines, cur) \in {lines, Append(lines, up), Append(lines, down)}
    BY DEF computeBalancingLeg
  <1>5. QED
    BY <1>3, <1>4

\* Balanced lines are of a kind if the lines and every plug are.
LEMMA BalancedIn ==
  ASSUME NEW S, S \subseteq LineType, \A l : IsPlug(l, "home") => l \in S,
         NEW lines \in Seq(S)
  PROVE  Balanced(lines) \in Seq(S)
  <1>1. lines \in Seq(LineType) /\ "home" \in Currency
    BY AccountFacts
  <1>2. \/ Balanced(lines) = lines
        \/ \E l : IsPlug(l, "home") /\ Balanced(lines) = Append(lines, l)
    BY <1>1, BalancingLeg DEF Balanced
  <1>3. QED
    BY <1>2

\* A list with one line more, or not, is of a kind if the line is.
LEMMA OneMoreIn ==
  ASSUME NEW S, NEW lines \in Seq(S), NEW l \in S, NEW P \in BOOLEAN
  PROVE  lines \o (IF P THEN <<l>> ELSE << >>) \in Seq(S)
  <1>1. CASE P
    <2>1. lines \o (IF P THEN <<l>> ELSE << >>) = lines \o <<l>>
      BY <1>1
    <2>2. lines \o <<l>> = Append(lines, l)
      OBVIOUS
    <2>3. QED
      BY <2>1, <2>2
  <1>2. CASE ~P
    <2>1. lines \o (IF P THEN <<l>> ELSE << >>) = lines \o << >>
      BY <1>2
    <2>2. lines \o << >> = lines
      OBVIOUS
    <2>3. QED
      BY <2>1, <2>2
  <1>3. QED
    BY <1>1, <1>2

\* Plugs are exact and harmless.
LEMMA PlugFacts ==
  ASSUME NEW l, IsPlug(l, "home")
  PROVE  /\ l \in Harmless \cap Exact
         /\ \A w \in Wallet : l \in Others(w)
  BY AccountFacts DEF IsPlug, Exact, Others

\* One line more of another account leaves a payment a payment.
LEMMA PaysAppend ==
  ASSUME NEW lines \in Seq(LineType), NEW w, NEW x, Pays(lines, w, x), NEW l \in Others(w)
  PROVE  Pays(Append(lines, l), w, x)
  <1> DEFINE n == Len(lines)
             all == Append(lines, l)
  <1>1. PICK e \in DOMAIN lines : /\ lines[e] = Credit(w, x)
                                  /\ \A k \in DOMAIN lines \ {e} : lines[k] \in Others(w)
                                  /\ \A k \in 1 .. e - 1 : lines[k].account # w
    BY DEF Pays
  <1>2. n \in Nat /\ DOMAIN lines = 1 .. n /\ e \in 1 .. n
    BY <1>1, SeqFacts
  <1>3. /\ DOMAIN all = 1 .. n + 1 /\ all[n + 1] = l
        /\ \A i \in 1 .. n : all[i] = lines[i]
    BY <1>2
  <1>4. e \in DOMAIN all /\ all[e] = Credit(w, x)
    BY <1>1, <1>2, <1>3
  <1>5. ASSUME NEW k \in DOMAIN all \ {e} PROVE all[k] \in Others(w)
    <2>1. k \in 1 .. n \/ k = n + 1
      BY <1>2, <1>3
    <2>2. QED
      BY <1>1, <1>2, <1>3, <2>1
  <1>6. ASSUME NEW k \in 1 .. e - 1 PROVE all[k].account # w
    <2>1. k \in 1 .. n
      BY <1>2
    <2>2. QED
      BY <1>1, <1>3, <2>1
  <1>7. QED
    BY <1>4, <1>5, <1>6 DEF Pays

\* A balancing leg leaves a payment a payment.
LEMMA PaysBalanced ==
  ASSUME NEW lines \in Seq(LineType), NEW w \in Wallet, NEW x, Pays(lines, w, x)
  PROVE  Pays(Balanced(lines), w, x) /\ Balanced(lines) \in Seq(LineType)
  <1>1. \/ Balanced(lines) = lines
        \/ \E l : IsPlug(l, "home") /\ Balanced(lines) = Append(lines, l)
    BY AccountFacts, BalancingLeg DEF Balanced
  <1>2. ASSUME NEW l, IsPlug(l, "home")
        PROVE  Pays(Append(lines, l), w, x) /\ Append(lines, l) \in Seq(LineType)
    <2>1. l \in Others(w) /\ l \in LineType
      BY <1>2, PlugFacts DEF Exact
    <2>2. QED
      BY <2>1, PaysAppend
  <1>3. QED
    BY <1>1, <1>2

-----------------------------------------------------------------------------
(* Payments computed on the grid: the lines, the amount x the payer loses  *)
(* and the amount r that reaches the other parties.                        *)

Payment(lines, w, x, r) ==
  /\ lines \in Seq(Exact)
  /\ Pays(lines, w, x)
  /\ Sum(lines, ReachedOn({w})) = r

\* The lines of a payment are lines.
LEMMA PaymentLines ==
  ASSUME NEW lines, NEW w, NEW x, NEW r, Payment(lines, w, x, r)
  PROVE  lines \in Seq(LineType) /\ r \in Int
  <1>1. lines \in Seq(LineType)
    BY DEF Payment, Exact
  <1>2. Sum(lines, ReachedOn({w})) \in Int
    BY <1>1, WeightTypes, SumInt
  <1>3. QED
    BY <1>1, <1>2 DEF Payment

\* The payer's line.
LEMMA PaymentFirst ==
  ASSUME NEW w \in Wallet, NEW x, Even(x)
  PROVE  Payment(<<Credit(w, x)>>, w, x, 0)
  <1>1. w \in Account /\ x \in Int
    BY AccountFacts DEF Even
  <1>2. Credit(w, x) \in Exact /\ Credit(w, x) \in LineType /\ Credit(w, x).account = w
    BY <1>1, HomeLine
  <1>3. <<Credit(w, x)>> \in Seq(Exact) /\ DOMAIN <<Credit(w, x)>> = {1} /\ <<Credit(w, x)>>[1] = Credit(w, x)
    BY <1>2
  <1>4. Pays(<<Credit(w, x)>>, w, x)
    BY <1>3 DEF Pays
  <1>5. ReachedOn({w})[Credit(w, x)] = 0
    BY <1>2 DEF ReachedOn
  <1>6. Sum(<<Credit(w, x)>>, ReachedOn({w})) = 0
    BY <1>2, <1>5, SumShort, WeightTypes
  <1>7. QED
    BY <1>3, <1>4, <1>6 DEF Payment

\* A line of another party.
LEMMA PaymentNext ==
  ASSUME NEW lines, NEW w \in Wallet, NEW x, NEW r, Payment(lines, w, x, r),
         NEW l \in Exact, l \in Harmless, l.account # w, l.account # "platformOperatingCash"
  PROVE  Payment(Append(lines, l), w, x, r + l.amount)
  <1>1. lines \in Seq(LineType) /\ lines \in Seq(Exact) /\ Pays(lines, w, x) /\ r \in Int
    BY PaymentLines DEF Payment
  <1>2. l \in LineType /\ l \in Others(w) /\ l.amount \in Int /\ Even(l.amount)
    BY LineFacts DEF Exact, Others
  <1>3. Append(lines, l) \in Seq(Exact) /\ Pays(Append(lines, l), w, x)
    BY <1>1, <1>2, PaysAppend
  <1>4. toFixed(l.amount) = l.amount
    BY <1>2, ToFixedFacts
  <1>5. ReachedOn({w})[l] = l.amount
    BY <1>2, <1>4 DEF ReachedOn
  <1>6. Sum(Append(lines, l), ReachedOn({w})) = r + l.amount
    BY <1>1, <1>2, <1>5, SumAppend, WeightTypes DEF Payment
  <1>7. QED
    BY <1>3, <1>6 DEF Payment

\* A charge that has a line only if it is due.
LEMMA PaymentCharge ==
  ASSUME NEW lines, NEW w \in Wallet, NEW x, NEW r, Payment(lines, w, x, r),
         NEW a \in SystemAccount, a # "platformOperatingCash", NEW h, Even(h), h >= 0
  PROVE  Payment(lines \o CreditIfAny(a, h), w, x, r + h)
  <1>1. h \in Int /\ r \in Int /\ lines \in Seq(LineType)
    BY PaymentLines DEF Even
  <1>2. CASE h > 0
    <2>1. a \in Account /\ a \notin Wallet /\ a # w
      BY AccountFacts
    <2>2. /\ Credit(a, h) \in Exact /\ Credit(a, h) \in Harmless /\ Credit(a, h).account = a
          /\ Credit(a, h).amount = h
      BY <1>1, <2>1, HomeLine
    <2>3. Payment(Append(lines, Credit(a, h)), w, x, r + Credit(a, h).amount)
      BY <2>1, <2>2, PaymentNext
    <2>4. lines \o <<Credit(a, h)>> = Append(lines, Credit(a, h))
      BY <1>1
    <2>5. CreditIfAny(a, h) = <<Credit(a, h)>>
      BY <1>2 DEF CreditIfAny
    <2>6. QED
      BY <2>2, <2>3, <2>4, <2>5
  <1>3. CASE ~(h > 0)
    <2>1. CreditIfAny(a, h) = << >>
      BY <1>3 DEF CreditIfAny
    <2>2. h = 0 /\ r + h = r
      BY <1>1, <1>3
    <2>3. lines \o << >> = lines
      BY <1>1
    <2>4. QED
      BY <2>1, <2>2, <2>3
  <1>4. QED
    BY <1>2, <1>3

\* The balancing leg.
LEMMA PaymentBalanced ==
  ASSUME NEW lines, NEW w \in Wallet, NEW x, NEW r, Payment(lines, w, x, r)
  PROVE  Payment(Balanced(lines), w, x, r)
  <1>1. lines \in Seq(LineType) /\ lines \in Seq(Exact) /\ Pays(lines, w, x) /\ r \in Int
    BY PaymentLines DEF Payment
  <1>2. \/ Balanced(lines) = lines
        \/ \E l : IsPlug(l, "home") /\ Balanced(lines) = Append(lines, l)
    BY <1>1, AccountFacts, BalancingLeg DEF Balanced
  <1>3. ASSUME NEW l, IsPlug(l, "home")
        PROVE  Payment(Append(lines, l), w, x, r)
    <2>1. l \in LineType /\ l \in Exact /\ l \in Others(w)
      BY <1>3, PlugFacts DEF IsPlug
    <2>2. ReachedOn({w})[l] = 0
      BY <1>3, <2>1 DEF ReachedOn, IsPlug
    <2>3. Sum(Append(lines, l), ReachedOn({w})) = r
      BY <1>1, <2>1, <2>2, SumAppend, WeightTypes DEF Payment
    <2>4. Pays(Append(lines, l), w, x) /\ Append(lines, l) \in Seq(Exact)
      BY <1>1, <2>1, PaysAppend
    <2>5. QED
      BY <2>3, <2>4 DEF Payment
  <1>4. QED
    BY <1>2, <1>3

-----------------------------------------------------------------------------
(* What a handler hands to postJournalEntry().                             *)

\* A journal that takes nothing from a wallet, and one that takes one amount
\* from the wallet it checks and meters.
Giving(j) == j.lines \in Seq(Harmless) /\ j.check = {} /\ j.limits = {}
Paying(j) ==
  \E w \in Wallet, x \in Int :
    /\ Active(w)
    /\ Pays(j.lines, w, x)
    /\ j.check = {w} /\ j.limits = {[account |-> w, amount |-> toFixed(x)]}

\* The journal's part of each property.
BalanceOK(j) ==
  \/ StoredBalanced(j)
  \/ /\ j.type \in {"FEE_DEDUCTION_MONTHLY", "CASHBACK_CREDIT", "PROMOTIONAL_CREDIT"}
     /\ \E i \in DOMAIN j.lines : j.lines[i].amount % 2 = 1
MeteredOK(j) ==
  \A w \in Wallet, cur \in Currency :
    Loss(j, w, cur) > 0 /\ j.type # "ACCOUNT_CLOSURE_SWEEP" =>
      /\ w \in j.check
      /\ [account |-> w, amount |-> Loss(j, w, cur)] \in j.limits
ExactTypes  == {"P2P_TRANSFER", "MERCHANT_PAYMENT_QR", "BILL_PAYMENT", "NIP_TRANSFER", "USSD_TRANSFER"}
WithinTypes == {"MERCHANT_PAYMENT_ONLINE", "LOAN_EMI_PAYMENT"}
TransitOK(j) ==
  \A w \in j.check :
    /\ j.type \in ExactTypes => Loss(j, w, "home") = Reached(j)
    /\ j.type \in WithinTypes => Loss(j, w, "home") - Reached(j) \in {-2, 0, 2}

Sane(j) ==
  /\ j \in JournalType
  /\ BalanceOK(j) /\ TransitOK(j)
  /\ Giving(j) \/ Paying(j) \/ j.type = "ACCOUNT_CLOSURE_SWEEP"

\* What posting has checked.
LEMMA PostFacts ==
  ASSUME NEW j, Post(j)
  PROVE  Positive(j.lines) /\ Total(j.lines, "DEBIT") = Total(j.lines, "CREDIT")
  BY DEF Post, Positive

\* The fields of what a handler hands over.
LEMMA FundingFields ==
  ASSUME NEW type \in TransactionType, NEW lines \in Seq(LineType)
  PROVE  /\ Funding(type, lines) \in JournalType
         /\ Funding(type, lines).type = type /\ Funding(type, lines).lines = lines
         /\ Funding(type, lines).check = {} /\ Funding(type, lines).limits = {}
  BY DEF Funding, JournalType

\* The same of a spending transaction.
LEMMA SpendingFields ==
  ASSUME NEW type \in TransactionType, NEW lines \in Seq(LineType), NEW w \in Wallet, NEW total \in Int
  PROVE  /\ Spending(type, w, total, lines) \in JournalType
         /\ Spending(type, w, total, lines).type = type /\ Spending(type, w, total, lines).lines = lines
         /\ Spending(type, w, total, lines).check = {w}
         /\ Spending(type, w, total, lines).limits = {[account |-> w, amount |-> total]}
  <1>1. w \in Account
    BY AccountFacts
  <1>2. QED
    BY <1>1 DEF Spending, JournalType

\* A funding transaction whose lines take nothing and are on the grid.
LEMMA FundingSane ==
  ASSUME NEW type \in TransactionType, NEW lines \in Seq(Harmless \cap Exact),
         Post(Funding(type, lines))
  PROVE  \E j : Post(j) /\ Sane(j)
  <1> DEFINE j == Funding(type, lines)
  <1>1. lines \in Seq(LineType) /\ lines \in Seq(Harmless) /\ lines \in Seq(Exact)
    BY DEF Exact
  <1>2. /\ j \in JournalType /\ j.lines = lines
        /\ j.check = {} /\ j.limits = {}
    BY <1>1, FundingFields
  <1>3. Post(j)
    OBVIOUS
  <1> HIDE DEF j
  <1>4. StoredBalanced(j)
    BY <1>1, <1>2, <1>3, PostFacts, ExactBalanced
  <1>5. Sane(j)
    BY <1>1, <1>2, <1>4 DEF Sane, BalanceOK, TransitOK, Giving
  <1>6. QED
    BY <1>3, <1>5

\* A funding transaction that balances its lines.
LEMMA FundingBalancedSane ==
  ASSUME NEW type \in TransactionType, NEW lines \in Seq(Harmless \cap Exact),
         Post(Funding(type, Balanced(lines)))
  PROVE  \E j : Post(j) /\ Sane(j)
  <1>1. Harmless \cap Exact \subseteq LineType /\ \A l : IsPlug(l, "home") => l \in Harmless \cap Exact
    BY PlugFacts DEF Exact
  <1>2. Balanced(lines) \in Seq(Harmless \cap Exact)
    BY <1>1, BalancedIn
  <1>3. QED
    BY <1>2, FundingSane

\* A payment on the grid, of which all arrives or nearly all.
LEMMA PaymentSane ==
  ASSUME NEW type \in TransactionType, NEW w \in Wallet, Active(w), NEW x, Even(x), NEW r,
         NEW lines, Payment(lines, w, x, r),
         type \in ExactTypes => x = r, type \in WithinTypes => x - r \in {-2, 0, 2},
         Post(Spending(type, w, x, lines))
  PROVE  \E j : Post(j) /\ Sane(j)
  <1> DEFINE j == Spending(type, w, x, lines)
  <1>1. lines \in Seq(LineType) /\ lines \in Seq(Exact) /\ Pays(lines, w, x) /\ x \in Int /\ toFixed(x) = x
    <2>1. x \in Int
      BY DEF Even
    <2>2. QED
      BY <2>1, PaymentLines, ToFixedFacts DEF Payment
  <1>2. /\ j \in JournalType /\ j.lines = lines /\ j.type = type
        /\ j.check = {w} /\ j.limits = {[account |-> w, amount |-> x]}
    BY <1>1, SpendingFields
  <1>3. Post(j)
    OBVIOUS
  <1> HIDE DEF j
  <1>4. StoredBalanced(j)
    BY <1>1, <1>2, <1>3, PostFacts, ExactBalanced
  <1>5. Paying(j)
    BY <1>1, <1>2 DEF Paying
  <1>6. Loss(j, w, "home") = x
    <2>1. Effect(lines, w, "home") = -x
      BY <1>1, <1>2, <1>3, PostFacts, PaymentEffect
    <2>2. QED
      BY <1>1, <1>2, <2>1 DEF Loss
  <1>7. Reached(j) = r
    BY <1>1, <1>2, ReachedIsSum DEF Payment
  <1>8. TransitOK(j)
    BY <1>2, <1>6, <1>7 DEF TransitOK
  <1>9. QED
    BY <1>2, <1>3, <1>4, <1>5, <1>8 DEF Sane, BalanceOK

-----------------------------------------------------------------------------
(* Handlers whose journal takes nothing from a wallet.                     *)

\* Lines of such a journal.
LEMMA GivingLine ==
  ASSUME NEW h, Even(h)
  PROVE  /\ \A a \in Account : Debit(a, h) \in Harmless \cap Exact
         /\ \A a \in SystemAccount : Debit(a, h) \in Harmless \cap Exact /\ Credit(a, h) \in Harmless \cap Exact
  <1>1. h \in Int
    BY DEF Even
  <1>2. \A a \in SystemAccount : a \in Account /\ a \notin Wallet
    BY AccountFacts
  <1>3. QED
    BY <1>1, <1>2, HomeLine

\* What the client's amounts are.
LEMMA InputFacts ==
  /\ \A h \in Amount : h \in Int
  /\ \A h \in SmallAmount : h \in Int
  /\ \A r \in Rate : r[1] \in Nat /\ r[2] \in Nat \ {0}
  /\ \A d \in Days : d \in Nat
  /\ \A p \in Points : p \in Nat
  /\ \A w \in Wallet : w \in Account
  BY ScaleAssumption, AccountFacts

\* CUSTOMER_DEPOSIT_CARD posts a sane journal: rows on the grid, none against a wallet.
LEMMA DepositCardSane ==
  ASSUME NEW w \in Wallet, NEW h \in Int, DepositCard(w, h)
  PROVE  \E j : Post(j) /\ Sane(j)
  <1> DEFINE fee == Share(h, 9, 500)
             lines == <<Debit(w, toFixed(h)), Credit("liability", toFixed(h)),
                        Debit("gatewayExpense", fee), Credit("merchantPayable", fee)>>
  <1>1. Post(Funding("CUSTOMER_DEPOSIT_CARD", lines))
    BY DEF DepositCard
  <1>2. Even(toFixed(h)) /\ Even(fee)
    BY ToFixedFacts, ShareFacts
  <1>3. w \in Account /\ {"liability", "gatewayExpense", "merchantPayable"} \subseteq SystemAccount
    BY AccountFacts DEF SystemAccount
  <1>4. /\ Debit(w, toFixed(h)) \in Harmless \cap Exact
        /\ Credit("liability", toFixed(h)) \in Harmless \cap Exact
        /\ Debit("gatewayExpense", fee) \in Harmless \cap Exact
        /\ Credit("merchantPayable", fee) \in Harmless \cap Exact
    BY <1>2, <1>3, GivingLine
  <1>5. lines \in Seq(Harmless \cap Exact) /\ "CUSTOMER_DEPOSIT_CARD" \in TransactionType
    BY <1>4 DEF TransactionType
  <1>6. QED
    BY <1>1, <1>5, FundingSane

\* REWARD_REDEMPTION posts a sane journal: rows on the grid, none against a wallet.
LEMMA RewardRedemptionSane ==
  ASSUME NEW w \in Wallet, NEW points \in Nat, RewardRedemption(w, points)
  PROVE  \E j : Post(j) /\ Sane(j)
  <1> DEFINE value == Share(points * One, 1, 4)
             lines == <<Debit("rewardsLiability", value), Debit(w, value)>>
  <1>1. Post(Funding("REWARD_REDEMPTION", Balanced(lines)))
    BY DEF RewardRedemption
  <1>2. Even(value)
    <2>1. points * One \in Int
      BY UnitFacts
    <2>2. QED
      BY <2>1, ShareFacts
  <1>3. w \in Account /\ "rewardsLiability" \in SystemAccount
    BY AccountFacts DEF SystemAccount
  <1>4. Debit("rewardsLiability", value) \in Harmless \cap Exact /\ Debit(w, value) \in Harmless \cap Exact
    BY <1>2, <1>3, GivingLine
  <1>5. lines \in Seq(Harmless \cap Exact) /\ "REWARD_REDEMPTION" \in TransactionType
    BY <1>4 DEF TransactionType
  <1>6. QED
    BY <1>1, <1>5, FundingBalancedSane

\* INTEREST_ACCRUAL posts a sane journal: rows on the grid, none against a wallet.
LEMMA InterestAccrualSane ==
  ASSUME NEW h \in Int, NEW rate \in Rate, InterestAccrual(h, rate)
  PROVE  \E j : Post(j) /\ Sane(j)
  <1> DEFINE daily == Share(h, rate[1], rate[2] * 365)
             lines == <<Debit("interestExpense", daily), Credit("interestPayable", daily)>>
  <1>1. Post(Funding("INTEREST_ACCRUAL", lines))
    BY DEF InterestAccrual
  <1>2. Even(daily)
    <2>1. rate[1] \in Int /\ rate[2] * 365 \in Nat \ {0}
      BY InputFacts
    <2>2. QED
      BY <2>1, ShareFacts
  <1>3. {"interestExpense", "interestPayable"} \subseteq SystemAccount
    BY DEF SystemAccount
  <1>4. /\ Debit("interestExpense", daily) \in Harmless \cap Exact
        /\ Credit("interestPayable", daily) \in Harmless \cap Exact
    BY <1>2, <1>3, GivingLine
  <1>5. lines \in Seq(Harmless \cap Exact) /\ "INTEREST_ACCRUAL" \in TransactionType
    BY <1>4 DEF TransactionType
  <1>6. QED
    BY <1>1, <1>5, FundingSane

\* INTEREST_PAYOUT posts a sane journal: rows on the grid, none against a wallet.
LEMMA InterestPayoutSane ==
  ASSUME NEW w \in Wallet, NEW h \in Int, InterestPayout(w, h)
  PROVE  \E j : Post(j) /\ Sane(j)
  <1> DEFINE tds == Share(h, 1, 10)
             lines == <<Debit("interestPayable", toFixed(h)), Debit(w, toFixed(h - tds)),
                        Credit("tdsPayable", tds)>>
  <1>1. Post(Funding("INTEREST_PAYOUT", Balanced(lines)))
    BY DEF InterestPayout
  <1>2. Even(toFixed(h)) /\ Even(tds) /\ Even(toFixed(h - tds))
    <2>1. tds \in Int /\ Even(tds)
      BY ShareFacts
    <2>2. h - tds \in Int
      BY <2>1
    <2>3. QED
      BY <2>1, <2>2, ToFixedFacts
  <1>3. w \in Account /\ {"interestPayable", "tdsPayable"} \subseteq SystemAccount
    BY AccountFacts DEF SystemAccount
  <1>4. /\ Debit("interestPayable", toFixed(h)) \in Harmless \cap Exact
        /\ Debit(w, toFixed(h - tds)) \in Harmless \cap Exact
        /\ Credit("tdsPayable", tds) \in Harmless \cap Exact
    BY <1>2, <1>3, GivingLine
  <1>5. lines \in Seq(Harmless \cap Exact) /\ "INTEREST_PAYOUT" \in TransactionType
    BY <1>4 DEF TransactionType
  <1>6. QED
    BY <1>1, <1>5, FundingBalancedSane

\* LOAN_DISBURSEMENT posts a sane journal: rows on the grid, none against a wallet.
LEMMA LoanDisbursementSane ==
  ASSUME NEW w \in Wallet, NEW h \in Int, LoanDisbursement(w, h)
  PROVE  \E j : Post(j) /\ Sane(j)
  <1> DEFINE fee == Share(h, 1, 100)
             lines == <<Debit(w, toFixed(h - fee)), Debit("gatewayExpense", fee),
                        Credit("loanReceivable", toFixed(h))>>
  <1>1. Post(Funding("LOAN_DISBURSEMENT", lines))
    BY DEF LoanDisbursement
  <1>2. Even(toFixed(h)) /\ Even(fee) /\ Even(toFixed(h - fee))
    <2>1. fee \in Int /\ Even(fee)
      BY ShareFacts
    <2>2. h - fee \in Int
      BY <2>1
    <2>3. QED
      BY <2>1, <2>2, ToFixedFacts
  <1>3. w \in Account /\ {"gatewayExpense", "loanReceivable"} \subseteq SystemAccount
    BY AccountFacts DEF SystemAccount
  <1>4. /\ Debit(w, toFixed(h - fee)) \in Harmless \cap Exact
        /\ Debit("gatewayExpense", fee) \in Harmless \cap Exact
        /\ Credit("loanReceivable", toFixed(h)) \in Harmless \cap Exact
    BY <1>2, <1>3, GivingLine
  <1>5. lines \in Seq(Harmless \cap Exact) /\ "LOAN_DISBURSEMENT" \in TransactionType
    BY <1>4 DEF TransactionType
  <1>6. QED
    BY <1>1, <1>5, FundingSane

\* REFUND_FULL posts a sane journal: rows on the grid, none against a wallet.
LEMMA RefundFullSane ==
  ASSUME NEW w \in Wallet, NEW h \in Int, NEW fee \in Int, RefundFull(w, h, fee)
  PROVE  \E j : Post(j) /\ Sane(j)
  <1> DEFINE lines == <<Debit(w, toFixed(h + fee)), Credit("merchant", toFixed(h)),
                        Debit("feeRevenue", toFixed(fee))>>
  <1>1. Post(Funding("REFUND_FULL", Balanced(lines)))
    BY DEF RefundFull
  <1>2. Even(toFixed(h)) /\ Even(toFixed(fee)) /\ Even(toFixed(h + fee))
    <2>1. h + fee \in Int
      OBVIOUS
    <2>2. QED
      BY <2>1, ToFixedFacts
  <1>3. w \in Account /\ {"merchant", "feeRevenue"} \subseteq SystemAccount
    BY AccountFacts DEF SystemAccount
  <1>4. /\ Debit(w, toFixed(h + fee)) \in Harmless \cap Exact
        /\ Credit("merchant", toFixed(h)) \in Harmless \cap Exact
        /\ Debit("feeRevenue", toFixed(fee)) \in Harmless \cap Exact
    BY <1>2, <1>3, GivingLine
  <1>5. lines \in Seq(Harmless \cap Exact) /\ "REFUND_FULL" \in TransactionType
    BY <1>4 DEF TransactionType
  <1>6. QED
    BY <1>1, <1>5, FundingBalancedSane

\* REFUND_PARTIAL posts a sane journal: rows on the grid, none against a wallet.
LEMMA RefundPartialSane ==
  ASSUME NEW w \in Wallet, NEW refund \in Int, NEW original \in Int, NEW fee \in Int,
         NEW policy \in FeePolicy, NEW up \in BOOLEAN, RefundPartial(w, refund, original, fee, policy, up)
  PROVE  \E j : Post(j) /\ Sane(j)
  <1> DEFINE back == CASE policy = "FULL"         -> fee
                       [] policy = "NONE"         -> 0
                       [] policy = "PROPORTIONAL" -> ShareNumber(refund * fee, 1, original, up)
             base == <<Debit(w, toFixed(refund + back)), Credit("merchant", toFixed(refund))>>
             lines == base \o (IF back > 0 THEN <<Debit("feeRevenue", toFixed(back))>> ELSE << >>)
  <1>1. Post(Funding("REFUND_PARTIAL", Balanced(lines))) /\ refund > 0 /\ refund <= original
    BY DEF RefundPartial
  <1>2. back \in Int
    <2>1. original \in Nat \ {0} /\ refund * fee \in Int
      BY <1>1
    <2>2. ShareNumber(refund * fee, 1, original, up) \in Int
      BY <2>1, ShareNumberFacts
    <2>3. QED
      BY <2>2 DEF FeePolicy
  <1> HIDE DEF back
  <1>3. Even(toFixed(refund)) /\ Even(toFixed(back)) /\ Even(toFixed(refund + back))
    <2>1. refund + back \in Int
      BY <1>2
    <2>2. QED
      BY <1>2, <2>1, ToFixedFacts
  <1>4. w \in Account /\ {"merchant", "feeRevenue"} \subseteq SystemAccount
    BY AccountFacts DEF SystemAccount
  <1>5. /\ Debit(w, toFixed(refund + back)) \in Harmless \cap Exact
        /\ Credit("merchant", toFixed(refund)) \in Harmless \cap Exact
        /\ Debit("feeRevenue", toFixed(back)) \in Harmless \cap Exact
    BY <1>3, <1>4, GivingLine
  <1>6. base \in Seq(Harmless \cap Exact) /\ (back > 0) \in BOOLEAN
    BY <1>5
  <1>7. lines \in Seq(Harmless \cap Exact)
    <2> HIDE DEF base
    <2> QED BY <1>5, <1>6, OneMoreIn
  <1>8. "REFUND_PARTIAL" \in TransactionType
    BY DEF TransactionType
  <1>9. QED
    <2> HIDE DEF lines
    <2> QED BY <1>1, <1>7, <1>8, FundingBalancedSane

\* CHARGEBACK posts a sane journal: rows on the grid, none against a wallet.
LEMMA ChargebackSane ==
  ASSUME NEW w \in Wallet, NEW h \in Int, Chargeback(w, h)
  PROVE  \E j : Post(j) /\ Sane(j)
  <1> DEFINE fee == 500 * One
             lines == <<Credit("merchant", toFixed(h + fee)), Debit(w, toFixed(h)),
                        Credit("chargebackFeeRevenue", fee)>>
  <1>1. Post(Funding("CHARGEBACK", Balanced(lines)))
    BY DEF Chargeback
  <1>2. Even(toFixed(h)) /\ Even(fee) /\ Even(toFixed(h + fee))
    <2>1. Even(fee)
      BY UnitFacts
    <2>2. h + fee \in Int
      BY <2>1 DEF Even
    <2>3. QED
      BY <2>1, <2>2, ToFixedFacts
  <1>3. w \in Account /\ {"merchant", "chargebackFeeRevenue"} \subseteq SystemAccount
    BY AccountFacts DEF SystemAccount
  <1>4. /\ Credit("merchant", toFixed(h + fee)) \in Harmless \cap Exact
        /\ Debit(w, toFixed(h)) \in Harmless \cap Exact
        /\ Credit("chargebackFeeRevenue", fee) \in Harmless \cap Exact
    <2> HIDE DEF fee
    <2> QED BY <1>2, <1>3, GivingLine
  <1>5. lines \in Seq(Harmless \cap Exact) /\ "CHARGEBACK" \in TransactionType
    BY <1>4 DEF TransactionType
  <1>6. QED
    BY <1>1, <1>5, FundingBalancedSane

-----------------------------------------------------------------------------
(* Handlers that pass the client's amount on, and the closure sweep.       *)

\* Two rows of the same amount balance however it is rounded.
LEMMA TwoRows ==
  ASSUME NEW a \in Account, NEW b \in Account, NEW h \in Int,
         NEW j, j.lines = <<Debit(a, h), Credit(b, h)>>
  PROVE  StoredBalanced(j) /\ j.lines \in Seq(LineType)
  <1> DEFINE d == Debit(a, h)
             c == Credit(b, h)
  <1>1. /\ d \in LineType /\ d.currency = "home" /\ d.entryType = "DEBIT" /\ d.amount = h
        /\ c \in LineType /\ c.currency = "home" /\ c.entryType = "CREDIT" /\ c.amount = h
    BY HomeLine DEF Harmless
  <1>2. toFixed(h) \in Int
    BY ToFixedFacts
  <1>3. j.lines = <<d, c>> /\ <<d, c>> \in Seq(LineType)
    BY <1>1
  <1> HIDE DEF d, c
  <1>4. ASSUME NEW cur, NEW side
        PROVE  StoredTotal(j, cur, side) = StoredOn(cur, side)[d] + StoredOn(cur, side)[c]
    <2>1. StoredTotal(j, cur, side) = Sum(<<d, c>>, StoredOn(cur, side))
      BY <1>3, StoredTotalIsSum
    <2>2. StoredOn(cur, side) \in Weight
      BY WeightTypes
    <2>3. QED
      BY <1>1, <2>1, <2>2, SumShort
  <1>5. ASSUME NEW cur
        PROVE  StoredOn(cur, "DEBIT")[d] + StoredOn(cur, "DEBIT")[c]
               = StoredOn(cur, "CREDIT")[d] + StoredOn(cur, "CREDIT")[c]
    BY <1>1, <1>2 DEF StoredOn
  <1>6. QED
    BY <1>3, <1>4, <1>5 DEF StoredBalanced

\* CUSTOMER_DEPOSIT_BANK posts a sane journal, though its amount is not
\* rounded: both rows are rounded alike.
LEMMA DepositBankSane ==
  ASSUME NEW w \in Wallet, NEW h \in Int, DepositBank(w, h)
  PROVE  \E j : Post(j) /\ Sane(j)
  <1> DEFINE lines == <<Debit(w, h), Credit("liability", h)>>
             j == Funding("CUSTOMER_DEPOSIT_BANK", lines)
  <1>1. Post(j)
    BY DEF DepositBank
  <1>2. w \in Account /\ "liability" \in Account /\ "liability" \notin Wallet
    BY AccountFacts DEF SystemAccount
  <1>3. Debit(w, h) \in Harmless /\ Credit("liability", h) \in Harmless
    BY <1>2, HomeLine
  <1>4. lines \in Seq(Harmless) /\ lines \in Seq(LineType)
    BY <1>3 DEF Harmless
  <1>5. "CUSTOMER_DEPOSIT_BANK" \in TransactionType
    BY DEF TransactionType
  <1>6. j \in JournalType /\ j.lines = lines /\ j.check = {} /\ j.limits = {}
    BY <1>4, <1>5, FundingFields
  <1> HIDE DEF j
  <1>7. StoredBalanced(j)
    BY <1>2, <1>6, TwoRows
  <1>8. Sane(j)
    BY <1>4, <1>6, <1>7 DEF Sane, BalanceOK, TransitOK, Giving
  <1>9. QED
    BY <1>1, <1>8

\* CUSTOMER_WITHDRAWAL_BANK posts a sane journal: it takes from the wallet it
\* has checked what it has metered.
LEMMA WithdrawalSane ==
  ASSUME NEW w \in Wallet, NEW h \in Int, Withdrawal(w, h)
  PROVE  \E j : Post(j) /\ Sane(j)
  <1> DEFINE lines == <<Debit("liability", h), Credit(w, h)>>
             j == Spending("CUSTOMER_WITHDRAWAL_BANK", w, toFixed(h), lines)
  <1>1. Post(j) /\ Active(w)
    BY DEF Withdrawal
  <1>2. w \in Account /\ "liability" \in Account /\ "liability" # w
    BY AccountFacts DEF SystemAccount
  <1>3. /\ Debit("liability", h) \in Others(w) /\ Debit("liability", h).account = "liability"
        /\ Credit(w, h) \in LineType
    BY <1>2, HomeLine
  <1>4. lines \in Seq(LineType) /\ DOMAIN lines = {1, 2} /\ lines[1] = Debit("liability", h) /\ lines[2] = Credit(w, h)
    BY <1>3 DEF Others, Harmless
  <1>5. Pays(lines, w, h)
    <2> HIDE DEF lines
    <2>1. \A k \in DOMAIN lines \ {2} : k = 1
      BY <1>4
    <2>2. \A k \in 1 .. 2 - 1 : k = 1
      OBVIOUS
    <2>3. QED
      BY <1>2, <1>3, <1>4, <2>1, <2>2 DEF Pays
  <1>6. "CUSTOMER_WITHDRAWAL_BANK" \in TransactionType
    BY DEF TransactionType
  <1>7. /\ j \in JournalType /\ j.lines = lines /\ j.check = {w} /\ j.type = "CUSTOMER_WITHDRAWAL_BANK"
        /\ j.limits = {[account |-> w, amount |-> toFixed(h)]}
    <2>1. toFixed(h) \in Int
      BY ToFixedFacts
    <2> HIDE DEF lines
    <2> QED BY <1>4, <1>6, <2>1, SpendingFields
  <1> HIDE DEF j
  <1>8. StoredBalanced(j)
    BY <1>2, <1>7, TwoRows
  <1>9. Paying(j)
    BY <1>1, <1>5, <1>7 DEF Paying
  <1>10. TransitOK(j)
    BY <1>7 DEF TransitOK, ExactTypes, WithinTypes
  <1>11. QED
    BY <1>1, <1>7, <1>8, <1>9, <1>10 DEF Sane, BalanceOK

\* ACCOUNT_CLOSURE_SWEEP posts a balanced journal.
LEMMA AccountClosureSane ==
  ASSUME NEW w \in Wallet, NEW h \in Int, AccountClosure(w, h)
  PROVE  \E j : Post(j) /\ Sane(j)
  <1> DEFINE lines == <<Debit("liability", toFixed(h)), Credit(w, toFixed(h))>>
             j == Funding("ACCOUNT_CLOSURE_SWEEP", lines)
  <1>1. Post(j)
    BY DEF AccountClosure
  <1>2. w \in Account /\ "liability" \in Account /\ toFixed(h) \in Int
    BY AccountFacts, ToFixedFacts DEF SystemAccount
  <1>3. Debit("liability", toFixed(h)) \in LineType /\ Credit(w, toFixed(h)) \in LineType
    BY <1>2, HomeLine DEF Harmless
  <1>4. lines \in Seq(LineType) /\ "ACCOUNT_CLOSURE_SWEEP" \in TransactionType
    BY <1>3 DEF TransactionType
  <1>5. /\ j \in JournalType /\ j.lines = lines /\ j.check = {}
        /\ j.type = "ACCOUNT_CLOSURE_SWEEP"
    BY <1>4, FundingFields
  <1> HIDE DEF j
  <1>6. StoredBalanced(j)
    BY <1>2, <1>5, TwoRows
  <1>7. Sane(j)
    BY <1>5, <1>6 DEF Sane, BalanceOK, TransitOK
  <1>8. QED
    BY <1>1, <1>7

\* Two lines with the client's amount and their plug are stored balanced,
\* or the amount is off the grid.
LEMMA RawAmounts ==
  ASSUME NEW a \in LineType, NEW b \in LineType, a.currency = "home", b.currency = "home",
         a.amount = b.amount, NEW j, j.lines = Balanced(<<a, b>>),
         j.type \in {"FEE_DEDUCTION_MONTHLY", "CASHBACK_CREDIT", "PROMOTIONAL_CREDIT"}, Post(j)
  PROVE  BalanceOK(j)
  <1> DEFINE two == <<a, b>>
  <1>1. a.amount \in Int /\ two \in Seq(LineType) /\ DOMAIN two = {1, 2} /\ two[1] = a
    BY LineFacts
  <1>2. CASE Even(a.amount)
    <2>1. Exact \subseteq LineType /\ \A l : IsPlug(l, "home") => l \in Exact
      BY PlugFacts DEF Exact
    <2>2. two \in Seq(Exact)
      BY <1>2 DEF Exact
    <2>3. Balanced(two) \in Seq(Exact)
      <3> HIDE DEF two
      <3> QED BY <2>1, <2>2, BalancedIn
    <2>4. QED
      BY <2>3, PostFacts, ExactBalanced DEF BalanceOK
  <1>3. CASE ~Even(a.amount)
    <2>1. a.amount % 2 = 1
      BY <1>1, <1>3 DEF Even
    <2>2. \/ Balanced(two) = two
          \/ \E l : IsPlug(l, "home") /\ Balanced(two) = Append(two, l)
      <3> HIDE DEF two
      <3> QED BY <1>1, AccountFacts, BalancingLeg DEF Balanced
    <2>3. 1 \in DOMAIN Balanced(two) /\ Balanced(two)[1] = a
      <3>1. \A l : 1 \in DOMAIN Append(two, l) /\ Append(two, l)[1] = a
        OBVIOUS
      <3>2. QED
        BY <1>1, <2>2, <3>1
    <2>4. QED
      BY <2>1, <2>3 DEF BalanceOK
  <1>4. QED
    BY <1>2, <1>3

\* FEE_DEDUCTION_MONTHLY takes from the wallet it has checked what it has
\* metered; its rows balance unless the amount is off the grid.
LEMMA FeeDeductionSane ==
  ASSUME NEW w \in Wallet, NEW h \in Int, FeeDeduction(w, h)
  PROVE  \E j : Post(j) /\ Sane(j)
  <1> DEFINE a == Credit(w, h)
             b == Credit("feeRevenue", h)
             lines == Balanced(<<a, b>>)
             j == Spending("FEE_DEDUCTION_MONTHLY", w, toFixed(h), lines)
  <1>1. Post(j) /\ Active(w)
    BY DEF FeeDeduction
  <1>2. w \in Account /\ "feeRevenue" \in Account /\ "feeRevenue" # w /\ "feeRevenue" \notin Wallet
    BY AccountFacts DEF SystemAccount
  <1>3. /\ a \in LineType /\ b \in LineType /\ a.currency = "home" /\ b.currency = "home"
        /\ a.amount = b.amount /\ b \in Others(w)
    BY <1>2, HomeLine
  <1>4. <<a, b>> \in Seq(LineType) /\ DOMAIN <<a, b>> = {1, 2} /\ <<a, b>>[1] = a /\ <<a, b>>[2] = b
    BY <1>3
  <1>5. Pays(<<a, b>>, w, h)
    <2>1. \A k \in DOMAIN <<a, b>> \ {1} : <<a, b>>[k] \in Others(w)
      BY <1>3, <1>4
    <2>2. 1 .. 1 - 1 = {}
      OBVIOUS
    <2>3. QED
      BY <1>4, <2>1, <2>2 DEF Pays
  <1>6. Pays(lines, w, h) /\ lines \in Seq(LineType)
    BY <1>4, <1>5, PaysBalanced
  <1>7. "FEE_DEDUCTION_MONTHLY" \in TransactionType /\ toFixed(h) \in Int
    BY ToFixedFacts DEF TransactionType
  <1>8. /\ j \in JournalType /\ j.lines = lines /\ j.check = {w} /\ j.type = "FEE_DEDUCTION_MONTHLY"
        /\ j.limits = {[account |-> w, amount |-> toFixed(h)]}
    <2> HIDE DEF lines
    <2> QED BY <1>6, <1>7, SpendingFields
  <1> HIDE DEF j
  <1>9. BalanceOK(j)
    <2> HIDE DEF a, b
    <2> QED BY <1>1, <1>3, <1>8, RawAmounts
  <1>10. Paying(j)
    BY <1>1, <1>6, <1>8 DEF Paying
  <1>11. TransitOK(j)
    BY <1>8 DEF TransitOK, ExactTypes, WithinTypes
  <1>12. QED
    BY <1>1, <1>8, <1>9, <1>10, <1>11 DEF Sane

\* CASHBACK_CREDIT and PROMOTIONAL_CREDIT take nothing from a wallet; their
\* rows balance unless the amount is off the grid.
LEMMA CreditSane ==
  ASSUME NEW w \in Wallet, NEW h \in Int, NEW type \in {"CASHBACK_CREDIT", "PROMOTIONAL_CREDIT"},
         Post(Funding(type, Balanced(<<Debit("cashbackExpense", h), Debit(w, h)>>)))
  PROVE  \E j : Post(j) /\ Sane(j)
  <1> DEFINE a == Debit("cashbackExpense", h)
             b == Debit(w, h)
             lines == Balanced(<<a, b>>)
             j == Funding(type, lines)
  <1>1. Post(j)
    OBVIOUS
  <1>2. w \in Account /\ "cashbackExpense" \in Account
    BY AccountFacts DEF SystemAccount
  <1>3. /\ a \in Harmless /\ b \in Harmless /\ a.currency = "home" /\ b.currency = "home"
        /\ a.amount = b.amount
    BY <1>2, HomeLine
  <1>4. a \in LineType /\ b \in LineType /\ <<a, b>> \in Seq(Harmless)
    BY <1>3 DEF Harmless
  <1>5. lines \in Seq(Harmless) /\ lines \in Seq(LineType)
    <2>1. Harmless \subseteq LineType /\ \A l : IsPlug(l, "home") => l \in Harmless
      BY DEF Harmless, IsPlug
    <2>2. lines \in Seq(Harmless)
      <3> HIDE DEF a, b
      <3> QED BY <1>4, <2>1, BalancedIn
    <2>3. QED
      BY <2>1, <2>2
  <1>6. type \in TransactionType
    BY DEF TransactionType
  <1>7. j \in JournalType /\ j.lines = lines /\ j.check = {} /\ j.limits = {} /\ j.type = type
    <2> HIDE DEF lines
    <2> QED BY <1>5, <1>6, FundingFields
  <1> HIDE DEF j
  <1>8. BalanceOK(j)
    <2> HIDE DEF a, b
    <2> QED BY <1>1, <1>3, <1>4, <1>7, RawAmounts
  <1>9. Sane(j)
    BY <1>5, <1>7, <1>8 DEF Sane, TransitOK, Giving
  <1>10. QED
    BY <1>1, <1>9

-----------------------------------------------------------------------------
(* Payments.                                                               *)

\* A share of a positive amount is not negative.
LEMMA ShareNotNegative ==
  ASSUME NEW h \in Nat, NEW n \in Nat, NEW d \in Nat \ {0}
  PROVE  Share(h, n, d) >= 0
  <1> DEFINE k == h * n + d
             m == 2 * d
  <1>1. k \in Nat /\ m \in Nat \ {0}
    OBVIOUS
  <1>2. k \div m \in Nat
    <2> HIDE DEF k, m
    <2> QED BY <1>1
  <1>3. 2 * (k \div m) >= 0
    <2> HIDE DEF k, m
    <2> QED BY <1>2
  <1>4. QED
    BY <1>3 DEF Share

\* A list, line by line.
LEMMA ShortLists ==
  ASSUME NEW a \in LineType, NEW b \in LineType, NEW c \in LineType
  PROVE  /\ <<a>> \in Seq(LineType) /\ <<a, b>> \in Seq(LineType)
         /\ <<a, b>> = Append(<<a>>, b) /\ <<a, b, c>> = Append(<<a, b>>, c)
  OBVIOUS

\* The payer, and two other parties.
LEMMA PaymentOfThree ==
  ASSUME NEW w \in Wallet, NEW x, Even(x),
         NEW b \in Exact, b \in Harmless, b.account # w, b.account # "platformOperatingCash",
         NEW c \in Exact, c \in Harmless, c.account # w, c.account # "platformOperatingCash"
  PROVE  Payment(<<Credit(w, x), b, c>>, w, x, b.amount + c.amount)
  <1>1. Payment(Append(<<Credit(w, x)>>, b), w, x, 0 + b.amount)
    BY PaymentFirst, PaymentNext
  <1>2. b.amount \in Int /\ b \in LineType /\ c \in LineType /\ Credit(w, x) \in LineType
    BY AccountFacts, HomeLine DEF Exact, Even
  <1>3. <<Credit(w, x), b>> = Append(<<Credit(w, x)>>, b) /\ 0 + b.amount = b.amount
    BY <1>2, ShortLists
  <1>4. Payment(Append(<<Credit(w, x), b>>, c), w, x, b.amount + c.amount)
    BY <1>1, <1>3, PaymentNext
  <1>5. <<Credit(w, x), b, c>> = Append(<<Credit(w, x), b>>, c)
    BY <1>2, ShortLists
  <1>6. QED
    BY <1>4, <1>5

\* Payer, payee and a fee.
LEMMA PaymentWithFee ==
  ASSUME NEW w \in Wallet, NEW x, Even(x), NEW p \in Account, p # w, p # "platformOperatingCash",
         NEW y, Even(y), NEW f, Even(f)
  PROVE  Payment(<<Credit(w, x), Debit(p, y), Credit("feeRevenue", f)>>, w, x, y + f)
  <1>1. /\ "feeRevenue" \in Account /\ "feeRevenue" \notin Wallet /\ "feeRevenue" # w
        /\ "feeRevenue" # "platformOperatingCash" /\ y \in Int /\ f \in Int
    BY AccountFacts DEF SystemAccount, Even
  <1>2. /\ Debit(p, y) \in Exact /\ Debit(p, y) \in Harmless /\ Debit(p, y).account = p
        /\ Debit(p, y).amount = y
    BY <1>1, HomeLine
  <1>3. /\ Credit("feeRevenue", f) \in Exact /\ Credit("feeRevenue", f) \in Harmless
        /\ Credit("feeRevenue", f).account = "feeRevenue" /\ Credit("feeRevenue", f).amount = f
    BY <1>1, HomeLine
  <1>4. Payment(<<Credit(w, x), Debit(p, y), Credit("feeRevenue", f)>>, w, x,
                Debit(p, y).amount + Credit("feeRevenue", f).amount)
    BY <1>1, <1>2, <1>3, PaymentOfThree
  <1>5. QED
    BY <1>2, <1>3, <1>4

\* The three payments that add a fee on the grid to the amount post a sane
\* journal: the payer loses the stored amount and the fee.
LEMMA FeeOnTopSane ==
  ASSUME NEW type \in {"P2P_TRANSFER", "MERCHANT_PAYMENT_QR", "BILL_PAYMENT"},
         NEW w \in Wallet, Active(w), NEW p \in Account, p # w, p # "platformOperatingCash",
         NEW h \in Int, NEW fee, Even(fee),
         Post(Spending(type, w, toFixed(h + fee),
                Balanced(<<Credit(w, toFixed(h + fee)), Debit(p, toFixed(h)), Credit("feeRevenue", fee)>>)))
  PROVE  \E j : Post(j) /\ Sane(j)
  <1> DEFINE x == toFixed(h + fee)
             y == toFixed(h)
             lines == <<Credit(w, x), Debit(p, y), Credit("feeRevenue", fee)>>
  <1>1. h + fee \in Int
    BY DEF Even
  <1>2. Even(x) /\ Even(y) /\ x = y + fee
    BY <1>1, ToFixedFacts, ToFixedPlus
  <1>3. Post(Spending(type, w, x, Balanced(lines)))
    OBVIOUS
  <1> HIDE DEF x, y
  <1>4. Payment(lines, w, x, y + fee)
    BY <1>2, PaymentWithFee
  <1> HIDE DEF lines
  <1>5. Payment(Balanced(lines), w, x, y + fee)
    BY <1>4, PaymentBalanced
  <1>6. type \in TransactionType /\ type \notin WithinTypes
    BY DEF TransactionType, WithinTypes
  <1>7. QED
    BY <1>2, <1>3, <1>5, <1>6, PaymentSane

\* P2P_TRANSFER: sender and receiver are different wallets.
LEMMA P2pTransferSane ==
  ASSUME NEW s \in Wallet, NEW r \in Wallet, NEW h \in Int, P2pTransfer(s, r, h)
  PROVE  \E j : Post(j) /\ Sane(j)
  <1> DEFINE fee == 10 * One
  <1>1. /\ Active(s) /\ s # r
        /\ Post(Spending("P2P_TRANSFER", s, toFixed(h + fee),
                  Balanced(<<Credit(s, toFixed(h + fee)), Debit(r, toFixed(h)), Credit("feeRevenue", fee)>>)))
    BY DEF P2pTransfer
  <1>2. Even(fee)
    BY UnitFacts
  <1>3. r \in Account /\ r # "platformOperatingCash"
    BY AccountFacts
  <1> HIDE DEF fee
  <1>4. QED
    BY <1>1, <1>2, <1>3, FeeOnTopSane

\* MERCHANT_PAYMENT_QR: the fee is a share of the price, at least one unit.
LEMMA MerchantPaymentQrSane ==
  ASSUME NEW w \in Wallet, NEW h \in Int, MerchantPaymentQr(w, h)
  PROVE  \E j : Post(j) /\ Sane(j)
  <1> DEFINE fee == AtLeast(Share(h, 1, 200), One)
  <1>1. /\ Active(w)
        /\ Post(Spending("MERCHANT_PAYMENT_QR", w, toFixed(h + fee),
                  Balanced(<<Credit(w, toFixed(h + fee)), Debit("merchant", toFixed(h)), Credit("feeRevenue", fee)>>)))
    BY DEF MerchantPaymentQr
  <1>2. Even(fee)
    <2>1. Even(Share(h, 1, 200)) /\ Even(One)
      BY ShareFacts, UnitFacts
    <2>2. fee \in {Share(h, 1, 200), One}
      BY DEF AtLeast
    <2>3. QED
      BY <2>1, <2>2
  <1>3. "merchant" \in Account /\ "merchant" # w /\ "merchant" # "platformOperatingCash"
    BY AccountFacts DEF SystemAccount
  <1> HIDE DEF fee
  <1>4. QED
    BY <1>1, <1>2, <1>3, FeeOnTopSane

\* BILL_PAYMENT: the fee is fixed.
LEMMA BillPaymentSane ==
  ASSUME NEW w \in Wallet, NEW h \in Int, BillPayment(w, h)
  PROVE  \E j : Post(j) /\ Sane(j)
  <1> DEFINE fee == 5 * One
  <1>1. /\ Active(w)
        /\ Post(Spending("BILL_PAYMENT", w, toFixed(h + fee),
                  Balanced(<<Credit(w, toFixed(h + fee)), Debit("biller", toFixed(h)), Credit("feeRevenue", fee)>>)))
    BY DEF BillPayment
  <1>2. Even(fee)
    BY UnitFacts
  <1>3. "biller" \in Account /\ "biller" # w /\ "biller" # "platformOperatingCash"
    BY AccountFacts DEF SystemAccount
  <1> HIDE DEF fee
  <1>4. QED
    BY <1>1, <1>2, <1>3, FeeOnTopSane

\* Two conversions of the same Number, each of whose ties falls either way,
\* are at most one 0.0001 apart.
LEMMA NumberDrift ==
  ASSUME NEW h \in Int, NEW p, Even(p), NEW g, Even(g), NEW u, NEW v
  PROVE  toFixedNumber(h + p, u) - (toFixedNumber(h - g, v) + (p + g)) \in {-2, 0, 2}
  <1>1. p \in Int /\ g \in Int /\ h + p \in Int /\ h - g \in Int
    BY DEF Even
  <1>2. CASE Even(h)
    <2>1. Even(h + p) /\ Even(h - g)
      BY <1>2, EvenPlus
    <2>2. toFixedNumber(h + p, u) = h + p /\ toFixedNumber(h - g, v) = h - g
      BY <1>1, <2>1, NumberFacts
    <2>3. QED
      BY <1>1, <2>2
  <1>3. CASE ~Even(h)
    <2>1. ~Even(h + p) /\ ~Even(h - g)
      BY <1>1, <1>3 DEF Even
    <2>2. /\ toFixedNumber(h + p, u) \in {(h + p) - 1, (h + p) + 1}
          /\ toFixedNumber(h - g, v) \in {(h - g) - 1, (h - g) + 1}
      BY <1>1, <2>1, NumberFacts
    <2>3. QED
      BY <1>1, <2>2
  <1>4. QED
    BY <1>2, <1>3

\* MERCHANT_PAYMENT_ONLINE, whichever way each of its ties falls.
LEMMA MerchantPaymentOnlineSane ==
  ASSUME NEW w \in Wallet, NEW h \in Int, NEW up, MerchantPaymentOnline(w, h, up)
  PROVE  \E j : Post(j) /\ Sane(j)
  <1> DEFINE p == AtLeast(ShareNumber(h, 1, 200, up.platform), One)
             g == AtLeast(ShareNumber(h, 1, 500, up.gateway), One)
             x == toFixedNumber(h + p, up.total)
             y == toFixedNumber(h - g, up.net)
             lines == <<Credit(w, x), Debit("merchant", y), Credit("feeRevenue", p + g)>>
  <1>1. Active(w) /\ Post(Spending("MERCHANT_PAYMENT_ONLINE", w, x, Balanced(lines)))
    BY DEF MerchantPaymentOnline
  <1>2. Even(p) /\ Even(g)
    <2>1. Even(ShareNumber(h, 1, 200, up.platform)) /\ Even(ShareNumber(h, 1, 500, up.gateway)) /\ Even(One)
      BY ShareNumberFacts, UnitFacts
    <2>2. p \in {ShareNumber(h, 1, 200, up.platform), One} /\ g \in {ShareNumber(h, 1, 500, up.gateway), One}
      BY DEF AtLeast
    <2>3. QED
      BY <2>1, <2>2
  <1> HIDE DEF p, g
  <1>3. h + p \in Int /\ h - g \in Int /\ Even(p + g)
    BY <1>2, EvenPlus DEF Even
  <1>4. Even(x) /\ Even(y)
    BY <1>3, NumberFacts
  <1>5. x - (y + (p + g)) \in {-2, 0, 2}
    BY <1>2, NumberDrift
  <1>6. "merchant" \in Account /\ "merchant" # w /\ "merchant" # "platformOperatingCash"
    BY AccountFacts DEF SystemAccount
  <1> HIDE DEF x, y
  <1>7. Payment(lines, w, x, y + (p + g))
    BY <1>3, <1>4, <1>6, PaymentWithFee
  <1> HIDE DEF lines
  <1>8. Payment(Balanced(lines), w, x, y + (p + g))
    BY <1>7, PaymentBalanced
  <1>9. "MERCHANT_PAYMENT_ONLINE" \in TransactionType /\ "MERCHANT_PAYMENT_ONLINE" \notin ExactTypes
    BY DEF TransactionType, ExactTypes
  <1>10. QED
    BY <1>1, <1>4, <1>5, <1>8, <1>9, PaymentSane

\* NIP_TRANSFER and USSD_TRANSFER: the sender loses the amount, the fee, and
\* each levy, and each levy that is due has its line.
LEMMA NairaTransferSane ==
  ASSUME NEW type \in {"NIP_TRANSFER", "USSD_TRANSFER"}, NEW s \in Wallet, NEW r \in Wallet,
         NEW h \in Int, NEW fee, Even(fee), fee >= 0, NEW max, NairaTransfer(type, s, r, h, fee, max)
  PROVE  \E j : Post(j) /\ Sane(j)
  <1> DEFINE duty == computeStampDuty(h)
             vat  == computeVat(fee)
             levy == computeCybersecurityLevy(h)
             x == toFixed(h + fee + duty + vat + levy)
             y == toFixed(h)
             three == <<Credit(s, x), Debit(r, y), Credit("feeRevenue", fee)>>
             four  == three \o CreditIfAny("stampDutyPayable", duty)
             five  == four \o CreditIfAny("vatPayable", vat)
             lines == five \o CreditIfAny("cybersecurityLevyPayable", levy)
  <1>1. /\ Active(s) /\ s # r /\ h > 0
        /\ Post(Spending(type, s, x, Balanced(lines)))
    BY DEF NairaTransfer
  <1>2. fee \in Int /\ fee \in Nat /\ h \in Nat
    BY <1>1 DEF Even
  <1>3. Even(duty) /\ duty >= 0
    <2>1. Even(50 * One) /\ Even(0)
      BY UnitFacts DEF Even
    <2>2. 50 * One >= 0
      BY UnitFacts
    <2>3. duty \in {50 * One, 0}
      BY DEF computeStampDuty
    <2>4. QED
      BY <2>1, <2>2, <2>3
  <1>4. Even(vat) /\ vat >= 0
    BY <1>2, ShareFacts, ShareNotNegative DEF computeVat
  <1>5. Even(levy) /\ levy >= 0
    BY <1>2, ShareFacts, ShareNotNegative DEF computeCybersecurityLevy
  <1> HIDE DEF duty, vat, levy
  <1>6. Even(y) /\ y \in Int
    BY ToFixedFacts
  <1>7. Even(x) /\ x = y + fee + duty + vat + levy
    <2>1. duty \in Int /\ vat \in Int /\ levy \in Int
      BY <1>3, <1>4, <1>5 DEF Even
    <2>2. h + fee \in Int /\ h + fee + duty \in Int /\ h + fee + duty + vat \in Int
          /\ h + fee + duty + vat + levy \in Int
      BY <1>2, <2>1
    <2>3. toFixed(h + fee) = y + fee
      BY ToFixedPlus
    <2>4. toFixed(h + fee + duty) = y + fee + duty
      BY <1>3, <2>2, <2>3, ToFixedPlus
    <2>5. toFixed(h + fee + duty + vat) = y + fee + duty + vat
      BY <1>4, <2>2, <2>4, ToFixedPlus
    <2>6. x = y + fee + duty + vat + levy
      BY <1>5, <2>2, <2>5, ToFixedPlus
    <2>7. QED
      BY <2>2, <2>6, ToFixedFacts
  <1>8. r \in Account /\ r # "platformOperatingCash"
    BY AccountFacts
  <1>9. /\ "stampDutyPayable" \in SystemAccount /\ "vatPayable" \in SystemAccount
        /\ "cybersecurityLevyPayable" \in SystemAccount
    BY DEF SystemAccount
  <1> HIDE DEF x, y
  <1>10. Payment(three, s, x, y + fee)
    BY <1>1, <1>6, <1>7, <1>8, PaymentWithFee
  <1> HIDE DEF three
  <1>11. Payment(four, s, x, y + fee + duty)
    BY <1>3, <1>9, <1>10, PaymentCharge
  <1> HIDE DEF four
  <1>12. Payment(five, s, x, y + fee + duty + vat)
    BY <1>4, <1>9, <1>11, PaymentCharge
  <1> HIDE DEF five
  <1>13. Payment(lines, s, x, y + fee + duty + vat + levy)
    BY <1>5, <1>9, <1>12, PaymentCharge
  <1> HIDE DEF lines
  <1>14. Payment(Balanced(lines), s, x, y + fee + duty + vat + levy)
    BY <1>13, PaymentBalanced
  <1>15. type \in TransactionType /\ type \notin WithinTypes
    BY DEF TransactionType, WithinTypes
  <1>16. QED
    BY <1>1, <1>7, <1>14, <1>15, PaymentSane

\* The parts of an instalment, each rounded, are at most one 0.0001 apart
\* from the rounded whole.
LEMMA InstalmentDrift ==
  ASSUME NEW paid \in Int, NEW interest \in Int, NEW penalty, Even(penalty)
  PROVE  toFixed(paid) - (toFixed(paid - penalty - interest) + toFixed(interest) + toFixed(penalty))
           \in {-2, 0, 2}
  <1>1. penalty \in Int /\ toFixed(penalty) = penalty /\ paid - interest \in Int
    BY ToFixedFacts DEF Even
  <1>2. toFixed((paid - interest) - penalty) = toFixed(paid - interest) - penalty
    BY <1>1, ToFixedPlus
  <1>3. paid - penalty - interest = (paid - interest) - penalty
    BY <1>1
  <1>4. toFixed(paid) - (toFixed(paid - interest) + toFixed(interest)) \in {-2, 0, 2}
    BY DEF toFixed
  <1>5. toFixed(paid) \in Int /\ toFixed(paid - interest) \in Int /\ toFixed(interest) \in Int
    BY <1>1, ToFixedFacts
  <1>6. QED
    BY <1>1, <1>2, <1>3, <1>4, <1>5

\* LOAN_EMI_PAYMENT: the payment covers what is due, so penalty and interest
\* are paid in full and the rest goes to the principal.
LEMMA LoanEmiPaymentSane ==
  ASSUME NEW w \in Wallet, NEW principal \in Int, NEW interest \in Int, NEW days \in Nat,
         NEW payment \in Int, LoanEmiPayment(w, principal, interest, days, payment)
  PROVE  \E j : Post(j) /\ Sane(j)
  <1> DEFINE penalty == Share((principal + interest) * days, 1, 1000)
             due     == principal + interest + penalty
             paid    == IF payment = 0 THEN toFixed(due) ELSE payment
             toPenalty   == AtMost(paid, penalty)
             toInterest  == AtMost(paid - toPenalty, interest)
             toPrincipal == paid - toPenalty - toInterest
             x == toFixed(paid)
             three == <<Credit(w, x), Credit("loanReceivable", toFixed(toPrincipal)),
                        Credit("interestIncome", toFixed(toInterest))>>
             lines == three \o CreditIfAny("penaltyRevenue", toFixed(toPenalty))
  <1>1. /\ Active(w) /\ principal >= 0 /\ interest >= 0 /\ paid >= due
        /\ Post(Spending("LOAN_EMI_PAYMENT", w, x, Balanced(lines)))
    BY DEF LoanEmiPayment
  <1>2. Even(penalty) /\ penalty >= 0 /\ penalty \in Int
    <2> DEFINE base == (principal + interest) * days
    <2>1. base \in Nat
      <3>1. principal + interest \in Nat
        BY <1>1
      <3>2. QED
        BY <3>1
    <2>2. penalty = Share(base, 1, 1000)
      OBVIOUS
    <2>3. Even(Share(base, 1, 1000)) /\ Share(base, 1, 1000) >= 0 /\ Share(base, 1, 1000) \in Int
      <3> HIDE DEF base, penalty
      <3>1. base \in Int /\ 1 \in Nat /\ 1 \in Int /\ 1000 \in Nat \ {0}
        BY <2>1
      <3>2. Share(base, 1, 1000) >= 0
        BY ONLY <2>1, <3>1, ShareNotNegative
      <3>3. QED
        BY ONLY <3>1, <3>2, ShareFacts
    <2> HIDE DEF penalty, base
    <2>4. QED
      BY <2>2, <2>3
  <1> HIDE DEF penalty
  <1>3. paid \in Int
    <2>1. due \in Int
      BY <1>2
    <2>2. toFixed(due) \in Int
      BY <2>1, ToFixedFacts
    <2>3. QED
      BY <2>2
  <1>4. paid >= principal + interest + penalty
    BY <1>1
  <1> HIDE DEF paid
  <1>5. toPenalty = penalty
    BY <1>1, <1>2, <1>3, <1>4 DEF AtMost
  <1> HIDE DEF toPenalty
  <1>6. toInterest = interest
    BY <1>1, <1>2, <1>3, <1>4, <1>5 DEF AtMost
  <1> HIDE DEF toInterest
  <1>7. toPrincipal = paid - penalty - interest /\ toPrincipal \in Int
    BY <1>2, <1>3, <1>5, <1>6
  <1> HIDE DEF toPrincipal
  <1>8. /\ Even(x) /\ Even(toFixed(toPrincipal)) /\ Even(toFixed(toInterest))
        /\ Even(toFixed(toPenalty)) /\ toFixed(toPenalty) >= 0
    BY <1>2, <1>3, <1>5, <1>6, <1>7, ToFixedFacts
  <1>9. x - (toFixed(toPrincipal) + toFixed(toInterest) + toFixed(toPenalty)) \in {-2, 0, 2}
    BY <1>2, <1>3, <1>5, <1>6, <1>7, InstalmentDrift
  <1> DEFINE y == toFixed(toPrincipal)
             z == toFixed(toInterest)
             q == toFixed(toPenalty)
  <1>10. Even(y) /\ Even(z) /\ Even(q) /\ q >= 0 /\ y \in Int /\ z \in Int /\ x - (y + z + q) \in {-2, 0, 2}
    BY <1>8, <1>9 DEF Even
  <1>11. three = <<Credit(w, x), Credit("loanReceivable", y), Credit("interestIncome", z)>>
         /\ lines = three \o CreditIfAny("penaltyRevenue", q)
    OBVIOUS
  <1> HIDE DEF x, y, z, q, three, lines
  <1>12. /\ "loanReceivable" \in Account /\ "loanReceivable" \notin Wallet /\ "loanReceivable" # w
         /\ "interestIncome" \in Account /\ "interestIncome" \notin Wallet /\ "interestIncome" # w
         /\ "penaltyRevenue" \in SystemAccount
    BY AccountFacts DEF SystemAccount
  <1>13. /\ Credit("loanReceivable", y) \in Exact /\ Credit("loanReceivable", y) \in Harmless
         /\ Credit("loanReceivable", y).account = "loanReceivable" /\ Credit("loanReceivable", y).amount = y
         /\ Credit("interestIncome", z) \in Exact /\ Credit("interestIncome", z) \in Harmless
         /\ Credit("interestIncome", z).account = "interestIncome" /\ Credit("interestIncome", z).amount = z
    BY <1>10, <1>12, HomeLine
  <1>14. Payment(three, w, x, y + z)
    <2>1. Payment(<<Credit(w, x), Credit("loanReceivable", y), Credit("interestIncome", z)>>, w, x,
                  Credit("loanReceivable", y).amount + Credit("interestIncome", z).amount)
      BY <1>8, <1>12, <1>13, PaymentOfThree
    <2>2. QED
      BY <1>11, <1>13, <2>1
  <1>15. Payment(lines, w, x, y + z + q)
    BY <1>10, <1>11, <1>12, <1>14, PaymentCharge
  <1>16. Payment(Balanced(lines), w, x, y + z + q)
    BY <1>15, PaymentBalanced
  <1>17. "LOAN_EMI_PAYMENT" \in TransactionType /\ "LOAN_EMI_PAYMENT" \notin ExactTypes
    BY DEF TransactionType, ExactTypes
  <1>18. QED
    BY <1>1, <1>8, <1>10, <1>16, <1>17, PaymentSane

-----------------------------------------------------------------------------
(* Currency conversion: lines in two currencies.                           *)

\* If every amount is on the grid, what is compared is what is stored in the
\* two currencies together.
LEMMA TotalOfCurrencies ==
  ASSUME NEW lines \in Seq(LineType), \A i \in DOMAIN lines : Even(lines[i].amount), NEW side
  PROVE  Total(lines, side) = Sum(lines, StoredOn("home", side)) + Sum(lines, StoredOn("target", side))
  <1> DEFINE D == DOMAIN lines
             t == Weighed(lines, SentOn(side))
             a == Weighed(lines, StoredOn("home", side))
             b == Weighed(lines, StoredOn("target", side))
  <1>1. IsFiniteSet(D) /\ \A i \in D : lines[i] \in LineType
    BY SeqFacts
  <1>2. \A i \in D : /\ toFixed(lines[i].amount) = lines[i].amount /\ lines[i].amount \in Int
                     /\ lines[i].currency \in {"home", "target"}
    BY <1>1, LineFacts, ToFixedFacts, AccountFacts
  <1>3. \A i \in D : a[i] \in Int /\ b[i] \in Int /\ t[i] = a[i] + b[i]
    BY <1>1, <1>2 DEF Weighed, StoredOn, SentOn
  <1>4. SumFunctionOnSet(t, D) = SumFunctionOnSet(a, D) + SumFunctionOnSet(b, D)
    <2> HIDE DEF D, t, a, b
    <2> QED BY <1>1, <1>3, SumPlus
  <1>5. QED
    BY <1>4, TotalIsSum DEF Sum

\* Lines in another currency do not count in the home currency.
LEMMA HomeSumForeign ==
  ASSUME NEW lines \in Seq(LineType), NEW l \in LineType, l.currency = "target", NEW side
  PROVE  /\ Append(lines, l) \in Seq(LineType)
         /\ Sum(Append(lines, l), StoredOn("home", side)) = Sum(lines, StoredOn("home", side))
  <1>1. StoredOn("home", side)[l] = 0
    BY DEF StoredOn
  <1>2. Sum(lines, StoredOn("home", side)) \in Int
    BY SumInt, WeightTypes
  <1>3. Sum(Append(lines, l), StoredOn("home", side)) = Sum(lines, StoredOn("home", side)) + 0
    BY <1>1, SumAppend, WeightTypes
  <1>4. QED
    BY <1>2, <1>3

\* Two rows of the same amount on the two sides, in the home currency.
LEMMA HomeSumOfTwo ==
  ASSUME NEW d \in LineType, NEW c \in LineType, d.currency = "home", c.currency = "home",
         d.amount = c.amount, c.entryType = "DEBIT", d.entryType = "CREDIT"
  PROVE  Sum(<<d, c>>, StoredOn("home", "DEBIT")) = Sum(<<d, c>>, StoredOn("home", "CREDIT"))
  <1>1. toFixed(d.amount) \in Int
    BY LineFacts
  <1>2. ASSUME NEW side
        PROVE  Sum(<<d, c>>, StoredOn("home", side)) = StoredOn("home", side)[d] + StoredOn("home", side)[c]
    <2>1. StoredOn("home", side) \in Weight
      BY WeightTypes
    <2>2. QED
      BY <2>1, SumShort
  <1>3. StoredOn("home", "DEBIT")[d] + StoredOn("home", "DEBIT")[c]
          = StoredOn("home", "CREDIT")[d] + StoredOn("home", "CREDIT")[c]
    BY <1>1 DEF StoredOn
  <1>4. QED
    BY <1>2, <1>3

\* Amounts on the grid that balance together and in the home currency balance
\* in each currency.
LEMMA TwoCurrenciesBalanced ==
  ASSUME NEW j, j.lines \in Seq(LineType), \A i \in DOMAIN j.lines : Even(j.lines[i].amount),
         Total(j.lines, "DEBIT") = Total(j.lines, "CREDIT"),
         Sum(j.lines, StoredOn("home", "DEBIT")) = Sum(j.lines, StoredOn("home", "CREDIT"))
  PROVE  StoredBalanced(j)
  <1> DEFINE H(side) == Sum(j.lines, StoredOn("home", side))
             T(side) == Sum(j.lines, StoredOn("target", side))
  <1>1. \A side : H(side) \in Int /\ T(side) \in Int
    BY SumInt, WeightTypes
  <1>2. \A side : Total(j.lines, side) = H(side) + T(side)
    BY TotalOfCurrencies
  <1>3. \A side : StoredTotal(j, "home", side) = H(side) /\ StoredTotal(j, "target", side) = T(side)
    BY StoredTotalIsSum
  <1>4. H("DEBIT") = H("CREDIT")
    OBVIOUS
  <1> HIDE DEF H, T
  <1>5. T("DEBIT") = T("CREDIT")
    BY <1>1, <1>2, <1>4
  <1>6. QED
    BY <1>3, <1>4, <1>5, AccountFacts DEF StoredBalanced

\* A payment of x in the home currency, balanced there, with lines in the
\* other currency beside it.
Conversion(lines, w, x) ==
  /\ lines \in Seq(LineType)
  /\ \A i \in DOMAIN lines : Even(lines[i].amount)
  /\ Pays(lines, w, x)
  /\ Sum(lines, StoredOn("home", "DEBIT")) = Sum(lines, StoredOn("home", "CREDIT"))

\* The two lines in the home currency.
LEMMA ConversionFirst ==
  ASSUME NEW w \in Wallet, NEW x, Even(x), NEW a \in SystemAccount
  PROVE  Conversion(<<Credit(w, x), Debit(a, x)>>, w, x)
  <1> DEFINE d == Credit(w, x)
             c == Debit(a, x)
  <1>1. w \in Account /\ a \in Account /\ a # w /\ x \in Int
    BY AccountFacts DEF Even
  <1>2. /\ d \in LineType /\ d.currency = "home" /\ d.amount = x /\ d.entryType = "CREDIT"
        /\ c \in LineType /\ c.currency = "home" /\ c.amount = x /\ c.entryType = "DEBIT"
        /\ c \in Others(w)
    BY <1>1, HomeLine DEF Harmless
  <1>3. d = Credit(w, x)
    OBVIOUS
  <1> HIDE DEF d, c
  <1>4. <<d, c>> \in Seq(LineType) /\ DOMAIN <<d, c>> = {1, 2} /\ <<d, c>>[1] = d /\ <<d, c>>[2] = c
    BY <1>2
  <1>5. \A i \in DOMAIN <<d, c>> : Even(<<d, c>>[i].amount)
    BY <1>2, <1>4
  <1>6. Pays(<<d, c>>, w, x)
    <2>1. \A k \in DOMAIN <<d, c>> \ {1} : <<d, c>>[k] \in Others(w)
      BY <1>2, <1>4
    <2>2. 1 .. 1 - 1 = {}
      OBVIOUS
    <2>3. QED
      BY <1>3, <1>4, <2>1, <2>2 DEF Pays
  <1>7. Sum(<<d, c>>, StoredOn("home", "DEBIT")) = Sum(<<d, c>>, StoredOn("home", "CREDIT"))
    BY <1>2, HomeSumOfTwo
  <1>8. Conversion(<<d, c>>, w, x)
    BY <1>4, <1>5, <1>6, <1>7 DEF Conversion
  <1>9. QED
    BY <1>8 DEF d, c

\* One line more in the other currency.
LEMMA ConversionNext ==
  ASSUME NEW lines, NEW w, NEW x, Conversion(lines, w, x),
         NEW l \in Others(w), l.currency = "target", Even(l.amount)
  PROVE  Conversion(Append(lines, l), w, x)
  <1>1. /\ lines \in Seq(LineType) /\ Pays(lines, w, x) /\ l \in LineType
        /\ \A i \in DOMAIN lines : Even(lines[i].amount)
    BY DEF Conversion, Others, Harmless
  <1>2. \A i \in DOMAIN Append(lines, l) : Even(Append(lines, l)[i].amount)
    <2>1. ASSUME NEW i \in DOMAIN Append(lines, l)
          PROVE  (i \in DOMAIN lines /\ Append(lines, l)[i] = lines[i]) \/ Append(lines, l)[i] = l
      BY <1>1
    <2>2. QED
      BY <1>1, <2>1
  <1>3. Pays(Append(lines, l), w, x)
    BY <1>1, PaysAppend
  <1>4. QED
    BY <1>1, <1>2, <1>3, HomeSumForeign DEF Conversion

\* FX_CONVERSION: the source wallet pays in the home currency, the target
\* wallet, which may be the same, gains in the other one, and each currency
\* balances by itself.
LEMMA FxConversionSane ==
  ASSUME NEW s \in Wallet, NEW t \in Wallet, NEW h \in Int, NEW rate \in Rate,
         FxConversion(s, t, h, rate)
  PROVE  \E j : Post(j) /\ Sane(j)
  <1> DEFINE gross  == Share(h, rate[1], rate[2])
             markup == Share(gross, 1, 200)
             x == toFixed(h)
             l1 == Credit(s, x)
             l2 == Debit("fxHoldingSource", x)
             l3 == LineIn("target", "fxHoldingTarget", "CREDIT", gross)
             l4 == LineIn("target", t, "DEBIT", gross - markup)
             l5 == LineIn("target", "fxRevenue", "CREDIT", markup)
             real == <<l1, l2, l3, l4, l5>>
             lines == computeBalancingLeg(real, "target")
             j == Spending("FX_CONVERSION", s, x, lines)
  <1>1. Active(s) /\ Post(j)
    BY DEF FxConversion
  <1>2. Even(x) /\ x \in Int
    BY ToFixedFacts
  <1>3. Even(gross) /\ gross \in Int
    <2>1. rate[1] \in Int /\ rate[2] \in Nat \ {0}
      BY InputFacts
    <2>2. QED
      BY <2>1, ShareFacts
  <1> HIDE DEF gross
  <1>4. Even(markup) /\ markup \in Int
    BY <1>3, ShareFacts
  <1> HIDE DEF markup
  <1>5. Even(gross - markup) /\ gross - markup \in Int
    BY <1>3, <1>4, EvenPlus DEF Even
  <1>6. /\ t \in Account /\ s \in Account /\ "fxHoldingSource" \in SystemAccount /\ "fxHoldingSource" \in Account
        /\ "fxHoldingTarget" \in Account /\ "fxRevenue" \in Account
        /\ "fxHoldingTarget" \notin Wallet /\ "fxRevenue" \notin Wallet /\ "target" \in Currency
    BY AccountFacts DEF SystemAccount
  <1>7. l1 \in LineType /\ l2 \in LineType
    BY <1>2, <1>6, HomeLine DEF Harmless
  <1>8. l3 \in Others(s) /\ l3.currency = "target" /\ Even(l3.amount) /\ l3 \in LineType
    BY <1>3, <1>6, LineInFacts DEF Others, Harmless
  <1>9. l4 \in Others(s) /\ l4.currency = "target" /\ Even(l4.amount) /\ l4 \in LineType
    BY <1>5, <1>6, LineInFacts DEF Others, Harmless
  <1>10. l5 \in Others(s) /\ l5.currency = "target" /\ Even(l5.amount) /\ l5 \in LineType
    BY <1>4, <1>6, LineInFacts DEF Others, Harmless
  <1>11. Conversion(<<l1, l2>>, s, x)
    BY <1>2, <1>6, ConversionFirst
  <1> HIDE DEF l1, l2, l3, l4, l5, x
  <1>12. Conversion(Append(Append(Append(<<l1, l2>>, l3), l4), l5), s, x)
    BY <1>8, <1>9, <1>10, <1>11, ConversionNext
  <1>13. real = Append(Append(Append(<<l1, l2>>, l3), l4), l5)
    BY <1>7, <1>8, <1>9, <1>10
  <1>14. Conversion(real, s, x)
    BY <1>12, <1>13
  <1> HIDE DEF real
  <1>15. \/ lines = real
         \/ \E l : IsPlug(l, "target") /\ lines = Append(real, l)
    BY <1>6, <1>14, BalancingLeg DEF Conversion
  <1>16. ASSUME NEW l, IsPlug(l, "target") PROVE l \in Others(s) /\ l.currency = "target" /\ Even(l.amount)
    BY <1>16 DEF IsPlug, Others
  <1>17. Conversion(lines, s, x)
    BY <1>14, <1>15, <1>16, ConversionNext
  <1> HIDE DEF lines
  <1>18. "FX_CONVERSION" \in TransactionType /\ lines \in Seq(LineType)
    BY <1>17 DEF TransactionType, Conversion
  <1>19. /\ j \in JournalType /\ j.lines = lines /\ j.check = {s} /\ j.type = "FX_CONVERSION"
         /\ j.limits = {[account |-> s, amount |-> x]}
    BY <1>2, <1>18, SpendingFields
  <1> HIDE DEF j
  <1>20. StoredBalanced(j)
    BY <1>1, <1>17, <1>19, PostFacts, TwoCurrenciesBalanced DEF Conversion
  <1>21. Paying(j)
    <2>1. toFixed(x) = x
      BY <1>2, ToFixedFacts
    <2>2. QED
      BY <1>1, <1>2, <1>17, <1>19, <2>1 DEF Paying, Conversion
  <1>22. TransitOK(j)
    BY <1>19 DEF TransitOK, ExactTypes, WithinTypes
  <1>23. QED
    BY <1>1, <1>19, <1>20, <1>21, <1>22 DEF Sane, BalanceOK

\* Whatever a call executes, it posts a sane journal.
LEMMA ExecuteSane ==
  ASSUME execute
  PROVE  call # NoCall /\ \E j : Post(j) /\ Sane(j)
  <1>1. call # NoCall
    BY DEF execute
  <1>2. ASSUME NEW w \in Wallet, NEW h \in Amount, OneWallet(w, h)
        PROVE  \E j : Post(j) /\ Sane(j)
    <2>1. h \in Int
      BY InputFacts
    <2>2. CASE CashbackCredit(w, h) \/ PromotionalCredit(w, h)
      BY <2>1, <2>2, CreditSane DEF CashbackCredit, PromotionalCredit
    <2>3. CASE \/ DepositBank(w, h) \/ DepositCard(w, h) \/ Withdrawal(w, h) \/ FeeDeduction(w, h)
      BY <2>1, <2>3, DepositBankSane, DepositCardSane, WithdrawalSane, FeeDeductionSane
    <2>4. CASE \/ MerchantPaymentQr(w, h) \/ BillPayment(w, h)
               \/ \E up \in [platform : BOOLEAN, gateway : BOOLEAN, total : BOOLEAN, net : BOOLEAN] :
                    MerchantPaymentOnline(w, h, up)
      BY <2>1, <2>4, MerchantPaymentQrSane, BillPaymentSane, MerchantPaymentOnlineSane
    <2>5. CASE \/ InterestPayout(w, h) \/ LoanDisbursement(w, h) \/ Chargeback(w, h)
               \/ AccountClosure(w, h)
      BY <2>1, <2>5, InterestPayoutSane, LoanDisbursementSane, ChargebackSane, AccountClosureSane
    <2>6. QED
      BY <1>2, <2>2, <2>3, <2>4, <2>5 DEF OneWallet
  <1>3. ASSUME NEW s \in Wallet, NEW r \in Wallet, NEW h \in Amount, Transfer(s, r, h)
        PROVE  \E j : Post(j) /\ Sane(j)
    <2>1. h \in Int
      BY InputFacts
    <2>2. CASE P2pTransfer(s, r, h)
      BY <2>1, <2>2, P2pTransferSane
    <2>3. CASE NipTransfer(s, r, h)
      <3> DEFINE fee == (2688 * One) \div 100
      <3>1. Even(fee) /\ fee >= 0
        <4>1. Even(fee) /\ fee > 0
          BY UnitFacts
        <4> HIDE DEF fee
        <4>2. QED
          BY <4>1 DEF Even
      <3>2. NairaTransfer("NIP_TRANSFER", s, r, h, fee, 5000000)
        BY <2>3 DEF NipTransfer
      <3> HIDE DEF fee
      <3>3. QED
        BY <2>1, <3>1, <3>2, NairaTransferSane
    <2>4. CASE UssdTransfer(s, r, h)
      <3> DEFINE fee == 10 * One
      <3>1. Even(fee)
        BY UnitFacts
      <3>2. fee >= 0
        BY UnitFacts
      <3>3. NairaTransfer("USSD_TRANSFER", s, r, h, fee, 100000)
        BY <2>4 DEF UssdTransfer
      <3> HIDE DEF fee
      <3>4. QED
        BY <2>1, <3>1, <3>2, <3>3, NairaTransferSane
    <2>5. QED
      BY <1>3, <2>2, <2>3, <2>4 DEF Transfer
  <1>4. ASSUME NEW w \in Wallet, Composite(w)
        PROVE  \E j : Post(j) /\ Sane(j)
    <2>1. CASE \E points \in Points : RewardRedemption(w, points)
      BY <2>1, InputFacts, RewardRedemptionSane
    <2>2. CASE \E h, fee \in SmallAmount : RefundFull(w, h, fee)
      BY <2>2, InputFacts, RefundFullSane
    <2>3. CASE \E h, original, fee \in SmallAmount, policy \in FeePolicy, up \in BOOLEAN :
                 RefundPartial(w, h, original, fee, policy, up)
      BY <2>3, InputFacts, RefundPartialSane
    <2>4. CASE \E principal, interest, payment \in SmallAmount, days \in Days :
                 LoanEmiPayment(w, principal, interest, days, payment)
      BY <2>4, InputFacts, LoanEmiPaymentSane
    <2>5. CASE \E t \in Wallet, h \in SmallAmount, rate \in Rate : FxConversion(w, t, h, rate)
      BY <2>5, InputFacts, FxConversionSane
    <2>6. QED
      BY <1>4, <2>1, <2>2, <2>3, <2>4, <2>5 DEF Composite
  <1>5. ASSUME NEW h \in Amount, NEW rate \in Rate, InterestAccrual(h, rate)
        PROVE  \E j : Post(j) /\ Sane(j)
    BY <1>5, InputFacts, InterestAccrualSane
  <1>6. QED
    BY <1>1, <1>2, <1>3, <1>4, <1>5 DEF execute

-----------------------------------------------------------------------------
(* Posting a sane journal.                                                 *)

\* The row written to books: the journal, with the wallets it was late for.
Late(j)   == {w \in Wallet : /\ status[w] # "ACTIVE"
                             /\ \E cur \in Currency : Effect(j.lines, w, cur) < 0}
Booked(j) == [j EXCEPT !.late = Late(j)]

\* The journal booked is the one handed over.
LEMMA BookedFacts ==
  ASSUME NEW j \in JournalType
  PROVE  /\ Booked(j) \in JournalType /\ Booked(j).late = Late(j)
         /\ Booked(j).lines = j.lines /\ Booked(j).type = j.type
         /\ Booked(j).check = j.check /\ Booked(j).limits = j.limits
  BY DEF Booked, Late, JournalType

\* So it is as good as that one.
LEMMA BookedSane ==
  ASSUME NEW j \in JournalType
  PROVE  /\ BalanceOK(j) => BalanceOK(Booked(j))
         /\ TransitOK(j) => TransitOK(Booked(j))
         /\ MeteredOK(j) => MeteredOK(Booked(j))
  <1> DEFINE b == Booked(j)
  <1>1. b.lines = j.lines /\ b.type = j.type /\ b.check = j.check /\ b.limits = j.limits
    BY BookedFacts
  <1> HIDE DEF b
  <1>2. StoredBalanced(b) <=> StoredBalanced(j)
    BY <1>1 DEF StoredBalanced, StoredTotal
  <1>3. \A w, cur : Loss(b, w, cur) = Loss(j, w, cur)
    BY <1>1 DEF Loss
  <1>4. Reached(b) = Reached(j)
    BY <1>1 DEF Reached
  <1>5. BalanceOK(j) => BalanceOK(b)
    BY <1>1, <1>2 DEF BalanceOK
  <1>6. TransitOK(j) => TransitOK(b)
    BY <1>1, <1>3, <1>4 DEF TransitOK
  <1>7. MeteredOK(j) => MeteredOK(b)
    BY <1>1, <1>3 DEF MeteredOK
  <1>8. QED
    BY <1>5, <1>6, <1>7 DEF b

\* Only a payment takes from a wallet, and only from the one wallet.
LEMMA WhoPays ==
  ASSUME NEW j \in JournalType, Positive(j.lines), Giving(j) \/ Paying(j),
         NEW w \in Wallet, NEW cur \in Currency, Effect(j.lines, w, cur) < 0
  PROVE  /\ Active(w) /\ cur = "home" /\ j.check = {w}
         /\ \E x \in Int : /\ Pays(j.lines, w, x) /\ Effect(j.lines, w, cur) = -toFixed(x)
                           /\ j.limits = {[account |-> w, amount |-> toFixed(x)]}
  <1>1. j.lines \in Seq(LineType)
    BY DEF JournalType
  <1>2. Effect(j.lines, w, cur) \in Int /\ ~(Effect(j.lines, w, cur) >= 0)
    BY <1>1, EffectIsSum
  <1>3. ~Giving(j)
    <2>1. SUFFICES ASSUME Giving(j) PROVE FALSE
      OBVIOUS
    <2>2. \A i \in DOMAIN j.lines : j.lines[i] \in Harmless
      BY <2>1 DEF Giving
    <2>3. QED
      BY <1>1, <1>2, <2>2, HarmlessEffect
  <1>4. PICK v \in Wallet, x \in Int :
          /\ Active(v) /\ Pays(j.lines, v, x) /\ j.check = {v}
          /\ j.limits = {[account |-> v, amount |-> toFixed(x)]}
    BY <1>3 DEF Paying
  <1>5. v = w /\ cur = "home"
    BY <1>1, <1>2, <1>4, PaymentEffect
  <1>6. Effect(j.lines, w, "home") = -toFixed(x)
    BY <1>1, <1>4, <1>5, PaymentEffect
  <1>7. QED
    BY <1>4, <1>5, <1>6

\* What is taken from a wallet has been checked and metered.
LEMMA SaneIsMetered ==
  ASSUME NEW j, Sane(j), Positive(j.lines)
  PROVE  MeteredOK(j)
  <1>1. j \in JournalType /\ (Giving(j) \/ Paying(j) \/ j.type = "ACCOUNT_CLOSURE_SWEEP")
    BY DEF Sane
  <1>2. j.lines \in Seq(LineType)
    BY <1>1 DEF JournalType
  <1>3. ASSUME NEW w \in Wallet, NEW cur \in Currency, Loss(j, w, cur) > 0,
               j.type # "ACCOUNT_CLOSURE_SWEEP"
        PROVE  w \in j.check /\ [account |-> w, amount |-> Loss(j, w, cur)] \in j.limits
    <2>1. Effect(j.lines, w, cur) \in Int /\ Loss(j, w, cur) = -Effect(j.lines, w, cur)
      BY <1>2, EffectIsSum DEF Loss
    <2>2. Effect(j.lines, w, cur) < 0
      BY <1>3, <2>1
    <2>3. PICK x \in Int : /\ Effect(j.lines, w, cur) = -toFixed(x) /\ j.check = {w}
                           /\ j.limits = {[account |-> w, amount |-> toFixed(x)]}
      BY <1>1, <1>3, <2>2, WhoPays
    <2>4. toFixed(x) \in Int
      BY ToFixedFacts
    <2>5. Loss(j, w, cur) = toFixed(x)
      BY <2>1, <2>3, <2>4
    <2>6. QED
      BY <2>3, <2>5
  <1>4. QED
    BY <1>3 DEF MeteredOK

\* The books after posting.
LEMMA BooksAppend ==
  ASSUME TypeOK, NEW b \in JournalType, books' = Append(books, b)
  PROVE  /\ books' \in Seq(JournalType)
         /\ DOMAIN books = 1 .. Len(books) /\ DOMAIN books' = 1 .. Len(books) + 1 /\ Len(books) \in Nat
         /\ books'[Len(books) + 1] = b /\ \A i \in DOMAIN books : books'[i] = books[i]
         /\ Journals' = Journals \cup {b}
  <1>1. books \in Seq(JournalType)
    BY DEF TypeOK
  <1>2. /\ books' \in Seq(JournalType)
        /\ DOMAIN books = 1 .. Len(books) /\ DOMAIN books' = 1 .. Len(books) + 1 /\ Len(books) \in Nat
        /\ books'[Len(books) + 1] = b /\ \A i \in DOMAIN books : books'[i] = books[i]
    BY <1>1
  <1>3. Journals = {books[i] : i \in DOMAIN books} /\ Journals' = {books'[i] : i \in DOMAIN books'}
    BY DEF Journals, Range
  <1>4. Journals' = Journals \cup {b}
    <2>1. ASSUME NEW i \in DOMAIN books' PROVE books'[i] \in Journals \cup {b}
      <3>1. i \in DOMAIN books \/ i = Len(books) + 1
        BY <1>2
      <3>2. QED
        BY <1>2, <1>3, <3>1
    <2>2. ASSUME NEW i \in DOMAIN books PROVE books[i] \in Journals'
      <3>1. i \in DOMAIN books' /\ books'[i] = books[i]
        BY <1>2
      <3>2. QED
        BY <1>3, <3>1
    <2>3. b \in Journals'
      <3>1. Len(books) + 1 \in DOMAIN books'
        BY <1>2
      <3>2. QED
        BY <1>2, <1>3, <3>1
    <2>4. QED
      BY <1>3, <2>1, <2>2, <2>3
  <1>5. QED
    BY <1>2, <1>4

-----------------------------------------------------------------------------
(* The inductive invariant.                                                *)

\* A wallet from which a late payment was taken is no longer active, and no
\* call under way believes that it is.
LateStopped ==
  \A i \in DOMAIN books, w \in Wallet :
    w \in books[i].late /\ books[i].type # "ACCOUNT_CLOSURE_SWEEP" =>
      /\ status[w] # "ACTIVE"
      /\ call # NoCall => call[w] # "ACTIVE"

\* Every journal booked keeps its part of the properties.
JournalsOK == \A j \in Journals : BalanceOK(j) /\ TransitOK(j) /\ MeteredOK(j)

IInv == TypeOK /\ JournalsOK /\ WalletsNeverOverdrawn /\ LateStopped /\ DeactivationStopsSpending

\* What was deposited before the modelled calls is on the grid.
LEMMA OpeningIsEven ==
  Even(-SumFunction(Opening))
  <1> DEFINE half == [w \in Wallet |-> Opening[w] \div 2]
  <1>1. DOMAIN Opening = Wallet /\ IsFiniteSet(Wallet)
    BY OpeningOnGrid, AccountAssumption
  <1>2. \A w \in Wallet : half[w] \in Int /\ Opening[w] = half[w] * 2
    BY OpeningOnGrid
  <1>3. SumFunctionOnSet(Opening, Wallet) = SumFunctionOnSet(half, Wallet) * 2
        /\ SumFunctionOnSet(half, Wallet) \in Int
    <2> HIDE DEF half
    <2> QED BY <1>1, <1>2, SumScale, SumType
  <1>4. SumFunction(Opening) = SumFunctionOnSet(half, Wallet) * 2
    BY <1>1, <1>3 DEF SumFunction
  <1> HIDE DEF half
  <1>5. Even(SumFunction(Opening))
    BY <1>3, <1>4, Doubled
  <1>6. QED
    BY <1>5, EvenPlus

\* The invariant holds before the first call.
LEMMA InitIInv ==
  ASSUME Init
  PROVE  IInv
  <1>1. ASSUME NEW a \in Account, NEW cur \in Currency PROVE Even(bal[a][cur])
    <2>1. Even(0) /\ \A w \in Wallet : Even(Opening[w])
      BY OpeningOnGrid DEF Even
    <2>2. Even(-SumFunction(Opening))
      BY OpeningIsEven
    <2>3. \/ bal[a][cur] = 0 \/ bal[a][cur] = -SumFunction(Opening)
          \/ a \in Wallet /\ bal[a][cur] = Opening[a]
      BY DEF Init
    <2>4. QED
      BY <2>1, <2>2, <2>3
  <1>2. bal \in [Account -> [Currency -> Int]]
    BY <1>1 DEF Init, Even
  <1>3. TypeOK
    <2>1. status \in StatusMap
      BY DEF Init, StatusMap
    <2>2. books \in Seq(JournalType) /\ call \in StatusMap \cup {NoCall}
      BY DEF Init
    <2>3. \A a \in Account, cur \in Currency : bal[a][cur] % 2 = 0
      BY <1>1 DEF Even
    <2>4. QED
      BY <1>2, <2>1, <2>2, <2>3 DEF TypeOK
  <1>4. DOMAIN books = {} /\ Journals = {}
    BY DEF Init, Journals, Range
  <1>5. WalletsNeverOverdrawn
    <2>1. ASSUME NEW w \in Wallet, NEW cur \in Currency PROVE ~(bal[w][cur] < 0)
      <3>1. w \in Account /\ Opening[w] \in Nat
        BY AccountFacts, OpeningOnGrid
      <3>2. bal[w][cur] \in {0, Opening[w]}
        BY <3>1 DEF Init
      <3>3. QED
        BY <3>1, <3>2
    <2>2. QED
      BY <2>1 DEF WalletsNeverOverdrawn
  <1>6. QED
    BY <1>3, <1>4, <1>5 DEF IInv, JournalsOK, LateStopped, DeactivationStopsSpending

\* resolveAccounts() reads the status as it is, so it resolves no wallet that
\* was paid from late as active.
LEMMA ResolveIInv ==
  ASSUME IInv, ResolveAccounts
  PROVE  IInv'
  <1>1. call' = status /\ bal' = bal /\ books' = books /\ status' = status
    BY DEF ResolveAccounts
  <1>2. TypeOK'
    BY <1>1 DEF IInv, TypeOK
  <1>3. JournalsOK' /\ WalletsNeverOverdrawn' /\ DeactivationStopsSpending'
    <2>1. Journals' = Journals /\ \A w : Held(w)' = Held(w)
      BY <1>1 DEF Journals, Held
    <2>2. JournalsOK'
      BY <2>1 DEF IInv, JournalsOK
    <2>3. WalletsNeverOverdrawn'
      BY <1>1, <2>1 DEF IInv, WalletsNeverOverdrawn
    <2>4. DeactivationStopsSpending'
      BY <1>1 DEF IInv, DeactivationStopsSpending
    <2>5. QED
      BY <2>2, <2>3, <2>4
  <1>4. LateStopped'
    BY <1>1 DEF IInv, LateStopped
  <1>5. QED
    BY <1>2, <1>3, <1>4 DEF IInv

\* Deactivating an account makes no other one active.
LEMMA DeactivateIInv ==
  ASSUME IInv, NEW a \in Closable, Deactivate(a)
  PROVE  IInv'
  <1>1. call' = call /\ bal' = bal /\ books' = books /\ status' = [status EXCEPT ![a] = "INACTIVE"]
    BY DEF Deactivate
  <1>2. status \in StatusMap
    BY DEF IInv, TypeOK
  <1>3. status' \in StatusMap /\ \A w \in Wallet : status[w] # "ACTIVE" => status'[w] # "ACTIVE"
    BY <1>1, <1>2, AccountAssumption DEF StatusMap, Holder
  <1>4. TypeOK'
    BY <1>1, <1>3 DEF IInv, TypeOK
  <1>5. Journals' = Journals /\ \A w : Held(w)' = Held(w)
    BY <1>1 DEF Journals, Held
  <1>6. JournalsOK'
    BY <1>5 DEF IInv, JournalsOK
  <1>7. WalletsNeverOverdrawn'
    BY <1>1, <1>5 DEF IInv, WalletsNeverOverdrawn
  <1>8. DeactivationStopsSpending'
    BY <1>1 DEF IInv, DeactivationStopsSpending
  <1>9. LateStopped'
    BY <1>1, <1>3 DEF IInv, LateStopped
  <1>10. QED
    BY <1>4, <1>6, <1>7, <1>8, <1>9 DEF IInv

\* The currencies a wallet has rows in after posting.
LEMMA HeldAfter ==
  ASSUME NEW b, Journals' = Journals \cup {b}, NEW w
  PROVE  /\ Held(w) \subseteq Held(w)'
         /\ \A i \in DOMAIN b.lines : b.lines[i].account = w => b.lines[i].currency \in Held(w)'
         /\ Held(w)' \subseteq Held(w) \cup {b.lines[i].currency : i \in DOMAIN b.lines}
  <1> DEFINE Rows(j) == {l.currency : l \in {x \in Range(j.lines) : x.account = w}}
             first == IF Opening[w] > 0 THEN {"home"} ELSE {}
  <1>1. Held(w) = first \cup UNION {Rows(j) : j \in Journals}
    BY DEF Held, Journals
  <1>2. Held(w)' = first \cup UNION {Rows(j) : j \in Journals'}
    BY DEF Held, Journals
  <1>3. \A i \in DOMAIN b.lines : b.lines[i].account = w => b.lines[i].currency \in Rows(b)
    BY DEF Range
  <1>4. Rows(b) \subseteq {b.lines[i].currency : i \in DOMAIN b.lines}
    BY DEF Range
  <1> HIDE DEF Rows, first
  <1>5. QED
    BY <1>1, <1>2, <1>3, <1>4

\* Rows are in one of the two currencies.
LEMMA HeldType ==
  ASSUME books \in Seq(JournalType), NEW w
  PROVE  Held(w) \subseteq Currency
  <1>1. \A j \in Range(books) : j \in JournalType
    BY SeqFacts DEF Range
  <1>2. ASSUME NEW j \in Range(books) PROVE \A l \in Range(j.lines) : l.currency \in Currency
    <2>1. j.lines \in Seq(LineType)
      BY <1>1 DEF JournalType
    <2>2. \A i \in DOMAIN j.lines : j.lines[i] \in LineType
      BY <2>1, SeqFacts
    <2>3. QED
      BY <2>2, LineFacts DEF Range
  <1>3. QED
    BY <1>2, AccountFacts DEF Held

\* A payment that was checked overdraws nothing, unless the balance it was
\* checked against is in the other currency.
LEMMA CheckedPayment ==
  ASSUME TypeOK, NEW j \in JournalType, Post(j), NEW w \in Wallet, j.check = {w},
         NEW x \in Int, Pays(j.lines, w, x)
  PROVE  bal[w]["home"] >= toFixed(x) \/ "target" \in Held(w)
  <1> DEFINE lines == j.lines
  <1>1. PICK i \in DOMAIN lines : /\ lines[i].account = w
                                  /\ \A k \in 1 .. i - 1 : lines[k].account # w
                                  /\ \E balance \in deriveBalance(w) : balance >= lines[i].amount
    BY DEF Post
  <1>2. PICK e \in DOMAIN lines : /\ lines[e] = Credit(w, x)
                                  /\ \A k \in 1 .. e - 1 : lines[k].account # w
    BY DEF Pays
  <1>3. lines \in Seq(LineType) /\ DOMAIN lines = 1 .. Len(lines) /\ Len(lines) \in Nat
    BY SeqFacts DEF JournalType
  <1>4. lines[e].account = w /\ lines[e].amount = x
    BY <1>2, AccountFacts, HomeLine
  <1>5. i = e
    <2>1. ~(i < e)
      BY <1>1, <1>2, <1>3
    <2>2. ~(e < i)
      BY <1>1, <1>3, <1>4
    <2>3. QED
      BY <1>3, <2>1, <2>2
  <1>6. x > 0
    BY <1>4, PostFacts DEF Positive
  <1>7. PICK balance \in deriveBalance(w) : balance >= x
    BY <1>1, <1>4, <1>5
  <1>8. Held(w) # {} /\ deriveBalance(w) = {bal[w][cur] : cur \in Held(w)}
    BY <1>6, <1>7 DEF deriveBalance
  <1>9. PICK cur \in Held(w) : bal[w][cur] >= x
    BY <1>7, <1>8
  <1>10. cur \in {"home", "target"}
    BY <1>9, HeldType, AccountFacts DEF TypeOK
  <1>11. CASE cur = "home"
    <2>1. Even(bal[w]["home"])
      BY AccountFacts DEF TypeOK, Even
    <2>2. Even(toFixed(x)) /\ toFixed(x) <= x + 1
      BY ToFixedFacts
    <2>3. bal[w]["home"] >= x
      BY <1>9, <1>11
    <2>4. QED
      BY <2>1, <2>2, <2>3 DEF Even
  <1>12. QED
    BY <1>9, <1>10, <1>11

\* Posting a sane journal keeps the invariant.
LEMMA PostIInv ==
  ASSUME IInv, call # NoCall, NEW j, Post(j), Sane(j)
  PROVE  IInv'
  <1> DEFINE b == Booked(j)
  <1>1. /\ TypeOK /\ JournalsOK /\ WalletsNeverOverdrawn /\ LateStopped /\ DeactivationStopsSpending
        /\ j \in JournalType /\ BalanceOK(j) /\ TransitOK(j)
        /\ Giving(j) \/ Paying(j) \/ j.type = "ACCOUNT_CLOSURE_SWEEP"
    BY DEF IInv, Sane
  <1>2. /\ bal' = [a \in Account |-> [cur \in Currency |-> bal[a][cur] + Effect(j.lines, a, cur)]]
        /\ books' = Append(books, b) /\ call' = NoCall /\ status' = status
    BY DEF Post, Booked, Late
  <1>3. Positive(j.lines) /\ j.lines \in Seq(LineType)
    BY <1>1, PostFacts DEF JournalType
  <1>4. /\ b \in JournalType /\ b.late = Late(j) /\ b.lines = j.lines /\ b.type = j.type
    BY <1>1, BookedFacts
  <1>5. BalanceOK(b) /\ TransitOK(b) /\ MeteredOK(b)
    BY <1>1, <1>3, SaneIsMetered, BookedSane
  <1> HIDE DEF b
  <1>6. /\ books' \in Seq(JournalType)
        /\ DOMAIN books = 1 .. Len(books) /\ DOMAIN books' = 1 .. Len(books) + 1 /\ Len(books) \in Nat
        /\ books'[Len(books) + 1] = b /\ \A i \in DOMAIN books : books'[i] = books[i]
        /\ Journals' = Journals \cup {b}
    BY <1>1, <1>2, <1>4, BooksAppend
  <1>7. ASSUME NEW a \in Account, NEW cur \in Currency
        PROVE  /\ Even(bal[a][cur]) /\ Even(Effect(j.lines, a, cur)) /\ Even(bal'[a][cur])
               /\ bal'[a][cur] = bal[a][cur] + Effect(j.lines, a, cur)
    <2>1. Even(bal[a][cur])
      BY <1>1 DEF TypeOK, Even
    <2>2. Even(Effect(j.lines, a, cur))
      BY <1>3, EffectIsEven
    <2>3. bal'[a][cur] = bal[a][cur] + Effect(j.lines, a, cur)
      BY <1>2
    <2>4. QED
      BY <2>1, <2>2, <2>3, EvenPlus
  <1>8. TypeOK'
    <2>1. \A a \in Account, cur \in Currency : bal'[a][cur] \in Int /\ bal'[a][cur] % 2 = 0
      BY <1>7 DEF Even
    <2>2. bal' \in [Account -> [Currency -> Int]]
      BY <1>2, <2>1
    <2>3. status' \in StatusMap /\ call' \in StatusMap \cup {NoCall}
      BY <1>1, <1>2 DEF TypeOK
    <2>4. QED
      BY <1>6, <2>1, <2>2, <2>3 DEF TypeOK
  <1>9. JournalsOK'
    BY <1>1, <1>5, <1>6 DEF JournalsOK
  <1>10. WalletsNeverOverdrawn'
    <2>1. SUFFICES ASSUME NEW w \in Wallet, NEW cur \in Currency, bal'[w][cur] < 0
                   PROVE  \/ Held(w)' = Currency
                          \/ \E k \in Journals' : k.type = "ACCOUNT_CLOSURE_SWEEP" /\ Loss(k, w, cur) > 0
      BY DEF WalletsNeverOverdrawn
    <2>2. Held(w) \subseteq Held(w)' /\ Held(w)' \subseteq Currency
      <3>1. Held(w) \subseteq Currency
        BY <1>1, HeldType DEF TypeOK
      <3>2. \A i \in DOMAIN b.lines : b.lines[i].currency \in Currency
        BY <1>3, <1>4, SeqFacts, LineFacts
      <3>3. Held(w) \subseteq Held(w)'
            /\ Held(w)' \subseteq Held(w) \cup {b.lines[i].currency : i \in DOMAIN b.lines}
        BY <1>6, HeldAfter
      <3>4. QED
        BY <3>1, <3>2, <3>3
    <2>3. CASE bal[w][cur] < 0
      BY <1>1, <1>6, <2>2, <2>3 DEF WalletsNeverOverdrawn
    <2>4. CASE ~(bal[w][cur] < 0)
      <3>1. w \in Account
        BY AccountFacts
      <3>2. bal[w][cur] \in Int /\ Effect(j.lines, w, cur) \in Int
            /\ bal'[w][cur] = bal[w][cur] + Effect(j.lines, w, cur)
        BY <1>7, <3>1 DEF Even
      <3>3. Effect(j.lines, w, cur) < 0
        BY <2>1, <2>4, <3>2
      <3>4. CASE j.type = "ACCOUNT_CLOSURE_SWEEP"
        <4>1. Loss(b, w, cur) > 0
          BY <1>4, <3>2, <3>3 DEF Loss
        <4>2. QED
          BY <1>4, <1>6, <3>4, <4>1
      <3>5. CASE Giving(j) \/ Paying(j)
        <4>1. PICK x \in Int : /\ Pays(j.lines, w, x) /\ Effect(j.lines, w, cur) = -toFixed(x)
                               /\ j.check = {w} /\ cur = "home"
          BY <1>1, <1>3, <3>3, <3>5, WhoPays
        <4>2. bal[w]["home"] >= toFixed(x) \/ "target" \in Held(w)
          BY <1>1, <4>1, CheckedPayment
        <4>3. ~(bal[w]["home"] >= toFixed(x))
          <5>1. toFixed(x) \in Int
            BY ToFixedFacts
          <5>2. QED
            BY <2>1, <3>2, <4>1, <5>1
        <4>4. "home" \in Held(w)'
          <5>1. PICK e \in DOMAIN j.lines : j.lines[e] = Credit(w, x)
            BY <4>1 DEF Pays
          <5>2. j.lines[e].account = w /\ j.lines[e].currency = "home"
            BY <3>1, <5>1, HomeLine
          <5>3. QED
            BY <1>4, <1>6, <5>2, HeldAfter
        <4>5. QED
          BY <2>2, <4>2, <4>3, <4>4, AccountFacts
      <3>6. QED
        BY <1>1, <3>4, <3>5
    <2>5. QED
      BY <2>3, <2>4
  <1>11. ASSUME NEW w \in b.late, b.type # "ACCOUNT_CLOSURE_SWEEP"
         PROVE  w \in Wallet /\ status[w] # "ACTIVE" /\ call[w] = "ACTIVE"
    <2>1. w \in Wallet /\ status[w] # "ACTIVE" /\ \E cur \in Currency : Effect(j.lines, w, cur) < 0
      BY <1>4 DEF Late
    <2>2. Active(w)
      BY <1>1, <1>3, <1>4, <1>11, <2>1, WhoPays
    <2>3. QED
      BY <2>1, <2>2 DEF Active
  <1>12. LateStopped'
    <2>1. ASSUME NEW i \in DOMAIN books', NEW w \in Wallet, w \in books'[i].late,
                 books'[i].type # "ACCOUNT_CLOSURE_SWEEP"
          PROVE  status[w] # "ACTIVE"
      <3>1. i \in DOMAIN books \/ i = Len(books) + 1
        BY <1>6
      <3>2. CASE i \in DOMAIN books
        BY <1>1, <1>6, <2>1, <3>2 DEF LateStopped
      <3>3. CASE i = Len(books) + 1
        BY <1>6, <1>11, <2>1, <3>3
      <3>4. QED
        BY <3>1, <3>2, <3>3
    <2>2. QED
      BY <1>2, <2>1 DEF LateStopped
  <1>13. DeactivationStopsSpending'
    <2>1. SUFFICES ASSUME NEW i \in DOMAIN books', NEW k \in DOMAIN books', NEW w,
                          w \in books'[i].late, w \in books'[k].late,
                          books'[i].type # "ACCOUNT_CLOSURE_SWEEP", books'[k].type # "ACCOUNT_CLOSURE_SWEEP"
                   PROVE  i = k
      BY DEF DeactivationStopsSpending
    <2>2. (i \in DOMAIN books \/ i = Len(books) + 1) /\ (k \in DOMAIN books \/ k = Len(books) + 1)
      BY <1>6
    <2>3. CASE i \in DOMAIN books /\ k \in DOMAIN books
      <3>1. /\ w \in books[i].late \cap books[k].late
            /\ "ACCOUNT_CLOSURE_SWEEP" \notin {books[i].type, books[k].type}
        BY <1>6, <2>1, <2>3
      <3>2. QED
        BY <1>1, <2>3, <3>1 DEF DeactivationStopsSpending
    <2>4. ASSUME NEW m \in DOMAIN books, w \in books[m].late, books[m].type # "ACCOUNT_CLOSURE_SWEEP",
                 w \in b.late, b.type # "ACCOUNT_CLOSURE_SWEEP"
          PROVE  FALSE
      <3>1. w \in Wallet /\ call[w] = "ACTIVE"
        BY <1>11, <2>4
      <3>2. QED
        BY <1>1, <2>4, <3>1 DEF LateStopped
    <2>5. QED
      BY <1>6, <2>1, <2>2, <2>3, <2>4
  <1>14. QED
    BY <1>8, <1>9, <1>10, <1>12, <1>13 DEF IInv

\* Every step keeps the invariant.
LEMMA StepIInv ==
  ASSUME IInv, [Next]_vars
  PROVE  IInv'
  <1>1. CASE ResolveAccounts
    BY <1>1, ResolveIInv
  <1>2. CASE \E a \in Closable : Deactivate(a)
    BY <1>2, DeactivateIInv
  <1>3. CASE execute
    BY <1>3, ExecuteSane, PostIInv
  <1>4. CASE UNCHANGED vars
    <2>1. bal' = bal /\ books' = books /\ status' = status /\ call' = call
      BY <1>4 DEF vars
    <2>2. Journals' = Journals /\ \A w : Held(w)' = Held(w)
      BY <2>1 DEF Journals, Held
    <2>3. TypeOK'
      BY <2>1 DEF IInv, TypeOK
    <2>4. JournalsOK' /\ WalletsNeverOverdrawn'
      BY <2>1, <2>2 DEF IInv, JournalsOK, WalletsNeverOverdrawn
    <2>5. LateStopped' /\ DeactivationStopsSpending'
      BY <2>1 DEF IInv, LateStopped, DeactivationStopsSpending
    <2>6. QED
      BY <2>3, <2>4, <2>5 DEF IInv
  <1>5. QED
    BY <1>1, <1>2, <1>3, <1>4 DEF Next

-----------------------------------------------------------------------------
(* The theorems.                                                           *)

\* The inductive invariant holds in every reachable state.
THEOREM Invariance == Spec => []IInv
  <1>1. Init => IInv
    BY InitIInv
  <1>2. IInv /\ [Next]_vars => IInv'
    BY StepIInv
  <1>3. QED
    BY <1>1, <1>2, PTL DEF Spec

\* Whatever clients send, every balance stays on the ledger's grid of 0.0001
\* and every journal the 22 handlers post is well formed.
THEOREM TypeCorrect == Spec => []TypeOK
  <1>1. IInv => TypeOK
    BY DEF IInv
  <1>2. QED
    BY <1>1, Invariance, PTL

\* Although assertBalanced() compares unrounded amounts and ignores
\* currencies, the stored rows of every journal balance in each currency,
\* except where FEE_DEDUCTION_MONTHLY, CASHBACK_CREDIT or PROMOTIONAL_CREDIT
\* passes an off-grid amount through.
THEOREM RowsBalance == Spec => []UnbalancedOnlyByRawAmounts
  <1>1. IInv => UnbalancedOnlyByRawAmounts
    BY DEF IInv, JournalsOK, BalanceOK, UnbalancedOnlyByRawAmounts
  <1>2. QED
    BY <1>1, Invariance, PTL

\* No sequence of transactions overdraws a wallet, except through a closure
\* sweep or once the wallet has rows in both currencies: the balance check,
\* made against the unrounded amount of the first line, covers what the rows
\* of the whole journal take.
THEOREM NoOverdraft == Spec => []WalletsNeverOverdrawn
  <1>1. IInv => WalletsNeverOverdrawn
    BY DEF IInv
  <1>2. QED
    BY <1>1, Invariance, PTL

\* Whenever a journal takes from a wallet, other than a closure sweep, the
\* handler has asked for the balance check of that wallet and has counted
\* exactly the amount stored against its limit.
THEOREM LossesChecked == Spec => []CheckedAndMetered
  <1>1. IInv => CheckedAndMetered
    BY DEF IInv, JournalsOK, MeteredOK, CheckedAndMetered
  <1>2. QED
    BY <1>1, Invariance, PTL

\* What leaves the payer is what the payee, the revenue and the tax accounts
\* receive, exactly or, where Numbers or the parts of an instalment are
\* rounded one by one, within 0.0001.
THEOREM PaymentsArrive == Spec => []NothingLostInTransit
  <1>1. IInv => NothingLostInTransit
    BY DEF IInv, JournalsOK, TransitOK, ExactTypes, WithinTypes, NothingLostInTransit
  <1>2. QED
    BY <1>1, Invariance, PTL

\* A deactivated wallet is spent from at most once more, by the call that had
\* read its status before.
THEOREM OneLatePayment == Spec => []DeactivationStopsSpending
  <1>1. IInv => DeactivationStopsSpending
    BY DEF IInv
  <1>2. QED
    BY <1>1, Invariance, PTL

=============================================================================
