---------------------------- MODULE SumTheorems ----------------------------
(***************************************************************************)
(* Sums over finite sets, for the proofs about balances, limits and        *)
(* reports.  SumFunctionOnSet(w, S) removes the elements of S one by one   *)
(* in an order CHOOSE picks; here it is shown to be the sum in any order.  *)
(*                                                                         *)
(* The induction is by least counterexample: a non-empty set of subsets of *)
(* a finite set has an element with no proper subset in it (SubsetMin),    *)
(* which the library states without an operator parameter.                 *)
(***************************************************************************)
EXTENDS Integers, FiniteSets, Functions, FiniteSetTheorems, TLAPS

\* Among subsets of a finite set there is a smallest one.
LEMMA SubsetMin ==
  ASSUME NEW S, IsFiniteSet(S), NEW B, B \subseteq SUBSET S, B # {}
  PROVE  \E T \in B : \A U \in B : U \subseteq T => U = T
  <1>1. IsWellFoundedOn(StrictSubsetOrdering(S), SUBSET S)
    BY FS_StrictSubsetOrderingWellFounded, FS_FiniteSubsetsOfFinite
  <1>2. \E T \in B : \A U \in B : ~ (<<U, T>> \in StrictSubsetOrdering(S))
    BY <1>1, WFMin
  <1>3. QED
    BY <1>2 DEF StrictSubsetOrdering

\* The element a sum takes out first, and what is left.
First(s) == CHOOSE x \in s : TRUE
Rest(s)  == s \ {First(s)}

\* Taking the first element out of a set leaves a smaller one.
LEMMA FirstRest ==
  ASSUME NEW s, s # {}
  PROVE  First(s) \in s /\ Rest(s) \subseteq s /\ Rest(s) # s
  BY DEF First, Rest

\* g holds the sums of w over the subsets of S.
Sums(g, w, S) ==
  g = [s \in SUBSET S |-> IF s = {} THEN 0 ELSE w[First(s)] + g[Rest(s)]]

\* The library's sum is an entry of the table of sums.
LEMMA SumUnfold ==
  ASSUME NEW w, NEW S
  PROVE  SumFunctionOnSet(w, S) = (CHOOSE g : Sums(g, w, S))[S]
  BY DEF SumFunctionOnSet, FoldFunctionOnSet, MapThenFoldSet, Sums, First, Rest

\* Two tables of sums agree where both are defined.
LEMMA SumsAgree ==
  ASSUME NEW w, NEW S, NEW T, IsFiniteSet(S), NEW g, NEW h,
         Sums(g, w, S), Sums(h, w, T), NEW s \in SUBSET S, s \in SUBSET T
  PROVE  g[s] = h[s]
  <1> DEFINE B == {u \in SUBSET S : u \in SUBSET T /\ g[u] # h[u]}
  <1>1. SUFFICES ASSUME B # {} PROVE FALSE
    OBVIOUS
  <1>2. B \subseteq SUBSET S
    OBVIOUS
  <1>3. PICK u \in B : \A v \in B : v \subseteq u => v = u
    <2> HIDE DEF B
    <2>1. QED
      BY <1>1, <1>2, SubsetMin
  <1>4. CASE u = {}
    BY <1>3, <1>4 DEF Sums
  <1>5. CASE u # {}
    <2>1. First(u) \in u /\ Rest(u) \subseteq u /\ Rest(u) # u
      BY <1>5, FirstRest
    <2>2. g[Rest(u)] = h[Rest(u)]
      BY <1>3, <2>1
    <2>3. g[u] = w[First(u)] + g[Rest(u)] /\ h[u] = w[First(u)] + h[Rest(u)]
      BY <1>3, <1>5 DEF Sums
    <2>4. QED
      BY <1>3, <2>2, <2>3
  <1>6. QED
    BY <1>4, <1>5

\* Every finite set has a table of sums.
LEMMA SumsExist ==
  ASSUME NEW w, NEW S, IsFiniteSet(S)
  PROVE  \E g : Sums(g, w, S)
  <1> DEFINE B == {u \in SUBSET S : ~ \E g : Sums(g, w, u)}
  <1>1. SUFFICES ASSUME B # {} PROVE FALSE
    OBVIOUS
  <1>2. B \subseteq SUBSET S
    OBVIOUS
  <1>3. PICK u \in B : \A v \in B : v \subseteq u => v = u
    <2> HIDE DEF B
    <2>1. QED
      BY <1>1, <1>2, SubsetMin
  <1> DEFINE G(v) == CHOOSE g : Sums(g, w, v)
  <1>4. ASSUME NEW v, v \subseteq u, v # u PROVE Sums(G(v), w, v)
    <2>1. \E g : Sums(g, w, v)
      BY <1>3, <1>4
    <2>2. QED
      BY <2>1
  <1> HIDE DEF G
  <1> DEFINE val(s) == IF s = {} THEN 0 ELSE w[First(s)] + G(Rest(s))[Rest(s)]
             g0 == [s \in SUBSET u |-> val(s)]
  <1>5. ASSUME NEW t, t \subseteq u, t # u PROVE G(t)[t] = val(t)
    <2>1. Sums(G(t), w, t)
      BY <1>4, <1>5
    <2>2. CASE t = {}
      BY <2>1, <2>2 DEF Sums
    <2>3. CASE t # {}
      <3>1. Rest(t) \subseteq t /\ Rest(t) # u /\ Rest(t) \subseteq u
        BY <1>5, <2>3, FirstRest
      <3>2. Sums(G(Rest(t)), w, Rest(t))
        BY <1>4, <3>1
      <3>3. IsFiniteSet(t)
        BY <1>3, <1>5, FS_Subset
      <3>4. G(t)[Rest(t)] = G(Rest(t))[Rest(t)]
        BY <2>1, <3>1, <3>2, <3>3, SumsAgree
      <3>5. G(t)[t] = w[First(t)] + G(t)[Rest(t)]
        BY <2>1, <2>3 DEF Sums
      <3>6. QED
        BY <2>3, <3>4, <3>5
    <2>4. QED
      BY <2>2, <2>3
  <1>6. \A s \in SUBSET u : val(s) = IF s = {} THEN 0 ELSE w[First(s)] + g0[Rest(s)]
    <2> SUFFICES ASSUME NEW s \in SUBSET u, s # {}
                 PROVE  G(Rest(s))[Rest(s)] = g0[Rest(s)]
      OBVIOUS
    <2>1. Rest(s) \subseteq u /\ Rest(s) # u
      BY FirstRest
    <2>2. g0[Rest(s)] = val(Rest(s))
      BY <2>1
    <2> HIDE DEF val, g0
    <2>3. QED
      BY <1>5, <2>1, <2>2
  <1>7. Sums(g0, w, u)
    <2> HIDE DEF val
    <2>1. QED
      BY <1>6 DEF Sums
  <1>8. QED
    BY <1>3, <1>7

\* A finite sum is its first element and the sum of the rest.
LEMMA SumFirst ==
  ASSUME NEW w, NEW S, IsFiniteSet(S)
  PROVE  SumFunctionOnSet(w, S) = IF S = {} THEN 0 ELSE w[First(S)] + SumFunctionOnSet(w, Rest(S))
  <1> DEFINE g == CHOOSE f : Sums(f, w, S)
             h == CHOOSE f : Sums(f, w, Rest(S))
  <1>1. Sums(g, w, S)
    BY SumsExist
  <1>2. Rest(S) \subseteq S /\ IsFiniteSet(Rest(S))
    BY FS_Subset DEF Rest
  <1>3. Sums(h, w, Rest(S))
    BY <1>2, SumsExist
  <1>4. SumFunctionOnSet(w, S) = g[S] /\ SumFunctionOnSet(w, Rest(S)) = h[Rest(S)]
    BY SumUnfold
  <1> HIDE DEF g, h
  <1>5. g[Rest(S)] = h[Rest(S)]
    BY <1>1, <1>2, <1>3, SumsAgree
  <1>6. g[S] = IF S = {} THEN 0 ELSE w[First(S)] + g[Rest(S)]
    BY <1>1 DEF Sums
  <1>7. QED
    BY <1>4, <1>5, <1>6

\* The empty sum.
LEMMA SumEmpty ==
  ASSUME NEW w
  PROVE  SumFunctionOnSet(w, {}) = 0
  BY SumFirst, FS_EmptySet

\* The sum of integers is an integer.
LEMMA SumType ==
  ASSUME NEW S, IsFiniteSet(S), NEW w, \A x \in S : w[x] \in Int
  PROVE  SumFunctionOnSet(w, S) \in Int
  <1> DEFINE B == {u \in SUBSET S : SumFunctionOnSet(w, u) \notin Int}
  <1>1. SUFFICES ASSUME B # {} PROVE FALSE
    OBVIOUS
  <1>2. B \subseteq SUBSET S
    OBVIOUS
  <1>3. PICK u \in B : \A v \in B : v \subseteq u => v = u
    <2> HIDE DEF B
    <2>1. QED
      BY <1>1, <1>2, SubsetMin
  <1>4. IsFiniteSet(u)
    BY <1>3, FS_Subset
  <1>5. u # {}
    <2>1. SumFunctionOnSet(w, {}) \in Int
      BY SumEmpty
    <2>2. QED
      BY <1>3, <2>1
  <1>6. First(u) \in u /\ Rest(u) \subseteq u /\ Rest(u) # u
    BY <1>5, FirstRest
  <1>7. SumFunctionOnSet(w, Rest(u)) \in Int
    BY <1>3, <1>6
  <1>8. SumFunctionOnSet(w, u) = w[First(u)] + SumFunctionOnSet(w, Rest(u))
    BY <1>4, <1>5, SumFirst
  <1>9. QED
    BY <1>3, <1>6, <1>7, <1>8

\* Any element may be taken out first.
LEMMA SumRemove ==
  ASSUME NEW S, IsFiniteSet(S), NEW w, \A x \in S : w[x] \in Int, NEW e \in S
  PROVE  SumFunctionOnSet(w, S) = w[e] + SumFunctionOnSet(w, S \ {e})
  <1> DEFINE B == {u \in SUBSET S : \E x \in u :
                     SumFunctionOnSet(w, u) # w[x] + SumFunctionOnSet(w, u \ {x})}
  <1>1. SUFFICES ASSUME B # {} PROVE FALSE
    OBVIOUS
  <1>2. B \subseteq SUBSET S
    OBVIOUS
  <1>3. PICK u \in B : \A v \in B : v \subseteq u => v = u
    <2> HIDE DEF B
    <2>1. QED
      BY <1>1, <1>2, SubsetMin
  <1>4. PICK x \in u : SumFunctionOnSet(w, u) # w[x] + SumFunctionOnSet(w, u \ {x})
    BY <1>3
  <1> DEFINE c == First(u)
             v == (u \ {c}) \ {x}
  <1>5. c \in u /\ IsFiniteSet(u) /\ u \subseteq S
    BY <1>3, <1>4, FirstRest, FS_Subset
  <1>6. SumFunctionOnSet(w, u) = w[c] + SumFunctionOnSet(w, u \ {c})
    BY <1>4, <1>5, SumFirst DEF Rest
  <1>7. x # c
    BY <1>4, <1>6
  <1> HIDE DEF c
  <1>8. SumFunctionOnSet(w, u \ {c}) = w[x] + SumFunctionOnSet(w, v)
    <2>1. u \ {c} \notin B /\ u \ {c} \in SUBSET S /\ x \in u \ {c}
      BY <1>3, <1>4, <1>5, <1>7
    <2>2. QED
      BY <2>1
  <1>9. SumFunctionOnSet(w, u \ {x}) = w[c] + SumFunctionOnSet(w, v)
    <2>1. u \ {x} \notin B /\ u \ {x} \in SUBSET S /\ c \in u \ {x} /\ (u \ {x}) \ {c} = v
      BY <1>3, <1>4, <1>5, <1>7
    <2>2. QED
      BY <2>1
  <1>10. SumFunctionOnSet(w, v) \in Int /\ w[c] \in Int /\ w[x] \in Int
    BY <1>4, <1>5, FS_Subset, SumType
  <1>11. QED
    BY <1>4, <1>6, <1>8, <1>9, <1>10

\* One more element.
LEMMA SumAdd ==
  ASSUME NEW S, IsFiniteSet(S), NEW e, e \notin S, NEW w, \A x \in S \cup {e} : w[x] \in Int
  PROVE  SumFunctionOnSet(w, S \cup {e}) = w[e] + SumFunctionOnSet(w, S)
  <1>1. IsFiniteSet(S \cup {e}) /\ (S \cup {e}) \ {e} = S
    BY FS_AddElement
  <1>2. QED
    BY <1>1, SumRemove

\* The sum depends only on the summands.
LEMMA SumEqual ==
  ASSUME NEW S, IsFiniteSet(S), NEW w, NEW v, \A x \in S : w[x] = v[x]
  PROVE  SumFunctionOnSet(w, S) = SumFunctionOnSet(v, S)
  <1> DEFINE B == {u \in SUBSET S : SumFunctionOnSet(w, u) # SumFunctionOnSet(v, u)}
  <1>1. SUFFICES ASSUME B # {} PROVE FALSE
    OBVIOUS
  <1>2. B \subseteq SUBSET S
    OBVIOUS
  <1>3. PICK u \in B : \A t \in B : t \subseteq u => t = u
    <2> HIDE DEF B
    <2>1. QED
      BY <1>1, <1>2, SubsetMin
  <1>4. u # {}
    <2>1. SumFunctionOnSet(w, {}) = SumFunctionOnSet(v, {})
      BY SumEmpty
    <2>2. QED
      BY <1>3, <2>1
  <1>5. First(u) \in u /\ Rest(u) \subseteq u /\ Rest(u) # u /\ IsFiniteSet(u)
    BY <1>3, <1>4, FirstRest, FS_Subset
  <1>6. SumFunctionOnSet(w, Rest(u)) = SumFunctionOnSet(v, Rest(u))
    BY <1>3, <1>5
  <1>7. /\ SumFunctionOnSet(w, u) = w[First(u)] + SumFunctionOnSet(w, Rest(u))
        /\ SumFunctionOnSet(v, u) = v[First(u)] + SumFunctionOnSet(v, Rest(u))
    BY <1>4, <1>5, SumFirst
  <1>8. QED
    BY <1>3, <1>5, <1>6, <1>7

\* Two sets without a common element.
LEMMA SumUnion ==
  ASSUME NEW S, NEW T, IsFiniteSet(S), IsFiniteSet(T), S \cap T = {},
         NEW w, \A x \in S \cup T : w[x] \in Int
  PROVE  SumFunctionOnSet(w, S \cup T) = SumFunctionOnSet(w, S) + SumFunctionOnSet(w, T)
  <1> DEFINE B == {u \in SUBSET T : SumFunctionOnSet(w, S \cup u) #
                                      SumFunctionOnSet(w, S) + SumFunctionOnSet(w, u)}
  <1>1. SUFFICES ASSUME B # {} PROVE FALSE
    OBVIOUS
  <1>2. B \subseteq SUBSET T
    OBVIOUS
  <1>3. PICK u \in B : \A t \in B : t \subseteq u => t = u
    <2> HIDE DEF B
    <2>1. QED
      BY <1>1, <1>2, SubsetMin
  <1>s. SumFunctionOnSet(w, S) \in Int
    BY SumType
  <1>4. u # {}
    <2>1. SumFunctionOnSet(w, S \cup {}) = SumFunctionOnSet(w, S) + SumFunctionOnSet(w, {})
      <3>1. S \cup {} = S
        OBVIOUS
      <3>2. QED
        BY <1>s, <3>1, SumEmpty
    <2>2. QED
      BY <1>3, <2>1
  <1>5. PICK e \in u : TRUE
    BY <1>4
  <1> DEFINE r == u \ {e}
  <1>6. /\ IsFiniteSet(u) /\ IsFiniteSet(r) /\ IsFiniteSet(S \cup r) /\ r \subseteq u /\ r # u
        /\ e \notin S \cup r /\ S \cup u = (S \cup r) \cup {e}
        /\ \A x \in S \cup u : w[x] \in Int
    BY <1>3, <1>5, FS_Subset, FS_Union
  <1>7. SumFunctionOnSet(w, S \cup r) = SumFunctionOnSet(w, S) + SumFunctionOnSet(w, r)
    BY <1>3, <1>6
  <1>8. SumFunctionOnSet(w, S \cup u) = w[e] + SumFunctionOnSet(w, S \cup r)
    <2> HIDE DEF r
    <2>1. QED
      BY <1>6, SumAdd
  <1>9. SumFunctionOnSet(w, u) = w[e] + SumFunctionOnSet(w, r)
    BY <1>5, <1>6, SumRemove
  <1>10. SumFunctionOnSet(w, r) \in Int /\ w[e] \in Int
    BY <1>5, <1>6, SumType
  <1>11. QED
    BY <1>3, <1>7, <1>8, <1>9, <1>10, <1>s

\* A sum of sums.
LEMMA SumPlus ==
  ASSUME NEW S, IsFiniteSet(S), NEW w, NEW v, NEW z,
         \A x \in S : w[x] \in Int /\ v[x] \in Int /\ z[x] = w[x] + v[x]
  PROVE  SumFunctionOnSet(z, S) = SumFunctionOnSet(w, S) + SumFunctionOnSet(v, S)
  <1> DEFINE B == {u \in SUBSET S : SumFunctionOnSet(z, u) #
                                      SumFunctionOnSet(w, u) + SumFunctionOnSet(v, u)}
  <1>1. SUFFICES ASSUME B # {} PROVE FALSE
    OBVIOUS
  <1>2. B \subseteq SUBSET S
    OBVIOUS
  <1>3. PICK u \in B : \A t \in B : t \subseteq u => t = u
    <2> HIDE DEF B
    <2>1. QED
      BY <1>1, <1>2, SubsetMin
  <1>4. u # {}
    <2>1. SumFunctionOnSet(z, {}) = SumFunctionOnSet(w, {}) + SumFunctionOnSet(v, {})
      BY SumEmpty
    <2>2. QED
      BY <1>3, <2>1
  <1>5. First(u) \in u /\ Rest(u) \subseteq u /\ Rest(u) # u /\ IsFiniteSet(u) /\ IsFiniteSet(Rest(u))
    BY <1>3, <1>4, FirstRest, FS_Subset
  <1>6. SumFunctionOnSet(z, Rest(u)) = SumFunctionOnSet(w, Rest(u)) + SumFunctionOnSet(v, Rest(u))
    BY <1>3, <1>5
  <1>7. /\ SumFunctionOnSet(w, u) = w[First(u)] + SumFunctionOnSet(w, Rest(u))
        /\ SumFunctionOnSet(v, u) = v[First(u)] + SumFunctionOnSet(v, Rest(u))
        /\ SumFunctionOnSet(z, u) = z[First(u)] + SumFunctionOnSet(z, Rest(u))
    BY <1>4, <1>5, SumFirst
  <1>8. /\ SumFunctionOnSet(w, Rest(u)) \in Int /\ SumFunctionOnSet(v, Rest(u)) \in Int
        /\ w[First(u)] \in Int /\ v[First(u)] \in Int /\ z[First(u)] = w[First(u)] + v[First(u)]
    BY <1>3, <1>5, SumType
  <1>9. QED
    BY <1>3, <1>6, <1>7, <1>8

\* A sum of naturals is not negative.
LEMMA SumNat ==
  ASSUME NEW S, IsFiniteSet(S), NEW w, \A x \in S : w[x] \in Nat
  PROVE  SumFunctionOnSet(w, S) \in Nat
  <1> DEFINE B == {u \in SUBSET S : SumFunctionOnSet(w, u) \notin Nat}
  <1>1. SUFFICES ASSUME B # {} PROVE FALSE
    OBVIOUS
  <1>2. B \subseteq SUBSET S
    OBVIOUS
  <1>3. PICK u \in B : \A t \in B : t \subseteq u => t = u
    <2> HIDE DEF B
    <2>1. QED
      BY <1>1, <1>2, SubsetMin
  <1>4. u # {}
    <2>1. SumFunctionOnSet(w, {}) \in Nat
      BY SumEmpty
    <2>2. QED
      BY <1>3, <2>1
  <1>5. First(u) \in u /\ Rest(u) \subseteq u /\ Rest(u) # u /\ IsFiniteSet(u)
    BY <1>3, <1>4, FirstRest, FS_Subset
  <1>6. SumFunctionOnSet(w, Rest(u)) \in Nat /\ w[First(u)] \in Nat
    BY <1>3, <1>5
  <1>7. SumFunctionOnSet(w, u) = w[First(u)] + SumFunctionOnSet(w, Rest(u))
    BY <1>4, <1>5, SumFirst
  <1>8. QED
    BY <1>3, <1>6, <1>7

\* Summing over the image of an injection is summing over its domain.
LEMMA SumImage ==
  ASSUME NEW S, IsFiniteSet(S), NEW h, \A x, y \in S : h[x] = h[y] => x = y,
         NEW w, NEW v, \A x \in S : v[x] \in Int /\ w[h[x]] = v[x]
  PROVE  SumFunctionOnSet(w, {h[x] : x \in S}) = SumFunctionOnSet(v, S)
  <1> DEFINE Im(u) == {h[x] : x \in u}
             B == {u \in SUBSET S : ~ (IsFiniteSet(Im(u)) /\ SumFunctionOnSet(w, Im(u)) = SumFunctionOnSet(v, u))}
  <1>1. SUFFICES ASSUME B # {} PROVE FALSE
    OBVIOUS
  <1>2. B \subseteq SUBSET S
    OBVIOUS
  <1>3. PICK u \in B : \A t \in B : t \subseteq u => t = u
    <2> HIDE DEF B
    <2>1. QED
      BY <1>1, <1>2, SubsetMin
  <1>4. u # {}
    <2>1. Im({}) = {}
      OBVIOUS
    <2>2. IsFiniteSet(Im({})) /\ SumFunctionOnSet(w, Im({})) = SumFunctionOnSet(v, {})
      BY <2>1, SumEmpty, FS_EmptySet
    <2> HIDE DEF Im
    <2>3. QED
      BY <1>3, <2>2
  <1>5. First(u) \in u /\ Rest(u) \subseteq u /\ Rest(u) # u /\ IsFiniteSet(u) /\ u \subseteq S
    BY <1>3, <1>4, FirstRest, FS_Subset
  <1>6. IsFiniteSet(Im(Rest(u))) /\ SumFunctionOnSet(w, Im(Rest(u))) = SumFunctionOnSet(v, Rest(u))
    BY <1>3, <1>5
  <1>7. Im(u) = Im(Rest(u)) \cup {h[First(u)]} /\ h[First(u)] \notin Im(Rest(u))
    BY <1>5 DEF Rest
  <1>8. \A y \in Im(u) : w[y] \in Int
    BY <1>5
  <1> HIDE DEF Im
  <1>9. SumFunctionOnSet(w, Im(u)) = w[h[First(u)]] + SumFunctionOnSet(w, Im(Rest(u))) /\ IsFiniteSet(Im(u))
    <2> DEFINE R == Im(Rest(u))
               e == h[First(u)]
    <2>1. IsFiniteSet(R) /\ e \notin R /\ Im(u) = R \cup {e} /\ \A y \in R \cup {e} : w[y] \in Int
      BY <1>6, <1>7, <1>8
    <2> HIDE DEF R, e
    <2>2. IsFiniteSet(R \cup {e}) /\ SumFunctionOnSet(w, R \cup {e}) = w[e] + SumFunctionOnSet(w, R)
      BY <2>1, SumAdd, FS_AddElement
    <2>3. QED
      BY <2>1, <2>2 DEF R, e
  <1>10. SumFunctionOnSet(v, u) = v[First(u)] + SumFunctionOnSet(v, Rest(u))
    BY <1>4, <1>5, SumFirst
  <1>11. w[h[First(u)]] = v[First(u)]
    BY <1>5
  <1>12. QED
    BY <1>3, <1>6, <1>9, <1>10, <1>11

\* A sum of zeros.
LEMMA SumZero ==
  ASSUME NEW S, IsFiniteSet(S), NEW w, \A x \in S : w[x] = 0
  PROVE  SumFunctionOnSet(w, S) = 0
  <1>1. SumFunctionOnSet(w, S) \in Int
    BY SumType
  <1>2. \A x \in S : w[x] \in Int /\ w[x] \in Int /\ w[x] = w[x] + w[x]
    OBVIOUS
  <1>3. SumFunctionOnSet(w, S) = SumFunctionOnSet(w, S) + SumFunctionOnSet(w, S)
    BY <1>2, SumPlus
  <1>4. \A n \in Int : n = n + n => n = 0
    OBVIOUS
  <1>5. QED
    BY <1>1, <1>3, <1>4

\* The sum of the opposites.
LEMMA SumNegate ==
  ASSUME NEW S, IsFiniteSet(S), NEW w, NEW v, \A x \in S : w[x] \in Int /\ v[x] = -w[x]
  PROVE  SumFunctionOnSet(v, S) = -SumFunctionOnSet(w, S)
  <1> DEFINE z == [x \in S |-> 0]
  <1>1. \A x \in S : w[x] \in Int /\ v[x] \in Int /\ z[x] = w[x] + v[x]
    OBVIOUS
  <1>2. SumFunctionOnSet(z, S) = 0
    BY SumZero
  <1> HIDE DEF z
  <1>3. SumFunctionOnSet(z, S) = SumFunctionOnSet(w, S) + SumFunctionOnSet(v, S)
    BY <1>1, SumPlus
  <1>4. SumFunctionOnSet(w, S) \in Int /\ SumFunctionOnSet(v, S) \in Int
    BY <1>1, SumType
  <1>5. QED
    BY <1>2, <1>3, <1>4

\* Smaller summands give a smaller sum.
LEMMA SumLeq ==
  ASSUME NEW S, IsFiniteSet(S), NEW w, NEW v,
         \A x \in S : w[x] \in Int /\ v[x] \in Int /\ w[x] <= v[x]
  PROVE  SumFunctionOnSet(w, S) <= SumFunctionOnSet(v, S)
  <1> DEFINE d == [x \in S |-> v[x] - w[x]]
  <1>1. \A x \in S : d[x] \in Nat /\ d[x] \in Int /\ v[x] = w[x] + d[x]
    OBVIOUS
  <1> HIDE DEF d
  <1>2. SumFunctionOnSet(d, S) \in Nat
    BY <1>1, SumNat
  <1>3. SumFunctionOnSet(v, S) = SumFunctionOnSet(w, S) + SumFunctionOnSet(d, S)
    BY <1>1, SumPlus
  <1>4. SumFunctionOnSet(w, S) \in Int
    BY SumType
  <1>5. QED
    BY <1>2, <1>3, <1>4

\* One summand.
LEMMA SumSingle ==
  ASSUME NEW e, NEW w, w[e] \in Int
  PROVE  SumFunctionOnSet(w, {e}) = w[e]
  <1>1. {e} = {} \cup {e} /\ e \notin {}
    OBVIOUS
  <1>2. SumFunctionOnSet(w, {} \cup {e}) = w[e] + SumFunctionOnSet(w, {})
    BY SumAdd, FS_EmptySet
  <1>3. QED
    BY <1>1, <1>2, SumEmpty

\* A finite set of integers has a largest element.
LEMMA FiniteMax ==
  ASSUME NEW S, IsFiniteSet(S), S # {}, S \subseteq Int
  PROVE  \E m \in S : \A x \in S : x <= m
  <1> DEFINE HasMax(T) == \E m \in T : \A x \in T : x <= m
             B == {T \in SUBSET S : T # {} /\ ~HasMax(T)}
  <1>1. B = {}
    <2>0. SUFFICES ASSUME B # {} PROVE FALSE
      OBVIOUS
    <2>1. PICK T \in B : \A U \in B : U \subseteq T => U = T
      <3>1. B \subseteq SUBSET S
        OBVIOUS
      <3>2. \A D : D \subseteq SUBSET S /\ D # {} => \E T \in D : \A U \in D : U \subseteq T => U = T
        <4>1. IsFiniteSet(S)
          OBVIOUS
        <4>2. QED
          BY ONLY <4>1, SubsetMin
      <3> HIDE DEF B
      <3>3. QED
        BY ONLY <2>0, <3>1, <3>2
    <2>2. PICK e : e \in T
      BY <2>1
    <2>3. CASE T = {e}
      <3>1. e <= e /\ e \in T
        BY <2>1, <2>2
      <3>2. HasMax(T)
        BY <2>3, <3>1
      <3>3. QED
        BY <2>1, <3>2
    <2>4. CASE T # {e}
      <3>1. T \ {e} \in SUBSET S /\ T \ {e} # {} /\ T \ {e} # T
        BY <2>1, <2>2, <2>4
      <3>2. PICK m \in T \ {e} : \A x \in T \ {e} : x <= m
        BY <2>1, <3>1
      <3>3. m \in Int /\ e \in Int /\ \A x \in T : x \in Int
        BY <2>1, <2>2
      <3>4. CASE e <= m
        BY <2>1, <3>2, <3>4
      <3>5. CASE m < e
        <4>1. \A x \in T : x <= e
          BY <3>2, <3>3, <3>5
        <4>2. QED
          BY <2>1, <2>2, <4>1
      <3>6. QED
        BY <3>3, <3>4, <3>5
    <2>5. QED
      BY <2>3, <2>4
  <1>2. QED
    BY <1>1

\* A common factor may be taken out of a sum.
LEMMA SumScale ==
  ASSUME NEW S, IsFiniteSet(S), NEW k \in Int, NEW w, NEW v,
         \A x \in S : w[x] \in Int /\ v[x] = w[x] * k
  PROVE  SumFunctionOnSet(v, S) = SumFunctionOnSet(w, S) * k
  <1> DEFINE B == {u \in SUBSET S : SumFunctionOnSet(v, u) # SumFunctionOnSet(w, u) * k}
  <1>1. SUFFICES ASSUME B # {} PROVE FALSE
    OBVIOUS
  <1>2. B \subseteq SUBSET S
    OBVIOUS
  <1>3. PICK u \in B : \A z \in B : z \subseteq u => z = u
    <2> HIDE DEF B
    <2>1. QED
      BY <1>1, <1>2, SubsetMin
  <1>4. IsFiniteSet(u)
    BY <1>3, FS_Subset
  <1>5. u # {}
    <2>1. SumFunctionOnSet(w, {}) = 0 /\ SumFunctionOnSet(v, {}) = 0 /\ 0 * k = 0
      BY SumEmpty
    <2>2. SumFunctionOnSet(v, {}) = SumFunctionOnSet(w, {}) * k
      BY <2>1
    <2>3. SumFunctionOnSet(v, u) # SumFunctionOnSet(w, u) * k
      BY <1>3
    <2>4. QED
      BY <2>2, <2>3
  <1>6. First(u) \in u /\ Rest(u) \subseteq u /\ Rest(u) # u
    BY <1>5, FirstRest
  <1>7. SumFunctionOnSet(v, Rest(u)) = SumFunctionOnSet(w, Rest(u)) * k
    BY <1>3, <1>6
  <1>8. /\ SumFunctionOnSet(v, u) = v[First(u)] + SumFunctionOnSet(v, Rest(u))
        /\ SumFunctionOnSet(w, u) = w[First(u)] + SumFunctionOnSet(w, Rest(u))
    BY <1>4, <1>5, SumFirst
  <1>9. w[First(u)] \in Int /\ v[First(u)] = w[First(u)] * k
    BY <1>3, <1>6
  <1>10. SumFunctionOnSet(w, Rest(u)) \in Int
    <2>1. IsFiniteSet(Rest(u)) /\ \A x \in Rest(u) : w[x] \in Int
      BY <1>3, <1>4, <1>6, FS_Subset
    <2>2. QED
      BY <2>1, SumType
  <1>11. \A a, b \in Int : a * k + b * k = (a + b) * k
    OBVIOUS
  <1>12. SumFunctionOnSet(v, u) = SumFunctionOnSet(w, u) * k
    BY <1>7, <1>8, <1>9, <1>10, <1>11
  <1>13. QED
    BY <1>3, <1>12

\* A sum of ones counts.
LEMMA SumOnes ==
  ASSUME NEW S, IsFiniteSet(S), NEW w, \A x \in S : w[x] = 1
  PROVE  SumFunctionOnSet(w, S) = Cardinality(S)
  <1> DEFINE B == {u \in SUBSET S : SumFunctionOnSet(w, u) # Cardinality(u)}
  <1>1. SUFFICES ASSUME B # {} PROVE FALSE
    OBVIOUS
  <1>2. B \subseteq SUBSET S
    OBVIOUS
  <1>3. PICK u \in B : \A z \in B : z \subseteq u => z = u
    <2> HIDE DEF B
    <2>1. QED
      BY <1>1, <1>2, SubsetMin
  <1>4. IsFiniteSet(u)
    BY <1>3, FS_Subset
  <1>5. u # {}
    <2>1. SumFunctionOnSet(w, {}) = 0 /\ Cardinality({}) = 0
      BY SumEmpty, FS_EmptySet
    <2>2. QED
      BY <1>3, <2>1
  <1>6. First(u) \in u /\ Rest(u) \subseteq u /\ Rest(u) # u
    BY <1>5, FirstRest
  <1>7. SumFunctionOnSet(w, Rest(u)) = Cardinality(Rest(u))
    BY <1>3, <1>6
  <1>8. SumFunctionOnSet(w, u) = w[First(u)] + SumFunctionOnSet(w, Rest(u)) /\ w[First(u)] = 1
    BY <1>3, <1>4, <1>5, <1>6, SumFirst
  <1>9. Cardinality(u) = 1 + Cardinality(Rest(u))
    <2>1. Cardinality(u \ {First(u)}) = Cardinality(u) - 1 /\ Cardinality(u) \in Nat
      BY <1>4, <1>6, FS_RemoveElement, FS_CardinalityType
    <2>2. QED
      BY <2>1 DEF Rest
  <1>10. QED
    BY <1>3, <1>7, <1>8, <1>9

\* A sum may be split at a subset.
LEMMA SumSplit ==
  ASSUME NEW S, IsFiniteSet(S), NEW T, T \subseteq S, NEW w, \A x \in S : w[x] \in Int
  PROVE  SumFunctionOnSet(w, S) = SumFunctionOnSet(w, T) + SumFunctionOnSet(w, S \ T)
  <1> DEFINE R == S \ T
  <1>1. IsFiniteSet(T) /\ IsFiniteSet(R)
    BY FS_Subset
  <1>2. T \cap R = {} /\ T \cup R = S
    OBVIOUS
  <1>3. \A x \in T \cup R : w[x] \in Int
    BY <1>2
  <1> HIDE DEF R
  <1>4. SumFunctionOnSet(w, T \cup R) = SumFunctionOnSet(w, T) + SumFunctionOnSet(w, R)
    BY <1>1, <1>2, <1>3, SumUnion
  <1>5. QED
    BY <1>2, <1>4 DEF R
=============================================================================
