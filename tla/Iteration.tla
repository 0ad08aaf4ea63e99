------------------------------ MODULE Iteration ------------------------------
(***************************************************************************)
(* Facts about finite iteration, used to reason about the loops of the     *)
(* code: loops over the operations of a block, sequences joined into one,  *)
(* sums over finite sets, loops over a set in the order a map iteration    *)
(* gives, and tables indexed by height that grow or shrink at the end.     *)
(* Induction is done on sets: a non-empty set of naturals has a least      *)
(* element, so a set of counterexamples is empty when none of its members  *)
(* can be least.                                                           *)
(***************************************************************************)
EXTENDS Integers, SequencesExt, FiniteSetTheorems, SequenceTheorems, WellFoundedInduction, TLAPS

\* Every non-empty set of naturals has a least element.
LEMMA LeastNat ==
    ASSUME NEW T \in SUBSET Nat, T # {}
    PROVE  \E m \in T : \A k \in T : m <= k
<1> DEFINE R == OpToRel(<, Nat)
<1>1. IsWellFoundedOn(R, Nat)
    BY NatLessThanWellFounded
<1>2. PICK m \in T : \A k \in T : ~(<<k, m>> \in R)
    <2> HIDE DEF R
    <2> QED BY <1>1, WFMin
<1>3. \A k \in T : ~(k < m)
    BY <1>2 DEF OpToRel
<1> QED BY <1>3

\* Every non-empty set of naturals with an upper bound has a greatest element.
LEMMA GreatestNat ==
    ASSUME NEW n \in Nat, NEW T \in SUBSET (0..n), T # {}
    PROVE  \E m \in T : \A k \in T : k <= m
<1> DEFINE D == {n - k : k \in T}
<1>0. \A k \in T : k \in Nat /\ k <= n /\ n - k \in Nat
    OBVIOUS
<1>1. D \subseteq Nat /\ D # {}
    BY <1>0
<1>2. PICK d \in D : \A k \in D : d <= k
    <2> HIDE DEF D
    <2> QED BY <1>1, LeastNat
<1>3. PICK m \in T : d = n - m
    BY <1>2
<1>4. \A k \in T : n - k \in D
    OBVIOUS
<1>5. ASSUME NEW k \in T PROVE k <= m
    <2>1. n - m <= n - k BY <1>2, <1>3, <1>4
    <2> QED BY <2>1, <1>0
<1> QED BY <1>5

\* A set that holds 0 and, with each number below n, its successor, holds
\* every number up to n.
LEMMA FiniteInduction ==
    ASSUME NEW n \in Nat, NEW G,
           0 \in G,
           \A i \in 1..n : i - 1 \in G => i \in G
    PROVE  0..n \subseteq G
<1> DEFINE Bad == (0..n) \ G
<1> SUFFICES ASSUME Bad # {} PROVE FALSE
    OBVIOUS
<1>1. Bad \in SUBSET Nat
    OBVIOUS
<1>2. PICK m \in Bad : \A k \in Bad : m <= k
    <2> HIDE DEF Bad
    <2> QED BY <1>1, LeastNat
<1>3. m \in 1..n /\ m - 1 \notin Bad /\ m - 1 \in 0..n
    BY <1>2
<1> QED BY <1>2, <1>3

\* Applying the functions F[1], ..., F[n] in turn to s yields a sequence of
\* results, all in S.
LEMMA IterationExists ==
    ASSUME NEW S, NEW s \in S, NEW n \in Nat, NEW F \in [1..n -> [S -> S]]
    PROVE  \E f \in [0..n -> S] :
              f[0] = s /\ \A i \in 1..n : f[i] = F[i][f[i - 1]]
<1> DEFINE P(m) == \E f \in [0..m -> S] :
                      f[0] = s /\ \A i \in 1..m : f[i] = F[i][f[i - 1]]
           G == {m \in 0..n : P(m)}
<1>1. 0 \in G
    <2> DEFINE f == [i \in 0..0 |-> s]
    <2>1. f \in [0..0 -> S] /\ f[0] = s /\ \A i \in 1..0 : f[i] = F[i][f[i - 1]]
        OBVIOUS
    <2> HIDE DEF f
    <2>2. P(0) BY <2>1
    <2> QED BY <2>2
<1>2. ASSUME NEW i \in 1..n, i - 1 \in G PROVE i \in G
    <2>1. PICK f \in [0..(i - 1) -> S] :
              f[0] = s /\ \A j \in 1..(i - 1) : f[j] = F[j][f[j - 1]]
        BY <1>2
    <2> DEFINE g == [j \in 0..i |-> IF j = i THEN F[i][f[i - 1]] ELSE f[j]]
    <2>2. f[i - 1] \in S
        OBVIOUS
    <2>3. F[i][f[i - 1]] \in S
        BY <2>2
    <2>4. g \in [0..i -> S] /\ g[0] = s
        BY <2>1, <2>3
    <2>5. ASSUME NEW j \in 1..i PROVE g[j] = F[j][g[j - 1]]
        <3>1. CASE j = i BY <3>1
        <3>2. CASE j # i
            <4>1. j \in 1..(i - 1) /\ j - 1 \in 0..(i - 1) /\ j - 1 # i BY <3>2
            <4>2. g[j] = f[j] /\ g[j - 1] = f[j - 1] BY <4>1, <3>2
            <4> QED BY <4>1, <4>2, <2>1
        <3> QED BY <3>1, <3>2
    <2> HIDE DEF g
    <2>6. P(i) BY <2>4, <2>5
    <2>7. i \in 0..n OBVIOUS
    <2> HIDE DEF P
    <2> QED BY <2>6, <2>7
<1>3. n \in G
    <2> HIDE DEF G
    <2>1. 0..n \subseteq G BY <1>1, <1>2, FiniteInduction
    <2> QED BY <2>1
<1> QED BY <1>3

-----------------------------------------------------------------------------
(* Flattening.                                                             *)

\* f[i] joins the first i of the n sequences of s.
Joins(f, T, n, s) ==
    /\ f \in [0..n -> Seq(T)]
    /\ f[0] = << >>
    /\ \A i \in 1..n : f[i] = f[i - 1] \o s[i]

\* FlattenSeq joins the sequences one after the other.
LEMMA FlattenSteps ==
    ASSUME NEW T, NEW n \in Nat, NEW s \in [1..n -> Seq(T)]
    PROVE  \E f : Joins(f, T, n, s) /\ f[n] = FlattenSeq(s)
<1>1. s \in Seq(Seq(T)) /\ Len(s) = n OBVIOUS
<1>2. << >> \in Seq(T) OBVIOUS
<1>3. CASE n = 0
    <2> DEFINE f == [i \in 0..0 |-> << >>]
    <2>1. FlattenSeq(s) = << >>
        <3>1. s = << >> BY <1>1, <1>3
        <3>2. FlattenSeq(s) = s BY <1>1, <1>3 DEF FlattenSeq
        <3> QED BY <3>1, <3>2
    <2>2. f \in [0..0 -> Seq(T)] /\ f[0] = << >> BY <1>2
    <2>3. 1..0 = {} OBVIOUS
    <2> HIDE DEF f
    <2>4. Joins(f, T, n, s) BY <1>3, <2>2, <2>3 DEF Joins
    <2> QED BY <1>3, <2>1, <2>2, <2>4
<1>4. CASE n # 0
    <2> DEFINE Eqn(g) == g = [i \in 1..n |-> IF i = 1 THEN s[i] ELSE g[i - 1] \o s[i]]
               F == [i \in 1..n |-> [x \in Seq(T) |-> x \o s[i]]]
    <2>1. F \in [1..n -> [Seq(T) -> Seq(T)]] OBVIOUS
    <2>2. PICK h \in [0..n -> Seq(T)] : h[0] = << >> /\ \A i \in 1..n : h[i] = F[i][h[i - 1]]
        <3> DEFINE S == Seq(T)
                   e == << >>
                   k == n
        <3>1. e \in S /\ k \in Nat /\ F \in [1..k -> [S -> S]] BY <1>2, <2>1
        <3> HIDE DEF F, S, e, k, Eqn
        <3>2. \E f \in [0..k -> S] : f[0] = e /\ \A i \in 1..k : f[i] = F[i][f[i - 1]]
            BY <3>1, IterationExists, SMTT(30)
        <3> QED BY <3>2 DEF S, e, k
    <2>3. \A i \in 1..n : h[i - 1] \in Seq(T) /\ h[i] = h[i - 1] \o s[i]
        <3> SUFFICES ASSUME NEW i \in 1..n PROVE h[i - 1] \in Seq(T) /\ h[i] = h[i - 1] \o s[i]
            OBVIOUS
        <3>1. i - 1 \in 0..n OBVIOUS
        <3> QED BY <2>2, <3>1
    <2> DEFINE w == [i \in 1..n |-> h[i]]
    <2>4. Eqn(w)
        <3>1. ASSUME NEW i \in 1..n PROVE w[i] = IF i = 1 THEN s[i] ELSE w[i - 1] \o s[i]
            <4>1. CASE i = 1
                <5>0. i - 1 = 0 /\ s[i] \in Seq(T) BY <4>1
                <5>1. h[0] = << >> /\ h[i] = h[0] \o s[i] /\ s[i] \in Seq(T) BY <2>2, <2>3, <5>0
                <5>2. << >> \o s[i] = s[i] BY <5>1
                <5> QED BY <4>1, <5>1, <5>2
            <4>2. CASE i # 1
                <5>1. i - 1 \in 1..n BY <4>2
                <5>2. w[i - 1] = h[i - 1] /\ w[i] = h[i] BY <5>1
                <5> QED BY <2>3, <4>2, <5>2
            <4> QED BY <4>1, <4>2
        <3> DEFINE u == [i \in 1..n |-> IF i = 1 THEN s[i] ELSE w[i - 1] \o s[i]]
        <3>2. \A i \in 1..n : w[i] = u[i] BY <3>1
        <3>3. DOMAIN w = 1..n /\ DOMAIN u = 1..n /\ w = [i \in 1..n |-> w[i]] /\ u = [i \in 1..n |-> u[i]]
            OBVIOUS
        <3> HIDE DEF w, u
        <3>4. w = u BY <3>2, <3>3
        <3> QED BY <3>4 DEF u
    <2> DEFINE g == CHOOSE g : Eqn(g)
    <2>5. FlattenSeq(s) = g[n] BY <1>1, <1>4 DEF FlattenSeq
    <2>6. Eqn(g)
        <3>1. \E x : Eqn(x) BY <2>4
        <3> HIDE DEF Eqn
        <3> QED BY <3>1
    <2> HIDE DEF g, w
    <2>7. /\ DOMAIN g = 1..n
          /\ \A i \in 1..n : g[i] = IF i = 1 THEN s[i] ELSE g[i - 1] \o s[i]
        BY <2>6
    <2> HIDE DEF Eqn, F
    <2> DEFINE f == [i \in 0..n |-> IF i = 0 THEN << >> ELSE g[i]]
               G == {i \in 0..n : f[i] \in Seq(T)}
    <2>8. f[0] = << >> /\ f[n] = FlattenSeq(s) BY <1>4, <2>5
    <2>9. ASSUME NEW i \in 1..n, f[i - 1] \in Seq(T) PROVE f[i] = f[i - 1] \o s[i] /\ f[i] \in Seq(T)
        <3>1. f[i] = g[i] OBVIOUS
        <3>2. CASE i = 1
            <4>1. f[i - 1] = << >> /\ s[i] \in Seq(T) BY <2>8, <3>2
            <4>2. g[i] = s[i] BY <2>7, <3>2
            <4>3. << >> \o s[i] = s[i] BY <4>1
            <4> HIDE DEF f
            <4> QED BY <3>1, <4>1, <4>2, <4>3
        <3>3. CASE i # 1
            <4>1. i - 1 \in 0..n /\ i - 1 # 0 BY <3>3
            <4>2. f[i - 1] = g[i - 1] BY <4>1
            <4>3. g[i] = g[i - 1] \o s[i] /\ s[i] \in Seq(T) BY <2>7, <3>3
            <4> HIDE DEF f
            <4> QED BY <2>9, <3>1, <4>2, <4>3
        <3> QED BY <3>2, <3>3
    <2>10. 0..n \subseteq G
        <3>1. 0 \in G BY <1>2, <2>8
        <3>2. ASSUME NEW i \in 1..n, i - 1 \in G PROVE i \in G
            <4>1. i \in 0..n /\ f[i - 1] \in Seq(T) BY <3>2
            <4>2. f[i] \in Seq(T) BY <2>9, <4>1
            <4> HIDE DEF f
            <4> QED BY <4>1, <4>2
        <3> HIDE DEF G
        <3> QED BY <3>1, <3>2, FiniteInduction
    <2>11. \A i \in 0..n : f[i] \in Seq(T) BY <2>10
    <2>12. f \in [0..n -> Seq(T)]
        <3>1. f = [i \in 0..n |-> f[i]] OBVIOUS
        <3> HIDE DEF f
        <3> QED BY <2>11, <3>1
    <2>13. \A i \in 1..n : f[i] = f[i - 1] \o s[i]
        <3>1. \A i \in 1..n : i - 1 \in 0..n OBVIOUS
        <3> HIDE DEF f
        <3> QED BY <2>9, <2>11, <3>1
    <2> HIDE DEF f
    <2>14. Joins(f, T, n, s) BY <2>8, <2>12, <2>13 DEF Joins
    <2> QED BY <2>8, <2>14
<1> QED BY <1>3, <1>4

\* Joining two sequences joins their elements.
LEMMA ConcatRange ==
    ASSUME NEW T, NEW s \in Seq(T), NEW t \in Seq(T)
    PROVE  s \o t \in Seq(T) /\ Range(s \o t) = Range(s) \cup Range(t)
<1> DEFINE r == s \o t
<1>1. /\ r \in Seq(T) /\ Len(r) = Len(s) + Len(t) /\ Len(s) \in Nat /\ Len(t) \in Nat
      /\ \A i \in 1..Len(s) : r[i] = s[i]
      /\ \A i \in 1..Len(t) : r[Len(s) + i] = t[i]
    OBVIOUS
<1>2. DOMAIN r = 1..Len(r) /\ DOMAIN s = 1..Len(s) /\ DOMAIN t = 1..Len(t) OBVIOUS
<1> HIDE DEF r
<1>3. ASSUME NEW x \in Range(r) PROVE x \in Range(s) \cup Range(t)
    <2>1. PICK i \in 1..Len(r) : x = r[i] BY <1>2 DEF Range
    <2>2. CASE i <= Len(s)
        <3>1. i \in 1..Len(s) BY <1>1, <2>2
        <3> QED BY <1>1, <1>2, <2>1, <3>1 DEF Range
    <2>3. CASE i > Len(s)
        <3>1. i - Len(s) \in 1..Len(t) /\ Len(s) + (i - Len(s)) = i BY <1>1, <2>3
        <3>2. x = t[i - Len(s)] BY <1>1, <2>1, <3>1
        <3> QED BY <1>2, <3>1, <3>2 DEF Range
    <2> QED BY <1>1, <2>2, <2>3
<1>4. ASSUME NEW x \in Range(s) PROVE x \in Range(r)
    <2>1. PICK i \in 1..Len(s) : x = s[i] BY <1>2 DEF Range
    <2>2. i \in 1..Len(r) /\ r[i] = x BY <1>1, <2>1
    <2> QED BY <1>2, <2>2 DEF Range
<1>5. ASSUME NEW x \in Range(t) PROVE x \in Range(r)
    <2>1. PICK i \in 1..Len(t) : x = t[i] BY <1>2 DEF Range
    <2>2. Len(s) + i \in 1..Len(r) /\ r[Len(s) + i] = x BY <1>1, <2>1
    <2> QED BY <1>2, <2>2 DEF Range
<1> QED BY <1>1, <1>3, <1>4, <1>5 DEF r

\* Flattening keeps the elements, and no others.
LEMMA FlattenRange ==
    ASSUME NEW T, NEW n \in Nat, NEW s \in [1..n -> Seq(T)]
    PROVE  /\ FlattenSeq(s) \in Seq(T)
           /\ \A x : x \in Range(FlattenSeq(s)) <=> \E i \in 1..n : x \in Range(s[i])
<1>1. PICK f : Joins(f, T, n, s) /\ f[n] = FlattenSeq(s) BY FlattenSteps
<1>2. /\ f \in [0..n -> Seq(T)] /\ f[0] = << >>
      /\ \A i \in 1..n : f[i] = f[i - 1] \o s[i]
    BY <1>1 DEF Joins
<1> DEFINE Kept(k) == \A x : x \in Range(f[k]) <=> \E i \in 1..k : x \in Range(s[i])
           G == {k \in 0..n : Kept(k)}
<1>3. 0 \in G
    <2>1. Range(f[0]) = {} BY <1>2 DEF Range
    <2>2. Kept(0) BY <2>1
    <2> HIDE DEF Kept
    <2> QED BY <2>2
<1>4. ASSUME NEW k \in 1..n, k - 1 \in G PROVE k \in G
    <2>0. k - 1 \in 0..n OBVIOUS
    <2>1. f[k - 1] \in Seq(T) /\ s[k] \in Seq(T) /\ f[k] = f[k - 1] \o s[k] BY <1>2, <2>0
    <2>2. Range(f[k]) = Range(f[k - 1]) \cup Range(s[k]) BY <2>1, ConcatRange
    <2>3. Kept(k - 1) BY <1>4
    <2>4. \A i : i \in 1..k <=> i \in 1..(k - 1) \/ i = k OBVIOUS
    <2>5. Kept(k) BY <2>2, <2>3, <2>4
    <2> HIDE DEF Kept
    <2> QED BY <2>5
<1>5. n \in G
    <2> HIDE DEF G
    <2>1. 0..n \subseteq G BY <1>3, <1>4, FiniteInduction
    <2> QED BY <2>1
<1>6. n \in 0..n OBVIOUS
<1> QED BY <1>1, <1>2, <1>5, <1>6

-----------------------------------------------------------------------------
(* Sums over finite sets.  SumFunctionOnSet takes the elements out one by  *)
(* one, in an order that CHOOSE decides; the sum does not depend on it.    *)

\* A set of subsets of a finite set that holds a subset whenever it holds that
\* subset without any one element, holds them all.
LEMMA SubsetInduction ==
    ASSUME NEW S, IsFiniteSet(S), NEW G,
           \A T \in SUBSET S : (\A x \in T : T \ {x} \in G) => T \in G
    PROVE  SUBSET S \subseteq G
<1> DEFINE Bad == (SUBSET S) \ G
           K == {Cardinality(T) : T \in Bad}
<1> SUFFICES ASSUME Bad # {} PROVE FALSE OBVIOUS
<1>1. \A T \in SUBSET S : IsFiniteSet(T) /\ Cardinality(T) \in Nat
    BY FS_Subset, FS_CardinalityType
<1>2. K \in SUBSET Nat /\ K # {} BY <1>1
<1>3. PICK m \in K : \A k \in K : m <= k
    <2> HIDE DEF K
    <2> QED BY <1>2, LeastNat
<1>4. PICK T \in Bad : m = Cardinality(T) BY <1>3
<1>5. ASSUME NEW x \in T PROVE T \ {x} \in G
    <2>1. Cardinality(T \ {x}) = m - 1 BY <1>1, <1>4, FS_RemoveElement
    <2>2. m \in Nat BY <1>2, <1>3
    <2>3. T \ {x} \in Bad => Cardinality(T \ {x}) \in K OBVIOUS
    <2>4. m - 1 \notin K BY <1>3, <2>2
    <2>5. T \ {x} \in SUBSET S BY <1>4
    <2> QED BY <2>1, <2>3, <2>4, <2>5
<1> QED BY <1>4, <1>5

\* The element taken out of a set first, and one round of the sum.
Taken(T) == CHOOSE x \in T : TRUE
Round(f, it, T) == IF T = {} THEN 0 ELSE f[Taken(T)] + it[T \ {Taken(T)}]

Rounds(it, f, S) == it = [T \in SUBSET S |-> Round(f, it, T)]

\* The element taken is one of the set.
LEMMA TakenIn == \A T : T # {} => Taken(T) \in T
BY DEF Taken

\* The rounds of a sum over a finite set exist.
LEMMA RoundsExist ==
    ASSUME NEW S, IsFiniteSet(S), NEW f
    PROVE  \E it : Rounds(it, f, S)
<1> DEFINE n == Cardinality(S)
           P(it, k) == \A T \in SUBSET S : Cardinality(T) <= k => it[T] = Round(f, it, T)
           G == {k \in 0..n : \E it : P(it, k)}
<1>1. n \in Nat /\ \A T \in SUBSET S : /\ IsFiniteSet(T) /\ Cardinality(T) \in Nat
                                       /\ Cardinality(T) <= n
    BY FS_Subset, FS_CardinalityType
<1>2. \A T \in SUBSET S : T # {} => /\ T \ {Taken(T)} \in SUBSET S
                                    /\ Cardinality(T \ {Taken(T)}) = Cardinality(T) - 1
    BY <1>1, TakenIn, FS_RemoveElement
<1>3. 0 \in G
    <2> DEFINE it == [T \in SUBSET S |-> 0]
    <2>1. \A T \in SUBSET S : Cardinality(T) <= 0 => T = {} BY <1>1, FS_EmptySet
    <2>2. P(it, 0) BY <2>1 DEF Round
    <2>3. 0 \in 0..n BY <1>1
    <2> QED BY <2>2, <2>3
<1>4. ASSUME NEW k \in 1..n, k - 1 \in G PROVE k \in G
    <2>1. PICK it : P(it, k - 1) BY <1>4
    <2> DEFINE jt == [T \in SUBSET S |-> IF Cardinality(T) <= k - 1 THEN it[T] ELSE Round(f, it, T)]
    <2>2. ASSUME NEW T \in SUBSET S, Cardinality(T) <= k PROVE jt[T] = Round(f, jt, T)
        <3>1. jt[T] = Round(f, it, T) BY <2>1
        <3>2. CASE T = {} BY <3>1, <3>2 DEF Round
        <3>3. CASE T # {}
            <4> DEFINE U == T \ {Taken(T)}
            <4>1. U \in SUBSET S /\ Cardinality(U) <= k - 1 BY <1>1, <1>2, <2>2, <3>3
            <4>2. jt[U] = it[U] BY <4>1
            <4> HIDE DEF jt
            <4> QED BY <3>1, <4>2 DEF Round
        <3> QED BY <3>2, <3>3
    <2> HIDE DEF jt
    <2>3. P(jt, k) BY <2>2
    <2>4. k \in 0..n BY <1>1
    <2> HIDE DEF P
    <2> QED BY <2>3, <2>4
<1>5. n \in G
    <2>1. 0..n \subseteq G
        <3> HIDE DEF G, n
        <3> QED BY <1>1, <1>3, <1>4, FiniteInduction
    <2> HIDE DEF G
    <2> QED BY <1>1, <2>1
<1>6. PICK it : P(it, n) BY <1>5
<1> DEFINE jt == [T \in SUBSET S |-> it[T]]
<1>7. \A T \in SUBSET S : it[T] = Round(f, it, T) BY <1>1, <1>6
<1>8. \A T \in SUBSET S : Round(f, it, T) = Round(f, jt, T) BY <1>2 DEF Round
<1>9. jt = [T \in SUBSET S |-> Round(f, jt, T)]
    <2>1. \A T \in SUBSET S : it[T] = Round(f, jt, T) BY <1>7, <1>8
    <2> HIDE DEF Round
    <2> QED BY <2>1, Zenon
<1> HIDE DEF jt
<1>10. Rounds(jt, f, S) BY <1>9 DEF Rounds
<1> QED BY <1>10

\* The sum is the last of such rounds.
LEMMA SumIsRounds ==
    ASSUME NEW S, IsFiniteSet(S), NEW f
    PROVE  \E it : /\ \A T \in SUBSET S : it[T] = Round(f, it, T)
                   /\ SumFunctionOnSet(f, S) = it[S]
<1> DEFINE Eqn(it) == it = [T \in SUBSET S |->
                        IF T = {} THEN 0
                        ELSE f[CHOOSE x \in T : TRUE] + it[T \ {CHOOSE x \in T : TRUE}]]
           g == CHOOSE it : Eqn(it)
<1>1. \E it : Eqn(it)
    <2>1. PICK it : Rounds(it, f, S) BY RoundsExist
    <2>2. Eqn(it) BY <2>1 DEF Rounds, Round, Taken
    <2> HIDE DEF Eqn
    <2> QED BY <2>2
<1>2. Eqn(g)
    <2> HIDE DEF Eqn
    <2> QED BY <1>1
<1>3. SumFunctionOnSet(f, S) = g[S]
    BY DEF SumFunctionOnSet, FoldFunctionOnSet, MapThenFoldSet
<1> HIDE DEF g
<1>4. \A T \in SUBSET S : g[T] = Round(f, g, T) BY <1>2 DEF Round, Taken
<1> QED BY <1>3, <1>4

\* Taking out the first element.
LEMMA SumFirst ==
    ASSUME NEW S, IsFiniteSet(S), NEW f
    PROVE  /\ S = {} => SumFunctionOnSet(f, S) = 0
           /\ S # {} => SumFunctionOnSet(f, S) = f[Taken(S)] + SumFunctionOnSet(f, S \ {Taken(S)})
<1>1. PICK it : /\ \A T \in SUBSET S : it[T] = Round(f, it, T)
                /\ SumFunctionOnSet(f, S) = it[S]
    BY SumIsRounds
<1>2. S \in SUBSET S OBVIOUS
<1>3. S = {} => SumFunctionOnSet(f, S) = 0 BY <1>1, <1>2 DEF Round
<1>4. ASSUME S # {}
      PROVE  SumFunctionOnSet(f, S) = f[Taken(S)] + SumFunctionOnSet(f, S \ {Taken(S)})
    <2> DEFINE R == S \ {Taken(S)}
    <2>1. it[S] = f[Taken(S)] + it[R] BY <1>1, <1>2, <1>4 DEF Round
    <2>2. IsFiniteSet(R) /\ R \in SUBSET S BY FS_Subset
    <2> HIDE DEF R
    <2>3. PICK jt : /\ \A T \in SUBSET R : jt[T] = Round(f, jt, T)
                    /\ SumFunctionOnSet(f, R) = jt[R]
        BY <2>2, SumIsRounds
    <2> DEFINE G == {T \in SUBSET R : it[T] = jt[T]}
    <2>4. ASSUME NEW T \in SUBSET R, \A x \in T : T \ {x} \in G PROVE T \in G
        <3>1. it[T] = Round(f, it, T) /\ jt[T] = Round(f, jt, T) BY <1>1, <2>2, <2>3
        <3>2. CASE T = {} BY <3>1, <3>2 DEF Round
        <3>3. CASE T # {}
            <4>1. T \ {Taken(T)} \in G BY <2>4, <3>3, TakenIn
            <4>2. it[T \ {Taken(T)}] = jt[T \ {Taken(T)}] BY <4>1
            <4>3. Round(f, it, T) = Round(f, jt, T) BY <4>2 DEF Round
            <4> QED BY <3>1, <4>3
        <3> QED BY <3>2, <3>3
    <2>5. SUBSET R \subseteq G
        <3> HIDE DEF G
        <3> QED BY <2>2, <2>4, SubsetInduction
    <2>6. it[R] = jt[R] BY <2>5
    <2> QED BY <1>1, <2>1, <2>3, <2>6 DEF R
<1> QED BY <1>3, <1>4

\* An empty sum.
LEMMA SumEmpty == \A f : SumFunctionOnSet(f, {}) = 0
<1> TAKE f
<1>1. IsFiniteSet({}) BY FS_EmptySet
<1> QED BY <1>1, SumFirst

\* f is a function with integer values on S.
IntegersOn(f, S) == \A x \in S : f[x] \in Int

\* A sum of integers is one.
LEMMA SumType ==
    ASSUME NEW S, IsFiniteSet(S), NEW f, IntegersOn(f, S)
    PROVE  SumFunctionOnSet(f, S) \in Int
<1> DEFINE G == {T \in SUBSET S : SumFunctionOnSet(f, T) \in Int}
<1>1. ASSUME NEW T \in SUBSET S, \A x \in T : T \ {x} \in G PROVE T \in G
    <2>1. IsFiniteSet(T) BY FS_Subset
    <2>2. CASE T = {}
        <3>1. SumFunctionOnSet(f, T) = 0 BY <2>2, SumEmpty
        <3> QED BY <3>1
    <2>3. CASE T # {}
        <3>1. Taken(T) \in T /\ f[Taken(T)] \in Int BY <2>3, TakenIn DEF IntegersOn
        <3>2. SumFunctionOnSet(f, T \ {Taken(T)}) \in Int BY <1>1, <3>1
        <3>3. SumFunctionOnSet(f, T) = f[Taken(T)] + SumFunctionOnSet(f, T \ {Taken(T)})
            BY <2>1, <2>3, SumFirst
        <3> QED BY <3>1, <3>2, <3>3
    <2> QED BY <2>2, <2>3
<1>2. SUBSET S \subseteq G
    <2> HIDE DEF G
    <2> QED BY <1>1, SubsetInduction
<1> QED BY <1>2

\* Taking out any element.
LEMMA SumTakeOut ==
    ASSUME NEW S, IsFiniteSet(S), NEW f, IntegersOn(f, S), NEW x \in S
    PROVE  SumFunctionOnSet(f, S) = f[x] + SumFunctionOnSet(f, S \ {x})
<1> DEFINE H(T) == \A y \in T : SumFunctionOnSet(f, T) = f[y] + SumFunctionOnSet(f, T \ {y})
           G == {T \in SUBSET S : H(T)}
<1>1. ASSUME NEW T \in SUBSET S, \A y \in T : T \ {y} \in G PROVE T \in G
    <2> SUFFICES ASSUME NEW y \in T
                 PROVE  SumFunctionOnSet(f, T) = f[y] + SumFunctionOnSet(f, T \ {y})
        OBVIOUS
    <2> DEFINE z == Taken(T)
               U == (T \ {y}) \ {z}
    <2>1. IsFiniteSet(T) /\ z \in T BY FS_Subset, TakenIn
    <2>2. SumFunctionOnSet(f, T) = f[z] + SumFunctionOnSet(f, T \ {z}) BY <2>1, SumFirst
    <2>3. CASE y = z BY <2>2, <2>3
    <2>4. CASE y # z
        <3>1. H(T \ {y}) /\ H(T \ {z}) BY <1>1, <2>1
        <3>2. z \in T \ {y} /\ y \in T \ {z} /\ (T \ {z}) \ {y} = U BY <2>1, <2>4
        <3>3. SumFunctionOnSet(f, T \ {y}) = f[z] + SumFunctionOnSet(f, U) BY <3>1, <3>2
        <3>4. SumFunctionOnSet(f, T \ {z}) = f[y] + SumFunctionOnSet(f, U) BY <3>1, <3>2
        <3>5. f[y] \in Int /\ f[z] \in Int BY <2>1 DEF IntegersOn
        <3>6. SumFunctionOnSet(f, U) \in Int
            <4>1. IsFiniteSet(U) BY FS_Subset
            <4>2. IntegersOn(f, U) BY DEF IntegersOn
            <4> QED BY <4>1, <4>2, SumType
        <3> HIDE DEF z, U
        <3> QED BY <2>2, <3>3, <3>4, <3>5, <3>6
    <2> QED BY <2>3, <2>4
<1>2. SUBSET S \subseteq G
    <2> HIDE DEF G
    <2> QED BY <1>1, SubsetInduction
<1>3. S \in G BY <1>2
<1> QED BY <1>3

\* The sum looks at the values in the set only.
LEMMA SumAgree ==
    ASSUME NEW S, IsFiniteSet(S), NEW f, NEW g, \A x \in S : f[x] = g[x]
    PROVE  SumFunctionOnSet(f, S) = SumFunctionOnSet(g, S)
<1> DEFINE G == {T \in SUBSET S : SumFunctionOnSet(f, T) = SumFunctionOnSet(g, T)}
<1>1. ASSUME NEW T \in SUBSET S, \A x \in T : T \ {x} \in G PROVE T \in G
    <2>1. IsFiniteSet(T) BY FS_Subset
    <2>2. CASE T = {} BY <2>1, <2>2, SumFirst
    <2>3. CASE T # {}
        <3> DEFINE x == Taken(T)
        <3>1. x \in T /\ f[x] = g[x] BY <2>3, TakenIn
        <3>2. SumFunctionOnSet(f, T \ {x}) = SumFunctionOnSet(g, T \ {x}) BY <1>1, <3>1
        <3>3. /\ SumFunctionOnSet(f, T) = f[x] + SumFunctionOnSet(f, T \ {x})
              /\ SumFunctionOnSet(g, T) = g[x] + SumFunctionOnSet(g, T \ {x})
            BY <2>1, <2>3, SumFirst
        <3> QED BY <3>1, <3>2, <3>3
    <2> QED BY <2>2, <2>3
<1>2. SUBSET S \subseteq G
    <2> HIDE DEF G
    <2> QED BY <1>1, SubsetInduction
<1> QED BY <1>2

\* The sum over two disjoint sets.
LEMMA SumUnion ==
    ASSUME NEW S, IsFiniteSet(S), NEW R, IsFiniteSet(R), R \cap S = {},
           NEW f, IntegersOn(f, R), IntegersOn(f, S)
    PROVE  SumFunctionOnSet(f, R \cup S) = SumFunctionOnSet(f, R) + SumFunctionOnSet(f, S)
<1> DEFINE G == {T \in SUBSET S :
                    SumFunctionOnSet(f, R \cup T) = SumFunctionOnSet(f, R) + SumFunctionOnSet(f, T)}
<1>1. ASSUME NEW T \in SUBSET S, \A x \in T : T \ {x} \in G PROVE T \in G
    <2>1. IsFiniteSet(T) /\ IntegersOn(f, T) BY FS_Subset DEF IntegersOn
    <2>2. IsFiniteSet(R \cup T) /\ IntegersOn(f, R \cup T) BY <2>1, FS_Union DEF IntegersOn
    <2>3. SumFunctionOnSet(f, R) \in Int BY SumType
    <2>4. CASE T = {}
        <3>1. SumFunctionOnSet(f, T) = 0 BY <2>4, SumEmpty
        <3>2. SumFunctionOnSet(f, R \cup T) = SumFunctionOnSet(f, R)
            <4>1. R \cup T = R BY <2>4
            <4> QED BY <4>1
        <3>3. SumFunctionOnSet(f, R \cup T) = SumFunctionOnSet(f, R) + SumFunctionOnSet(f, T)
            BY <2>3, <3>1, <3>2
        <3> QED BY <3>3
    <2>5. CASE T # {}
        <3>1. PICK x \in T : TRUE BY <2>5
        <3> DEFINE U == T \ {x}
        <3>2. (R \cup T) \ {x} = R \cup U /\ x \in R \cup T OBVIOUS
        <3>3. SumFunctionOnSet(f, R \cup T) = f[x] + SumFunctionOnSet(f, (R \cup T) \ {x})
            BY <2>2, <3>2, SumTakeOut
        <3>4. SumFunctionOnSet(f, T) = f[x] + SumFunctionOnSet(f, U) BY <2>1, SumTakeOut
        <3>5. SumFunctionOnSet(f, R \cup U) = SumFunctionOnSet(f, R) + SumFunctionOnSet(f, U)
            BY <1>1
        <3>6. f[x] \in Int BY <2>1 DEF IntegersOn
        <3>7. SumFunctionOnSet(f, U) \in Int
            <4>1. IsFiniteSet(U) /\ IntegersOn(f, U) BY <2>1, FS_Subset DEF IntegersOn
            <4> QED BY <4>1, SumType
        <3> HIDE DEF U
        <3>8. SumFunctionOnSet(f, (R \cup T) \ {x}) = SumFunctionOnSet(f, R \cup U) BY <3>2
        <3>9. SumFunctionOnSet(f, R \cup T) = SumFunctionOnSet(f, R) + SumFunctionOnSet(f, T)
            BY <2>3, <3>3, <3>4, <3>5, <3>6, <3>7, <3>8
        <3> QED BY <3>9
    <2> QED BY <2>4, <2>5
<1>2. SUBSET S \subseteq G
    <2> HIDE DEF G
    <2> QED BY <1>1, SubsetInduction
<1> QED BY <1>2

\* The sum of sums and of differences.
LEMMA SumCombine ==
    ASSUME NEW S, IsFiniteSet(S), NEW f, NEW g, NEW h, NEW k \in {1, -1},
           IntegersOn(f, S), IntegersOn(g, S), \A x \in S : h[x] = f[x] + k * g[x]
    PROVE  SumFunctionOnSet(h, S) = SumFunctionOnSet(f, S) + k * SumFunctionOnSet(g, S)
<1> DEFINE G == {T \in SUBSET S :
                    SumFunctionOnSet(h, T) = SumFunctionOnSet(f, T) + k * SumFunctionOnSet(g, T)}
<1>1. ASSUME NEW T \in SUBSET S, \A x \in T : T \ {x} \in G PROVE T \in G
    <2>1. IsFiniteSet(T) BY FS_Subset
    <2>2. CASE T = {}
        <3>1. /\ SumFunctionOnSet(f, T) = 0 /\ SumFunctionOnSet(g, T) = 0
              /\ SumFunctionOnSet(h, T) = 0
            BY <2>2, SumEmpty
        <3>2. 0 = 0 + k * 0 OBVIOUS
        <3> QED BY <3>1, <3>2
    <2>3. CASE T # {}
        <3> DEFINE x == Taken(T)
                   U == T \ {x}
        <3>1. x \in T BY <2>3, TakenIn
        <3>2. /\ SumFunctionOnSet(f, T) = f[x] + SumFunctionOnSet(f, U)
              /\ SumFunctionOnSet(g, T) = g[x] + SumFunctionOnSet(g, U)
              /\ SumFunctionOnSet(h, T) = h[x] + SumFunctionOnSet(h, U)
            BY <2>1, <2>3, SumFirst
        <3>3. SumFunctionOnSet(h, U) = SumFunctionOnSet(f, U) + k * SumFunctionOnSet(g, U)
            BY <1>1, <3>1
        <3>4. f[x] \in Int /\ g[x] \in Int /\ h[x] = f[x] + k * g[x] BY <3>1 DEF IntegersOn
        <3>5. SumFunctionOnSet(f, U) \in Int /\ SumFunctionOnSet(g, U) \in Int
            <4>1. IsFiniteSet(U) /\ IntegersOn(f, U) /\ IntegersOn(g, U)
                BY <2>1, FS_Subset DEF IntegersOn
            <4> QED BY <4>1, SumType
        <3> HIDE DEF x, U
        <3>6. CASE k = 1 BY <3>2, <3>3, <3>4, <3>5, <3>6
        <3>7. CASE k = -1 BY <3>2, <3>3, <3>4, <3>5, <3>7
        <3> QED BY <3>6, <3>7
    <2> QED BY <2>2, <2>3
<1>2. SUBSET S \subseteq G
    <2> HIDE DEF G
    <2> QED BY <1>1, SubsetInduction
<1> QED BY <1>2

\* A sum of zeros.
LEMMA SumZero ==
    ASSUME NEW S, IsFiniteSet(S), NEW z, \A x \in S : z[x] = 0
    PROVE  SumFunctionOnSet(z, S) = 0
<1> DEFINE G == {T \in SUBSET S : SumFunctionOnSet(z, T) = 0}
<1>1. ASSUME NEW T \in SUBSET S, \A x \in T : T \ {x} \in G PROVE T \in G
    <2>1. IsFiniteSet(T) BY FS_Subset
    <2>2. CASE T = {}
        <3>1. SumFunctionOnSet(z, T) = 0 BY <2>2, SumEmpty
        <3> QED BY <3>1
    <2>3. CASE T # {}
        <3> DEFINE x == Taken(T)
        <3>1. x \in T /\ z[x] = 0 BY <2>3, TakenIn
        <3>2. SumFunctionOnSet(z, T \ {x}) = 0 BY <1>1, <3>1
        <3>3. SumFunctionOnSet(z, T) = z[x] + SumFunctionOnSet(z, T \ {x})
            BY <2>1, <2>3, SumFirst
        <3>4. SumFunctionOnSet(z, T) = 0 BY <3>1, <3>2, <3>3
        <3> QED BY <3>4
    <2> QED BY <2>2, <2>3
<1>2. SUBSET S \subseteq G
    <2> HIDE DEF G
    <2> QED BY <1>1, SubsetInduction
<1> QED BY <1>2

\* A sum with all signs changed, or none.
LEMMA SumScaled ==
    ASSUME NEW S, IsFiniteSet(S), NEW g, NEW h, NEW k \in {1, -1}, IntegersOn(g, S),
           \A x \in S : h[x] = k * g[x]
    PROVE  SumFunctionOnSet(h, S) = k * SumFunctionOnSet(g, S)
<1> DEFINE z == [x \in S |-> 0]
<1>1. IntegersOn(z, S) /\ \A x \in S : z[x] = 0 BY DEF IntegersOn
<1> HIDE DEF z
<1>2. SumFunctionOnSet(z, S) \in Int /\ SumFunctionOnSet(g, S) \in Int BY <1>1, SumType
<1>3. SumFunctionOnSet(z, S) = 0 BY <1>1, SumZero
<1>4. \A y \in Int : k * y \in Int /\ 0 + k * y = k * y
    <2>1. CASE k = 1 BY <2>1
    <2>2. CASE k = -1 BY <2>2
    <2> QED BY <2>1, <2>2
<1>5. \A x \in S : h[x] = z[x] + k * g[x]
    <2> SUFFICES ASSUME NEW x \in S PROVE h[x] = z[x] + k * g[x] OBVIOUS
    <2>1. g[x] \in Int /\ z[x] = 0 BY <1>1 DEF IntegersOn
    <2> QED BY <1>4, <2>1
<1>6. SumFunctionOnSet(h, S) = SumFunctionOnSet(z, S) + k * SumFunctionOnSet(g, S)
    BY <1>1, <1>5, SumCombine
<1> QED BY <1>2, <1>3, <1>4, <1>6

\* A sum of values each of which is covered by another, and by c more for some.
LEMMA SumCovered ==
    ASSUME NEW S, IsFiniteSet(S), NEW f, NEW g, IntegersOn(f, S), IntegersOn(g, S),
           NEW c \in Nat, NEW U \in SUBSET S,
           \A x \in S : f[x] <= g[x] + (IF x \in U THEN c ELSE 0)
    PROVE  /\ Cardinality(U) \in Nat
           /\ SumFunctionOnSet(f, S) <= SumFunctionOnSet(g, S) + Cardinality(U) * c
<1> DEFINE H(T) == /\ IsFiniteSet(U \cap T) /\ Cardinality(U \cap T) \in Nat
                   /\ SumFunctionOnSet(f, T) <= SumFunctionOnSet(g, T) + Cardinality(U \cap T) * c
           G == {T \in SUBSET S : H(T)}
<1>1. ASSUME NEW T \in SUBSET S, \A x \in T : T \ {x} \in G PROVE T \in G
    <2>1. IsFiniteSet(T) /\ IsFiniteSet(U \cap T) BY FS_Subset
    <2>2. Cardinality(U \cap T) \in Nat BY <2>1, FS_CardinalityType
    <2>3. CASE T = {}
        <3>1. SumFunctionOnSet(f, T) = 0 /\ SumFunctionOnSet(g, T) = 0 BY <2>3, SumEmpty
        <3>2. Cardinality(U \cap T) = 0
            <4>1. U \cap T = {} BY <2>3
            <4> QED BY <4>1, FS_EmptySet
        <3> QED BY <2>1, <2>2, <3>1, <3>2
    <2>4. CASE T # {}
        <3> DEFINE x == Taken(T)
                   R == T \ {x}
                   a == SumFunctionOnSet(f, R)
                   b == SumFunctionOnSet(g, R)
                   k == Cardinality(U \cap R)
                   m == Cardinality(U \cap T)
        <3>1. x \in T /\ f[x] \in Int /\ g[x] \in Int BY <2>4, TakenIn DEF IntegersOn
        <3>2. H(R) BY <1>1, <3>1
        <3>3. SumFunctionOnSet(f, T) = f[x] + a /\ SumFunctionOnSet(g, T) = g[x] + b
            BY <2>1, <2>4, SumFirst
        <3>4. a \in Int /\ b \in Int
            <4>1. IsFiniteSet(R) /\ IntegersOn(f, R) /\ IntegersOn(g, R) BY FS_Subset DEF IntegersOn
            <4> QED BY <4>1, SumType
        <3>5. f[x] <= g[x] + (IF x \in U THEN c ELSE 0) BY <3>1
        <3>6. m = IF x \in U THEN k + 1 ELSE k
            <4>1. CASE x \in U
                <5>1. U \cap T = (U \cap R) \cup {x} /\ x \notin U \cap R BY <3>1, <4>1
                <5> HIDE DEF x, R
                <5> QED BY <3>2, <4>1, <5>1, FS_AddElement
            <4>2. CASE x \notin U
                <5>1. U \cap T = U \cap R BY <4>2
                <5> QED BY <4>2, <5>1
            <4> QED BY <4>1, <4>2
        <3>7. k \in Nat /\ a <= b + k * c BY <3>2
        <3> HIDE DEF x, R, a, b, k, m
        <3>8. f[x] + a <= (g[x] + b) + m * c
            <4>1. CASE x \in U
                <5>1. m * c = k * c + c BY <3>6, <3>7, <4>1
                <5>2. k * c \in Int BY <3>7
                <5> QED BY <3>1, <3>4, <3>5, <3>7, <4>1, <5>1, <5>2
            <4>2. CASE x \notin U
                <5>1. k * c \in Int /\ m = k BY <3>6, <3>7, <4>2
                <5> QED BY <3>1, <3>4, <3>5, <3>7, <4>2, <5>1
            <4> QED BY <4>1, <4>2
        <3> QED BY <2>1, <2>2, <3>3, <3>8 DEF m
    <2> QED BY <2>3, <2>4
<1>2. SUBSET S \subseteq G
    <2> HIDE DEF G
    <2> QED BY <1>1, SubsetInduction
<1>3. S \in G /\ U \cap S = U BY <1>2
<1> QED BY <1>3

\* The sum over an interval grows with it.
LEMMA SumInterval ==
    ASSUME NEW n \in Nat, NEW f, IntegersOn(f, 1..n)
    PROVE  /\ IsFiniteSet(1..n) /\ SumFunctionOnSet(f, 1..n) \in Int
           /\ SumFunctionOnSet(f, 1..0) = 0
           /\ \A i \in 1..n : SumFunctionOnSet(f, 1..i) = SumFunctionOnSet(f, 1..(i - 1)) + f[i]
<1>1. \A i \in 0..n : IsFiniteSet(1..i) /\ IntegersOn(f, 1..i) BY FS_Interval DEF IntegersOn
<1>2. 1..0 = {} OBVIOUS
<1>3. SumFunctionOnSet(f, 1..0) = 0 BY <1>2, SumEmpty
<1>4. ASSUME NEW i \in 1..n
      PROVE  SumFunctionOnSet(f, 1..i) = SumFunctionOnSet(f, 1..(i - 1)) + f[i]
    <2>1. i \in 0..n /\ i - 1 \in 0..n /\ (1..i) \ {i} = 1..(i - 1) /\ i \in 1..i OBVIOUS
    <2>2. SumFunctionOnSet(f, 1..i) = f[i] + SumFunctionOnSet(f, 1..(i - 1))
        BY <1>1, <2>1, SumTakeOut
    <2>3. f[i] \in Int /\ SumFunctionOnSet(f, 1..(i - 1)) \in Int
        BY <1>1, <2>1, SumType DEF IntegersOn
    <2> QED BY <2>2, <2>3
<1>5. SumFunctionOnSet(f, 1..n) \in Int BY <1>1, SumType
<1> QED BY <1>1, <1>3, <1>4, <1>5

\* The sum over the elements of a sequence without repetitions.
LEMMA SumSequence ==
    ASSUME NEW T, NEW s \in Seq(T), IsInjective(s), NEW f, IntegersOn(f, T), NEW g,
           \A i \in 1..Len(s) : g[i] = f[s[i]]
    PROVE  /\ IsFiniteSet(Range(s)) /\ Len(s) \in Nat /\ IntegersOn(g, 1..Len(s))
           /\ SumFunctionOnSet(g, 1..Len(s)) = SumFunctionOnSet(f, Range(s))
<1> DEFINE n == Len(s)
           E(k) == {s[i] : i \in 1..k}
           G == {k \in 0..n : IsFiniteSet(E(k))
                    /\ SumFunctionOnSet(g, 1..k) = SumFunctionOnSet(f, E(k))}
<1>1. n \in Nat /\ DOMAIN s = 1..n /\ \A i \in 1..n : s[i] \in T OBVIOUS
<1>2. \A i, j \in 1..n : s[i] = s[j] => i = j BY <1>1 DEF IsInjective
<1>3. IntegersOn(g, 1..n) BY <1>1 DEF IntegersOn
<1> HIDE DEF n
<1>4. /\ SumFunctionOnSet(g, 1..0) = 0
      /\ \A i \in 1..n : SumFunctionOnSet(g, 1..i) = SumFunctionOnSet(g, 1..(i - 1)) + g[i]
    BY <1>1, <1>3, SumInterval
<1>5. 0 \in G
    <2>1. E(0) = {} OBVIOUS
    <2>2. IsFiniteSet({}) BY FS_EmptySet
    <2>3. SumFunctionOnSet(f, {}) = 0 BY SumEmpty
    <2>4. 0 \in 0..n BY <1>1
    <2> HIDE DEF E
    <2> QED BY <1>4, <2>1, <2>2, <2>3, <2>4
<1>6. ASSUME NEW k \in 1..n, k - 1 \in G PROVE k \in G
    <2>1. E(k) = E(k - 1) \cup {s[k]} /\ E(k) \subseteq T BY <1>1
    <2>2. s[k] \notin E(k - 1)
        <3> SUFFICES ASSUME s[k] \in E(k - 1) PROVE FALSE OBVIOUS
        <3>1. PICK i \in 1..(k - 1) : s[k] = s[i] OBVIOUS
        <3>2. i \in 1..n /\ i # k BY <1>1
        <3> QED BY <1>2, <3>1, <3>2
    <2> HIDE DEF E
    <2>3. /\ IsFiniteSet(E(k - 1)) /\ k \in 0..n
          /\ SumFunctionOnSet(g, 1..(k - 1)) = SumFunctionOnSet(f, E(k - 1))
        BY <1>1, <1>6
    <2>4. IsFiniteSet(E(k))
        <3>1. IsFiniteSet(E(k - 1) \cup {s[k]}) BY <2>3, FS_AddElement
        <3> QED BY <2>1, <3>1
    <2>5. IntegersOn(f, E(k)) /\ IntegersOn(f, E(k - 1)) BY <2>1 DEF IntegersOn
    <2>6. E(k) \ {s[k]} = E(k - 1) /\ s[k] \in E(k) BY <2>1, <2>2
    <2>7. SumFunctionOnSet(f, E(k)) = f[s[k]] + SumFunctionOnSet(f, E(k - 1))
        BY <2>4, <2>5, <2>6, SumTakeOut
    <2>8. SumFunctionOnSet(g, 1..k) = SumFunctionOnSet(g, 1..(k - 1)) + f[s[k]]
        BY <1>4 DEF n
    <2>9. f[s[k]] \in Int BY <1>1 DEF IntegersOn
    <2>10. SumFunctionOnSet(f, E(k - 1)) \in Int BY <2>3, <2>5, SumType
    <2>11. SumFunctionOnSet(g, 1..k) = SumFunctionOnSet(f, E(k)) BY <2>3, <2>7, <2>8, <2>9, <2>10
    <2> QED BY <2>3, <2>4, <2>11
<1>7. n \in G
    <2>1. 0..n \subseteq G
        <3> HIDE DEF G
        <3> QED BY <1>1, <1>5, <1>6, FiniteInduction
    <2> HIDE DEF G
    <2> QED BY <1>1, <2>1
<1>8. E(n) = Range(s) BY <1>1 DEF Range
<1> HIDE DEF E
<1> QED BY <1>1, <1>3, <1>7, <1>8 DEF n

\* One round of a loop over a set: F[x] is what an element does to the state.
LoopRound(F, s, it, T) == IF T = {} THEN s ELSE F[Taken(T)][it[T \ {Taken(T)}]]

\* A loop over a finite set whose steps stay in V has results, all in V.
Loop(F, s, S, V) == s \in V /\ F \in [S -> [V -> V]]

LoopResults(it, F, s, S, V) ==
    /\ it \in [SUBSET S -> V]
    /\ \A T \in SUBSET S : it[T] = LoopRound(F, s, it, T)

\* A loop over a finite set has results, whatever the order.
LEMMA SetLoopExists ==
    ASSUME NEW S, IsFiniteSet(S), NEW F, NEW s, NEW V, Loop(F, s, S, V)
    PROVE  \E it : LoopResults(it, F, s, S, V)
<1> DEFINE n == Cardinality(S)
           W == [SUBSET S -> V]
           P(it, k) == \A T \in SUBSET S : Cardinality(T) <= k => it[T] = LoopRound(F, s, it, T)
           G == {k \in 0..n : \E it \in W : P(it, k)}
<1>0. s \in V /\ F \in [S -> [V -> V]] BY DEF Loop
<1>1. n \in Nat /\ \A T \in SUBSET S : /\ IsFiniteSet(T) /\ Cardinality(T) \in Nat
                                       /\ Cardinality(T) <= n
    BY FS_Subset, FS_CardinalityType
<1>2. \A T \in SUBSET S : T # {} => /\ T \ {Taken(T)} \in SUBSET S /\ Taken(T) \in S
                                    /\ Cardinality(T \ {Taken(T)}) = Cardinality(T) - 1
    BY <1>1, TakenIn, FS_RemoveElement
<1>3. 0 \in G
    <2> DEFINE it == [T \in SUBSET S |-> s]
    <2>1. \A T \in SUBSET S : Cardinality(T) <= 0 => T = {} BY <1>1, FS_EmptySet
    <2>2. P(it, 0) BY <2>1 DEF LoopRound
    <2>3. it \in W /\ 0 \in 0..n BY <1>0, <1>1
    <2> HIDE DEF W, it, P
    <2> QED BY <2>2, <2>3
<1>4. ASSUME NEW k \in 1..n, k - 1 \in G PROVE k \in G
    <2>1. PICK it \in W : P(it, k - 1) BY <1>4
    <2> DEFINE jt == [T \in SUBSET S |-> IF Cardinality(T) <= k - 1 THEN it[T] ELSE LoopRound(F, s, it, T)]
    <2>2. ASSUME NEW T \in SUBSET S PROVE LoopRound(F, s, it, T) \in V
        <3>1. CASE T = {} BY <1>0, <3>1 DEF LoopRound
        <3>2. CASE T # {}
            <4>1. it[T \ {Taken(T)}] \in V /\ F[Taken(T)] \in [V -> V] BY <1>0, <1>2, <3>2
            <4> QED BY <3>2, <4>1 DEF LoopRound
        <3> QED BY <3>1, <3>2
    <2>3. jt \in W BY <2>2
    <2>4. ASSUME NEW T \in SUBSET S, Cardinality(T) <= k PROVE jt[T] = LoopRound(F, s, jt, T)
        <3>1. jt[T] = LoopRound(F, s, it, T) BY <2>1
        <3>2. CASE T = {} BY <3>1, <3>2 DEF LoopRound
        <3>3. CASE T # {}
            <4> DEFINE U == T \ {Taken(T)}
            <4>1. U \in SUBSET S /\ Cardinality(U) <= k - 1 BY <1>1, <1>2, <2>4, <3>3
            <4>2. jt[U] = it[U] BY <4>1
            <4> HIDE DEF jt
            <4> QED BY <3>1, <4>2 DEF LoopRound
        <3> QED BY <3>2, <3>3
    <2> HIDE DEF jt, W
    <2>5. P(jt, k) BY <2>4
    <2>6. k \in 0..n BY <1>1
    <2> HIDE DEF P
    <2> QED BY <2>3, <2>5, <2>6
<1>5. n \in G
    <2>1. 0..n \subseteq G
        <3> HIDE DEF G, n
        <3> QED BY <1>1, <1>3, <1>4, FiniteInduction
    <2> HIDE DEF G
    <2> QED BY <1>1, <2>1
<1>6. PICK it \in W : P(it, n) BY <1>5
<1> QED BY <1>1, <1>6 DEF LoopResults

\* One entry more, and one entry less, of a table by height.
LEMMA TableGrows ==
    ASSUME NEW S, NEW n \in Nat, NEW s \in [1..n -> S], NEW t \in [1..(n + 1) -> S],
           \A i \in 1..n : t[i] = s[i]
    PROVE  t = Append(s, t[n + 1])
<1>1. t \in Seq(S) /\ Len(t) = n + 1 /\ s \in Seq(S) /\ Len(s) = n /\ t[n + 1] \in S OBVIOUS
<1> DEFINE u == Append(s, t[n + 1])
<1>2. /\ u \in Seq(S) /\ Len(u) = n + 1
      /\ \A i \in 1..n : u[i] = s[i]
      /\ u[n + 1] = t[n + 1]
    BY <1>1
<1> HIDE DEF u
<1>3. \A i \in 1..(n + 1) : i \in 1..n \/ i = n + 1 OBVIOUS
<1>4. u = t BY <1>1, <1>2, <1>3, SeqEqual
<1> QED BY <1>4 DEF u

\* A table without its last row.
LEMMA TableShrinks ==
    ASSUME NEW S, NEW n \in Nat \ {0}, NEW s \in [1..n -> S], NEW t \in [1..(n - 1) -> S],
           \A i \in 1..(n - 1) : t[i] = s[i]
    PROVE  Len(s) = n /\ t = SubSeq(s, 1, n - 1)
<1>1. s \in Seq(S) /\ Len(s) = n OBVIOUS
<1>2. t \in Seq(S) /\ Len(t) = n - 1 OBVIOUS
<1> DEFINE u == SubSeq(s, 1, n - 1)
<1>3. u \in Seq(S) /\ Len(u) = n - 1 /\ \A i \in 1..(n - 1) : u[i] = s[i] BY <1>1
<1> HIDE DEF u
<1>4. u = t BY <1>2, <1>3, SeqEqual
<1> QED BY <1>1, <1>4 DEF u

\* Storing or dropping a block replaces two fields of the database.
LEMMA TwoFields ==
    ASSUME NEW p, NEW b, NEW u, NEW x, NEW y, NEW d,
           d = [processed |-> p, balances |-> b, utxos |-> u]
    PROVE  [d EXCEPT !.processed = x, !.balances = y]
              = [processed |-> x, balances |-> y, utxos |-> u]
<1> DEFINE f == [d EXCEPT !.processed = x]
<1>1. f = [processed |-> x, balances |-> b, utxos |-> u] OBVIOUS
<1> HIDE DEF f
<1>2. [f EXCEPT !.balances = y] = [processed |-> x, balances |-> y, utxos |-> u]
    BY <1>1
<1> QED BY <1>2 DEF f

=============================================================================
