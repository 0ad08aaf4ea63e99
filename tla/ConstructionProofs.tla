-------------------------- MODULE ConstructionProofs --------------------------
(***************************************************************************)
(* Proofs about Construction: what ConstructionSubmit tells the client is  *)
(* true, signatures returned in the order of the payloads make a           *)
(* transaction the network accepts, what ConstructionParse shows is the    *)
(* intent, and the suggested fee covers the signed transaction.            *)
(***************************************************************************)
EXTENDS Construction, Iteration, SequenceTheorems, FiniteSetTheorems

-----------------------------------------------------------------------------
(* Publishing.                                                             *)

\* The text does not change any more once it is submitted, so a transaction the
\* node refused was refused for good: it is in conflict with another one, or its
\* signatures do not verify.
Refused == \/ node = "conflict"
           \/ node = "absent" /\ ~Verifies(Deserialize(text))

SubmitInv ==
    /\ node \in {"absent", "mempool", "mined", "conflict"}
    /\ published \in BOOLEAN
    /\ node \in {"mempool", "mined"} => published
    /\ stage # "submit" => node = "absent" /\ reply = "none" /\ told = "none"
    /\ reply \in {"hash", "duplicate", "misc: transaction already exists"} => published
    /\ told \in {"hash", "ErrAlreadyHaveTx", "ErrTxAlreadyMined"} => published
    /\ reply = "misc: rule error" \/ told = "ErrProcessingTx" => Refused

\* The client's own calls are made before anything is published.
LEMMA ClientCalls ==
    ASSUME SubmitInv, stage # "submit", UNCHANGED <<node, published, reply, told>>
    PROVE  SubmitInv'
BY DEF SubmitInv

\* Every step keeps it.
LEMMA SubmitNext ==
    ASSUME SubmitInv, [Next]_vars
    PROVE  SubmitInv'
<1>1. CASE ConstructionDerive
    BY <1>1, ClientCalls DEF ConstructionDerive
<1>2. CASE ConstructionPreprocess
    BY <1>2, ClientCalls DEF ConstructionPreprocess
<1>3. CASE ConstructionPayloads
    BY <1>3, ClientCalls DEF ConstructionPayloads
<1>4. CASE ConstructionParse
    BY <1>4, ClientCalls DEF ConstructionParse
<1>5. CASE ConstructionCombine
    BY <1>5, ClientCalls DEF ConstructionCombine
<1>6. CASE StartOver
    BY <1>6, ClientCalls DEF StartOver
<1>7. CASE SendRawTransaction
    <2> DEFINE valid == Verifies(Deserialize(text))
               new == node = "absent" /\ valid
    <2>1. /\ stage = "submit" /\ told = "none"
          /\ UNCHANGED <<client, told>>
          /\ node' = IF new THEN "mempool" ELSE node
          /\ published' = (published \/ new)
          /\ reply' = CASE node = "mempool" -> "duplicate"
                        [] node = "mined"   -> "misc: transaction already exists"
                        [] new              -> "hash"
                        [] OTHER            -> "misc: rule error"
        BY <1>7 DEF SendRawTransaction
    <2>2. stage' = stage /\ text' = text /\ told' = told BY <2>1 DEF client
    <2>3. Verifies(Deserialize(text))' <=> valid BY <2>2
    <2> HIDE DEF valid
    <2>4. reply' = "misc: rule error" => Refused'
        BY <2>1, <2>3 DEF SubmitInv, Refused, valid
    <2> QED BY <2>1, <2>2, <2>4 DEF SubmitInv
<1>8. CASE NoReply
    BY <1>8 DEF NoReply, client, SubmitInv, Refused
<1>9. CASE ConstructionSubmit
    BY <1>9 DEF ConstructionSubmit, SubmitError, client, SubmitInv, Refused
<1>10. CASE Resubmit
    BY <1>10 DEF Resubmit, client, SubmitInv, Refused
<1>11. CASE Mine
    BY <1>11 DEF Mine, client, SubmitInv, Refused
<1>12. CASE DoubleSpend
    BY <1>12 DEF DoubleSpend, client, SubmitInv, Refused
<1>13. CASE UNCHANGED vars
    BY <1>13 DEF vars, client, SubmitInv, Refused
<1> QED BY <1>1, <1>2, <1>3, <1>4, <1>5, <1>6, <1>7, <1>8, <1>9, <1>10, <1>11, <1>12, <1>13 DEF Next

\* ConstructionSubmit never tells the client that a transaction the network has
\* is bad, nor that the network has one that was never published; however often
\* the request reached the node and whatever happened to it there.
THEOREM AnswerTheorem == Spec => []AnswerIsTrue
<1>1. Init => SubmitInv BY DEF Init, SubmitInv, Refused
<1>2. SubmitInv /\ [Next]_vars => SubmitInv' BY SubmitNext
<1>3. SubmitInv => AnswerIsTrue BY DEF SubmitInv, Refused, AnswerIsTrue
<1> QED BY <1>1, <1>2, <1>3, PTL DEF Spec

-----------------------------------------------------------------------------
(* Flattening.                                                             *)

\* Sequences of at most one element each, of which flattening loses none.
AtMostOnes(T, n, s) == s \in [1..n -> Seq(T)] /\ \A i \in 1..n : Len(s[i]) <= 1
AreOnes(n, s, r) == \A i \in 1..n : Len(s[i]) = 1 /\ r[i] = s[i][1]

\* Pieces of at most one element that join to n elements are one element each.
LEMMA FlattenOnes ==
    ASSUME NEW T, NEW n \in Nat, NEW s, AtMostOnes(T, n, s), Len(FlattenSeq(s)) = n
    PROVE  AreOnes(n, s, FlattenSeq(s))
<1>a. s \in [1..n -> Seq(T)] /\ \A i \in 1..n : Len(s[i]) <= 1 BY DEF AtMostOnes
<1>0. PICK f : Joins(f, T, n, s) /\ f[n] = FlattenSeq(s)
    BY <1>a, FlattenSteps
<1>1. /\ f \in [0..n -> Seq(T)] /\ f[0] = << >> /\ f[n] = FlattenSeq(s)
      /\ \A i \in 1..n : f[i] = f[i - 1] \o s[i]
    BY <1>0 DEF Joins
<1> DEFINE Whole(i) == \A j \in 1..i : Len(s[j]) = 1 /\ f[i][j] = s[j][1]
           G == {i \in 0..n : Len(f[i]) <= i /\ (Len(f[i]) = i => Whole(i))}
<1>2. 0 \in G
    <2>1. 1..0 = {} /\ Len(f[0]) = 0 BY <1>1
    <2> QED BY <2>1
<1>3. ASSUME NEW i \in 1..n, i - 1 \in G PROVE i \in G
    <2> DEFINE a == f[i - 1]
               b == s[i]
    <2>1. i - 1 \in 0..n /\ a \in Seq(T) /\ b \in Seq(T) /\ Len(b) <= 1 /\ f[i] = a \o b
        <3>1. i - 1 \in 0..n OBVIOUS
        <3> QED BY <1>1, <1>a, <3>1
    <2>2. Len(a) <= i - 1 /\ (Len(a) = i - 1 => Whole(i - 1)) BY <1>3
    <2> HIDE DEF a, b
    <2>3. Len(a) \in Nat /\ Len(b) \in Nat /\ Len(f[i]) = Len(a) + Len(b) BY <2>1
    <2>4. Len(f[i]) <= i BY <2>1, <2>2, <2>3
    <2>5. ASSUME Len(f[i]) = i, NEW j \in 1..i PROVE Len(s[j]) = 1 /\ f[i][j] = s[j][1]
        <3>1. Len(a) = i - 1 /\ Len(b) = 1
            <4>1. Len(a) <= i - 1 /\ Len(b) <= 1 /\ i = Len(a) + Len(b) BY <2>1, <2>2, <2>3, <2>5
            <4> DEFINE p == Len(a)
                       q == Len(b)
            <4>2. p \in Nat /\ q \in Nat /\ p <= i - 1 /\ q <= 1 /\ i = p + q BY <2>3, <4>1
            <4> HIDE DEF p, q, Whole
            <4>3. p = i - 1 /\ q = 1 BY <4>2
            <4> QED BY <4>3 DEF p, q
        <3>2. CASE j = i
            <4>1. (a \o b)[i] = b[i - Len(a)] /\ i - Len(a) = 1
                <5>1. i \in 1 .. Len(a) + Len(b) /\ ~(i <= Len(a)) BY <2>3, <3>1
                <5>2. (a \o b)[i] = IF i <= Len(a) THEN a[i] ELSE b[i - Len(a)]
                    BY <2>1, <5>1, ConcatProperties
                <5> QED BY <3>1, <5>1, <5>2
            <4> QED BY <2>1, <3>1, <3>2, <4>1 DEF b
        <3>3. CASE j # i
            <4>1. j \in 1..(i - 1) /\ j \in 1..Len(a) BY <3>1, <3>3
            <4>2. (a \o b)[j] = a[j] BY <2>1, <4>1
            <4>3. Len(s[j]) = 1 /\ a[j] = s[j][1] BY <2>2, <3>1, <4>1 DEF a
            <4> QED BY <2>1, <4>2, <4>3
        <3> QED BY <3>2, <3>3
    <2>6. Len(f[i]) = i => Whole(i) BY <2>5
    <2>7. i \in 0..n OBVIOUS
    <2> HIDE DEF Whole
    <2> QED BY <2>4, <2>6, <2>7
<1>4. n \in G
    <2> HIDE DEF G
    <2>1. 0..n \subseteq G BY <1>2, <1>3, FiniteInduction
    <2> QED BY <2>1
<1> QED BY <1>1, <1>4 DEF AreOnes

\* Flattening one sequence more.
LEMMA FlattenAppend ==
    ASSUME NEW T, NEW m \in Nat, NEW s \in [1..(m + 1) -> Seq(T)],
           NEW r \in [1..m -> Seq(T)], \A i \in 1..m : r[i] = s[i]
    PROVE  FlattenSeq(s) = FlattenSeq(r) \o s[m + 1]
<1>1. PICK f : Joins(f, T, m + 1, s) /\ f[m + 1] = FlattenSeq(s)
    <2>1. PICK n \in Nat : n = m + 1 OBVIOUS
    <2>2. s \in [1..n -> Seq(T)] BY <2>1
    <2>3. \E f : Joins(f, T, n, s) /\ f[n] = FlattenSeq(s) BY <2>2, FlattenSteps
    <2> QED BY <2>1, <2>3
<1>2. PICK g : Joins(g, T, m, r) /\ g[m] = FlattenSeq(r) BY FlattenSteps
<1> DEFINE G == {i \in 0..m : f[i] = g[i]}
<1>3. 0 \in G BY <1>1, <1>2 DEF Joins
<1>4. ASSUME NEW i \in 1..m, i - 1 \in G PROVE i \in G
    <2>1. i \in 1..(m + 1) /\ i \in 0..m OBVIOUS
    <2>2. f[i] = f[i - 1] \o s[i] /\ g[i] = g[i - 1] \o r[i] BY <1>1, <1>2, <2>1 DEF Joins
    <2> QED BY <1>4, <2>1, <2>2
<1>5. m \in G
    <2> HIDE DEF G
    <2>1. 0..m \subseteq G BY <1>3, <1>4, FiniteInduction
    <2> QED BY <2>1
<1>6. f[m + 1] = f[m] \o s[m + 1]
    <2>1. m + 1 \in 1..(m + 1) /\ (m + 1) - 1 = m OBVIOUS
    <2> QED BY <1>1, <2>1 DEF Joins
<1> QED BY <1>1, <1>2, <1>5, <1>6

\* What a sequence of sequences of one each, followed by empty ones, becomes.
OnesFirst(T, k, n, t) ==
    /\ k \in Nat /\ n \in 0..k /\ t \in [1..k -> Seq(T)]
    /\ \A i \in 1..k : Len(t[i]) = IF i <= n THEN 1 ELSE 0

\* Joining pieces of which only the first n are not empty.
LEMMA FlattenFirst ==
    ASSUME NEW T, NEW k, NEW n, NEW t, OnesFirst(T, k, n, t)
    PROVE  /\ FlattenSeq(t) \in Seq(T) /\ Len(FlattenSeq(t)) = n
           /\ \A i \in 1..n : FlattenSeq(t)[i] = t[i][1]
<1> USE DEF OnesFirst
<1>1. PICK f : Joins(f, T, k, t) /\ f[k] = FlattenSeq(t) BY FlattenSteps
<1>2. /\ f \in [0..k -> Seq(T)] /\ f[0] = << >>
      /\ \A i \in 1..k : f[i] = f[i - 1] \o t[i]
    BY <1>1 DEF Joins
<1> DEFINE upto(i) == IF i <= n THEN i ELSE n
           Good(i) == Len(f[i]) = upto(i) /\ \A j \in 1..upto(i) : f[i][j] = t[j][1]
           G == {i \in 0..k : Good(i)}
<1>3. 0 \in G
    <2>1. Len(f[0]) = 0 /\ upto(0) = 0 BY <1>2
    <2> QED BY <2>1
<1>4. ASSUME NEW i \in 1..k, i - 1 \in G PROVE i \in G
    <2> DEFINE a == f[i - 1]
               b == t[i]
    <2>1. i - 1 \in 0..k /\ i \in 0..k OBVIOUS
    <2>2. a \in Seq(T) /\ b \in Seq(T) /\ f[i] = a \o b /\ Len(b) = IF i <= n THEN 1 ELSE 0
        BY <1>2, <2>1
    <2>3. Len(a) = upto(i - 1) /\ \A j \in 1..upto(i - 1) : a[j] = t[j][1] BY <1>4
    <2> HIDE DEF a
    <2>4. /\ Len(a \o b) = Len(a) + Len(b)
          /\ \A j \in 1..(Len(a) + Len(b)) : (a \o b)[j] = IF j <= Len(a) THEN a[j] ELSE b[j - Len(a)]
        BY <2>2, ConcatProperties
    <2>5. Len(a) \in Nat /\ Len(b) \in Nat BY <2>2
    <2>6. CASE i <= n
        <3>1. Len(a) = i - 1 /\ Len(b) = 1 /\ upto(i) = i /\ upto(i - 1) = i - 1 BY <2>2, <2>3, <2>6
        <3>2. ASSUME NEW j \in 1..i PROVE (a \o b)[j] = t[j][1]
            <4>1. CASE j = i
                <5>1. (a \o b)[j] = b[1] BY <2>4, <3>1, <4>1, SMTT(30)
                <5> QED BY <4>1, <5>1
            <4>2. CASE j # i
                <5>1. j \in 1..(i - 1) BY <4>2
                <5>2. (a \o b)[j] = a[j] BY <2>4, <3>1, <5>1
                <5> QED BY <2>3, <3>1, <5>1, <5>2
            <4> QED BY <4>1, <4>2
        <3>3. Len(a \o b) = i BY <2>4, <3>1
        <3> QED BY <2>1, <2>2, <3>1, <3>2, <3>3
    <2>7. CASE ~(i <= n)
        <3>1. Len(a) = n /\ Len(b) = 0 /\ upto(i) = n /\ upto(i - 1) = n BY <2>2, <2>3, <2>7
        <3>2. ASSUME NEW j \in 1..n PROVE (a \o b)[j] = t[j][1]
            <4>1. (a \o b)[j] = a[j] BY <2>4, <3>1
            <4> QED BY <2>3, <3>1, <4>1
        <3>3. Len(a \o b) = n BY <2>4, <3>1
        <3> QED BY <2>1, <2>2, <3>1, <3>2, <3>3
    <2> QED BY <2>6, <2>7
<1>5. k \in G
    <2> HIDE DEF G
    <2>1. 0..k \subseteq G BY <1>3, <1>4, FiniteInduction
    <2> QED BY <2>1
<1>6. upto(k) = n OBVIOUS
<1>7. f[k] \in Seq(T) /\ Good(k)
    <2>1. k \in 0..k OBVIOUS
    <2> QED BY <1>2, <1>5, <2>1
<1> QED BY <1>1, <1>6, <1>7

\* Flattening what becomes of the members of a flattened sequence: r is s
\* flattened, g maps its members to sequences, t lists those, and h lists what
\* becomes of the parts of s.
Maps(T, U, n, s, g, h, r, t) ==
    /\ n \in Nat /\ AtMostOnes(T, n, s) /\ g \in [T -> Seq(U)] /\ h \in [1..n -> Seq(U)]
    /\ \A i \in 1..n : h[i] = IF Len(s[i]) = 0 THEN << >> ELSE g[s[i][1]]
    /\ r = FlattenSeq(s) /\ t = [i \in 1..Len(r) |-> g[r[i]]]

\* Selecting and mapping twice is selecting and mapping once.
LEMMA FlattenMapped ==
    ASSUME NEW T, NEW U, NEW n, NEW s, NEW g, NEW h, NEW r, NEW t, Maps(T, U, n, s, g, h, r, t)
    PROVE  FlattenSeq(t) = FlattenSeq(h)
<1> DEFINE Mapped(q) == [i \in 1..Len(q) |-> g[q[i]]]
<1>a. s \in [1..n -> Seq(T)] /\ \A i \in 1..n : Len(s[i]) <= 1 BY DEF Maps, AtMostOnes
<1>b. /\ n \in Nat /\ g \in [T -> Seq(U)] /\ h \in [1..n -> Seq(U)]
      /\ \A i \in 1..n : h[i] = IF Len(s[i]) = 0 THEN << >> ELSE g[s[i][1]]
    BY DEF Maps
<1>1. PICK f : Joins(f, T, n, s) /\ f[n] = FlattenSeq(s) BY <1>a, <1>b, FlattenSteps
<1>2. PICK k : Joins(k, U, n, h) /\ k[n] = FlattenSeq(h) BY <1>b, FlattenSteps
<1>3. f \in [0..n -> Seq(T)] /\ f[0] = << >> /\ \A i \in 1..n : f[i] = f[i - 1] \o s[i]
    BY <1>1 DEF Joins
<1>4. k \in [0..n -> Seq(U)] /\ k[0] = << >> /\ \A i \in 1..n : k[i] = k[i - 1] \o h[i]
    BY <1>2 DEF Joins
<1>5. ASSUME NEW q \in Seq(T) PROVE Mapped(q) \in [1..Len(q) -> Seq(U)]
    BY <1>b
<1> DEFINE G == {i \in 0..n : k[i] = FlattenSeq(Mapped(f[i]))}
<1>6. 0 \in G
    <2>0. 0 \in 0..n BY <1>b
    <2> DEFINE e == Mapped(<< >>)
    <2>1. e \in [1..0 -> Seq(U)]
        <3>1. << >> \in Seq(T) /\ Len(<< >>) = 0 OBVIOUS
        <3> HIDE DEF Mapped
        <3>2. Mapped(<< >>) \in [1..Len(<< >>) -> Seq(U)] BY <1>5, <3>1
        <3> QED BY <3>1, <3>2
    <2> HIDE DEF e
    <2>2. PICK j : Joins(j, U, 0, e) /\ j[0] = FlattenSeq(e)
        <3> DEFINE z == 0
        <3>1. z \in Nat /\ e \in [1..z -> Seq(U)] BY <2>1
        <3> HIDE DEF z
        <3>2. \E j : Joins(j, U, z, e) /\ j[z] = FlattenSeq(e) BY <3>1, FlattenSteps
        <3> QED BY <3>2 DEF z
    <2>3. FlattenSeq(e) = << >> BY <2>2 DEF Joins
    <2> QED BY <1>3, <1>4, <2>0, <2>3 DEF e
<1>7. ASSUME NEW i \in 1..n, i - 1 \in G PROVE i \in G
    <2> DEFINE a == f[i - 1]
               b == s[i]
               m == Len(a)
    <2>1. i - 1 \in 0..n /\ i \in 0..n BY <1>b
    <2>2. a \in Seq(T) /\ b \in Seq(T) /\ f[i] = a \o b /\ Len(b) <= 1
        BY <1>3, <1>a, <2>1
    <2>3. k[i - 1] = FlattenSeq(Mapped(a)) /\ k[i] = k[i - 1] \o h[i] /\ k[i - 1] \in Seq(U)
        BY <1>4, <1>7, <2>1
    <2>4. h[i] = IF Len(b) = 0 THEN << >> ELSE g[b[1]] BY <1>b
    <2> HIDE DEF a, b, Mapped
    <2>m. m \in Nat /\ Len(a) = m /\ Len(b) \in Nat BY <2>2
    <2> HIDE DEF m
    <2>5. CASE Len(b) = 0
        <3>1. a \o b = a
            <4>1. b = << >> BY <2>2, <2>5, EmptySeq
            <4> QED BY <2>2, <4>1
        <3>2. k[i] = k[i - 1] BY <2>3, <2>4, <2>5
        <3> QED BY <2>1, <2>2, <2>3, <3>1, <3>2
    <2>6. CASE Len(b) = 1
        <3> DEFINE q == a \o b
                   x == b[1]
        <3>0. /\ Len(q) = Len(a) + Len(b)
              /\ \A j \in 1..(Len(a) + Len(b)) : q[j] = IF j <= Len(a) THEN a[j] ELSE b[j - Len(a)]
            BY <2>2, ConcatProperties
        <3>a. q \in Seq(T) BY <2>2
        <3>b. x \in T
            <4>1. 1 \in 1..Len(b) BY <2>6
            <4> QED BY <2>2, <4>1, ElementOfSeq
        <3>1. q \in Seq(T) /\ Len(q) = m + 1 /\ x \in T BY <2>m, <2>6, <3>0, <3>a, <3>b
        <3>2. \A j \in 1..(m + 1) : q[j] = IF j <= m THEN a[j] ELSE b[j - m]
            BY <2>m, <2>6, <3>0
        <3> HIDE DEF q
        <3>3. q[m + 1] = x /\ \A j \in 1..m : q[j] = a[j]
            <4>1. m + 1 \in 1..(m + 1) /\ ~(m + 1 <= m) /\ (m + 1) - m = 1 BY <2>m
            <4>2. \A j \in 1..m : j \in 1..(m + 1) /\ j <= m BY <2>m
            <4> QED BY <3>2, <4>1, <4>2
        <3> HIDE DEF x
        <3>4. Mapped(q) \in [1..(m + 1) -> Seq(U)] /\ Mapped(a) \in [1..m -> Seq(U)]
            BY <1>5, <2>2, <2>m, <3>1
        <3>5. /\ Mapped(q)[m + 1] = g[x]
              /\ \A j \in 1..m : Mapped(a)[j] = Mapped(q)[j]
            <4>1. m + 1 \in 1..(m + 1) /\ \A j \in 1..m : j \in 1..(m + 1) BY <2>m
            <4>2. Mapped(q) = [j \in 1..(m + 1) |-> g[q[j]]] /\ Mapped(a) = [j \in 1..m |-> g[a[j]]]
                BY <2>m, <3>1 DEF Mapped
            <4> QED BY <3>3, <4>1, <4>2
        <3>6. FlattenSeq(Mapped(q)) = FlattenSeq(Mapped(a)) \o Mapped(q)[m + 1]
            BY <2>m, <3>4, <3>5, FlattenAppend
        <3>7. h[i] = g[x] BY <2>4, <2>6 DEF x
        <3>8. k[i] = FlattenSeq(Mapped(q)) BY <2>3, <3>5, <3>6, <3>7
        <3> QED BY <2>1, <2>2, <3>8 DEF q
    <2> HIDE DEF G
    <2>7. Len(b) = 0 \/ Len(b) = 1
        <3> DEFINE l == Len(b)
        <3>1. l \in Nat /\ l <= 1 BY <2>2, <2>m
        <3> HIDE DEF l
        <3>2. l = 0 \/ l = 1 BY <3>1
        <3> QED BY <3>2 DEF l
    <2> QED BY <2>5, <2>6, <2>7
<1>8. n \in G
    <2> HIDE DEF G
    <2>1. 0..n \subseteq G BY <1>6, <1>7, <1>b, FiniteInduction
    <2> QED BY <1>b, <2>1
<1>9. t = Mapped(f[n]) BY <1>1 DEF Maps
<1> QED BY <1>2, <1>8, <1>9

\* The debits of an intent are a sequence of operations of it.
LEMMA DebitsAre ==
    ASSUME NEW S, NEW s \in Seq(S)
    PROVE  Debits(s) \in Seq({op \in S : IsDebit(op)})
<1> DEFINE n == Len(s)
           D == {op \in S : IsDebit(op)}
           t == [i \in DOMAIN s |-> IF IsDebit(s[i]) THEN << s[i] >> ELSE << >>]
<1>1. n \in Nat /\ DOMAIN s = 1..n /\ \A i \in 1..n : s[i] \in S OBVIOUS
<1>2. t \in [1..n -> Seq(D)]
    <2>1. \A i \in 1..n : IsDebit(s[i]) => s[i] \in D BY <1>1
    <2> HIDE DEF D
    <2> QED BY <1>1, <2>1
<1>3. Debits(s) = FlattenSeq(t) BY DEF Debits
<1> HIDE DEF n, t, D
<1>4. FlattenSeq(t) \in Seq(D) BY <1>1, <1>2, FlattenRange
<1> QED BY <1>3, <1>4 DEF D

\* The debits of a sequence of operations.
LEMMA DebitsSeq ==
    ASSUME NEW S, NEW s \in Seq(S)
    PROVE  Debits(s) \in Seq(S)
<1> DEFINE D == {op \in S : IsDebit(op)}
           d == Debits(s)
<1>1. d \in Seq(D) BY DebitsAre
<1>2. D \subseteq S OBVIOUS
<1> HIDE DEF D, d
<1>3. d \in Seq(S) BY <1>1, <1>2
<1> QED BY <1>3 DEF d

-----------------------------------------------------------------------------
(* Payloads.                                                               *)

\* serialize accepts a transaction with these previous outputs.
Counted(tx, prevs) ==
    /\ Len(tx.ins) = Cardinality(DOMAIN prevs)
    /\ \A i \in DOMAIN tx.ins : tx.ins[i].prev \in DOMAIN prevs

\* A transaction of n inputs that spend n different outputs.
Inputs(tx, n) ==
    /\ n \in Nat /\ DOMAIN tx.ins = 1..n /\ Len(tx.ins) = n
    /\ \A i, j \in 1..n : tx.ins[i].prev = tx.ins[j].prev => i = j

Fields(tx, n) ==
    /\ tx = [x \in {"ins", "outs"} |-> tx[x]]
    /\ \A i \in 1..n : tx.ins[i] = [prev |-> tx.ins[i].prev, value |-> tx.ins[i].value,
                                   script |-> tx.ins[i].script]

\* The inputs of tx spend the outputs prevs, and the i-th input that of d[i],
\* which names a standard address.
InputsSpend(tx, prevs, d, n) ==
    /\ Inputs(tx, n) /\ Fields(tx, n) /\ DOMAIN d = 1..n
    /\ \A i \in 1..n : /\ tx.ins[i].prev.coin = d[i].coin
                      /\ prevs[tx.ins[i].prev] = PrevOutputFromDebitOp(d[i])
                      /\ KnownPrevOutput(d[i])
    /\ {tx.ins[i].prev : i \in 1..n} = DOMAIN prevs

\* serialize counts the previous outputs, so no coin is spent twice and every
\* debit's previous output is known; each input finds its own debit's.
LEMMA PrevOutputs ==
    ASSUME NEW s, s \in Seq(Range(s)), NEW tx, tx = RosettaOpsToTx(s), ~IsErr(tx),
           NEW prevs, prevs = ExtractPrevOutputsFromOps(s), Counted(tx, prevs),
           NEW d, d = Debits(s), NEW n, n = Len(d)
    PROVE  InputsSpend(tx, prevs, d, n)
<1>a. /\ Len(tx.ins) = Cardinality(DOMAIN prevs)
      /\ \A i \in DOMAIN tx.ins : tx.ins[i].prev \in DOMAIN prevs
    BY DEF Counted
<1> DEFINE In(op) == [prev   |-> [coin |-> op.coin, tree |-> Metadata(op.meta, "prev_tree", 0)],
                      value  |-> Abs(op.amt),
                      script |-> Metadata(op.meta, "signature_script", Unsigned)]
           known == {i \in DOMAIN d : KnownPrevOutput(d[i])}
           Key(i) == [coin |-> d[i].coin, tree |-> 0]
           Latest(k) == Max({i \in known : Key(i) = k})
<1>1. d \in Seq(Range(s)) BY DebitsSeq
<1>2. n \in Nat /\ DOMAIN d = 1..n BY <1>1
<1>3. tx.ins = [i \in DOMAIN d |-> In(d[i])]
    BY DEF RosettaOpsToTx, IsErr, Err
<1>4. DOMAIN tx.ins = 1..n /\ \A i \in 1..n : tx.ins[i] = In(d[i]) BY <1>2, <1>3
<1>5. Len(tx.ins) = n
    <2> DEFINE ins == tx.ins
    <2>1. ins = [i \in 1..n |-> In(d[i])] BY <1>2, <1>3
    <2> HIDE DEF In
    <2>2. ins \in Seq({In(d[i]) : i \in 1..n}) BY <1>2, <2>1
    <2>3. DOMAIN ins = 1..n BY <1>4
    <2> HIDE DEF ins
    <2>4. Len(ins) = n BY <1>2, <2>2, <2>3
    <2> QED BY <2>4 DEF ins
<1>6. prevs = [k \in {Key(i) : i \in known} |-> PrevOutputFromDebitOp(d[Latest(k)])]
    BY DEF ExtractPrevOutputsFromOps
<1>7. DOMAIN prevs = {Key(i) : i \in known} BY <1>6
<1>8. ASSUME NEW i \in 1..n PROVE tx.ins[i].prev = Key(i)
    <2>1. tx.ins[i].prev = [coin |-> d[i].coin, tree |-> Metadata(d[i].meta, "prev_tree", 0)]
        <3>1. \A op : In(op).prev = [coin |-> op.coin, tree |-> Metadata(op.meta, "prev_tree", 0)]
            OBVIOUS
        <3> HIDE DEF In
        <3> QED BY <1>4, <3>1
    <2>2. PICK j \in known : tx.ins[i].prev = Key(j) BY <1>a, <1>4, <1>7
    <2> QED BY <2>1, <2>2
<1> DEFINE K == DOMAIN prevs
           f == [i \in known |-> Key(i)]
<1>9. IsFiniteSet(1..n) /\ Cardinality(1..n) = n /\ known \in SUBSET (1..n) /\ Cardinality(K) = n
    <2>1. IsFiniteSet(1..n) /\ Cardinality(1..n) = n
        <3>1. 1 \in Int /\ n \in Int BY <1>2
        <3>2. IsFiniteSet(1..n) /\ Cardinality(1..n) = IF 1 > n THEN 0 ELSE n - 1 + 1
            BY <3>1, FS_Interval
        <3> QED BY <1>2, <3>2
    <2> QED BY <1>a, <1>2, <1>5, <2>1
<1>10. f \in Surjection(known, K)
    <2>1. f \in [known -> K] /\ \A t \in K : \E i \in known : f[i] = t BY <1>7
    <2> QED BY <2>1 DEF Surjection
<1> HIDE DEF f, K, known, Key
<1>11. IsFiniteSet(known) /\ Cardinality(known) <= n /\ (Cardinality(known) = n => known = 1..n)
    <2> DEFINE I == 1..n
    <2>1. IsFiniteSet(I) /\ Cardinality(I) = n /\ known \in SUBSET I BY <1>9
    <2> HIDE DEF I
    <2>2. /\ IsFiniteSet(known) /\ Cardinality(known) <= Cardinality(I)
          /\ Cardinality(I) = Cardinality(known) => I = known
        BY <2>1, FS_Subset
    <2> QED BY <2>1, <2>2 DEF I
<1>12. Cardinality(K) <= Cardinality(known) /\ (Cardinality(K) = Cardinality(known) <=> f \in Injection(known, K))
    BY <1>10, <1>11, FS_Surjection
<1>13. Cardinality(known) = n
    <2>1. Cardinality(known) \in Nat BY <1>11, FS_CardinalityType
    <2> QED BY <1>2, <1>9, <1>11, <1>12, <2>1
<1>14. known = 1..n /\ f \in Injection(known, K) BY <1>9, <1>11, <1>12, <1>13
<1>15. \A i, j \in 1..n : Key(i) = Key(j) => i = j
    <2>1. \A i, j \in known : f[i] = f[j] => i = j BY <1>14 DEF Injection, IsInjective
    <2> QED BY <1>14, <2>1 DEF f
<1>16. ASSUME NEW i \in 1..n
       PROVE  tx.ins[i].prev.coin = d[i].coin /\ prevs[tx.ins[i].prev] = PrevOutputFromDebitOp(d[i])
    <2>1. Key(i) \in {Key(j) : j \in known} BY <1>14
    <2>2. {j \in known : Key(j) = Key(i)} = {i} BY <1>14, <1>15
    <2>3. Max({i}) = i
        <3>1. i \in Int /\ i >= i OBVIOUS
        <3> QED BY <3>1 DEF Max
    <2>4. prevs[Key(i)] = PrevOutputFromDebitOp(d[i]) BY <1>6, <2>1, <2>2, <2>3
    <2>5. Key(i).coin = d[i].coin BY DEF Key
    <2> QED BY <1>8, <2>4, <2>5
<1>17. ASSUME NEW i \in 1..n, NEW j \in 1..n, tx.ins[i].prev = tx.ins[j].prev PROVE i = j
    BY <1>8, <1>15, <1>17
<1>18. {tx.ins[i].prev : i \in 1..n} = DOMAIN prevs BY <1>7, <1>8, <1>14
<1>19. DOMAIN tx = {"ins", "outs"} /\ tx = [x \in {"ins", "outs"} |-> tx[x]]
    <2>1. \E a, b : tx = [ins |-> a, outs |-> b] BY DEF RosettaOpsToTx, IsErr, Err
    <2> QED BY <2>1
<1>20. ASSUME NEW i \in 1..n
       PROVE  tx.ins[i] = [prev |-> tx.ins[i].prev, value |-> tx.ins[i].value, script |-> tx.ins[i].script]
    <2>1. \A op : In(op) = [prev |-> In(op).prev, value |-> In(op).value, script |-> In(op).script]
        OBVIOUS
    <2> HIDE DEF In
    <2> QED BY <1>4, <2>1
<1>21. Inputs(tx, n) BY <1>2, <1>4, <1>5, <1>17 DEF Inputs
<1>22. Fields(tx, n) BY <1>19, <1>20 DEF Fields
<1>23. \A i \in 1..n : KnownPrevOutput(d[i]) BY <1>14 DEF known
<1> QED BY <1>2, <1>16, <1>18, <1>21, <1>22, <1>23 DEF InputsSpend

\* When no input goes without a payload, the i-th payload is for the i-th input,
\* and every input spends a P2PKH output.
LEMMA PayloadsInOrder ==
    ASSUME NEW s, NEW tx, NEW d, d = Debits(s), NEW n \in Nat, DOMAIN d = 1..n,
           NEW ps, ps = ExtractSignPayloads(s, tx), Len(ps) = n
    PROVE  \A i \in 1..n :
               /\ ps[i] = [acct |-> d[i].acct, digest |-> SigHash(tx, i, PaymentScript(d[i].acct))]
               /\ ~IsRaw(d[i].acct) /\ d[i].acct.form = "ecdsa"
<1> DEFINE pay(i) == [acct |-> d[i].acct, digest |-> SigHash(tx, i, PaymentScript(d[i].acct))]
           T == {pay(i) : i \in 1..n}
           skip(i) == IsRaw(d[i].acct) \/ d[i].acct.form # "ecdsa"
           l == [i \in 1..n |-> IF skip(i) THEN << >> ELSE << pay(i) >>]
<1>1. ps = FlattenSeq(l) BY DEF ExtractSignPayloads
<1> HIDE DEF pay, skip
<1>2. l \in [1..n -> Seq(T)]
    <2>1. \A i \in 1..n : pay(i) \in T OBVIOUS
    <2> HIDE DEF T
    <2> QED BY <2>1
<1>3. \A i \in 1..n : Len(l[i]) <= 1 /\ (Len(l[i]) = 1 => l[i][1] = pay(i) /\ ~skip(i)) OBVIOUS
<1> HIDE DEF l, T
<1>4. \A i \in 1..n : Len(l[i]) = 1 /\ ps[i] = l[i][1]
    <2>1. AtMostOnes(T, n, l) BY <1>2, <1>3 DEF AtMostOnes
    <2>2. AreOnes(n, l, ps) BY <1>1, <2>1, FlattenOnes
    <2> QED BY <2>2 DEF AreOnes
<1> QED BY <1>3, <1>4 DEF pay, skip

\* deserialize gives each input the previous output that was written at its
\* position.
Restores(c, x, pv, n) ==
    /\ c.tx = x /\ DOMAIN c.prevs = {x.ins[i].prev : i \in 1..n}
    /\ \A i \in 1..n : c.prevs[x.ins[i].prev] = pv[i]

\* deserialize gives back the transaction and its previous outputs.
LEMMA Restored ==
    ASSUME NEW x, NEW pv, NEW n, Inputs(x, n), Len(pv) = n,
           NEW c, c = Deserialize([version |-> 1, tx |-> x, prevs |-> pv])
    PROVE  Restores(c, x, pv, n)
<1>a. /\ n \in Nat /\ DOMAIN x.ins = 1..n /\ Len(x.ins) = n
      /\ \A i, j \in 1..n : x.ins[i].prev = x.ins[j].prev => i = j
    BY DEF Inputs
<1> DEFINE P == {x.ins[i].prev : i \in 1..n}
           at(p) == CHOOSE i \in 1..n : x.ins[i].prev = p
           m == [p \in P |-> pv[at(p)]]
<1>1. c.tx = x /\ c.prevs = m
    <2> DEFINE t == [version |-> 1, tx |-> x, prevs |-> pv]
               Q == {t.tx.ins[i].prev : i \in DOMAIN t.tx.ins}
               of(p) == CHOOSE i \in DOMAIN t.tx.ins : t.tx.ins[i].prev = p
               w == [p \in Q |-> t.prevs[of(p)]]
    <2>1. t.version = 1 /\ t.tx = x /\ t.prevs = pv OBVIOUS
    <2>2. c = Deserialize(t) OBVIOUS
    <2> HIDE DEF t
    <2>3. c = [tx |-> t.tx, prevs |-> w] BY <1>a, <2>1, <2>2 DEF Deserialize
    <2>4. t.tx.ins = x.ins /\ DOMAIN t.tx.ins = 1..n BY <1>a, <2>1
    <2>5. Q = P BY <2>4
    <2>6. \A p : of(p) = at(p) BY <2>4
    <2> HIDE DEF P, Q, at, of
    <2>7. w = m BY <2>1, <2>5, <2>6
    <2> HIDE DEF w, m
    <2> QED BY <2>1, <2>3, <2>7
<1>2. \A i \in 1..n : x.ins[i].prev \in P /\ at(x.ins[i].prev) = i BY <1>a
<1>3. DOMAIN m = P OBVIOUS
<1>4. \A i \in 1..n : m[x.ins[i].prev] = pv[i]
    <2> HIDE DEF P, at
    <2> QED BY <1>2
<1> HIDE DEF m
<1> QED BY <1>1, <1>3, <1>4 DEF Restores

\* The payloads of an intent are a sequence.
LEMMA PayloadsSeq ==
    ASSUME NEW s, s \in Seq(Range(s)), NEW tx
    PROVE  Len(ExtractSignPayloads(s, tx)) \in Nat
<1> DEFINE d == Debits(s)
           n == Len(d)
           pay(i) == [acct |-> d[i].acct, digest |-> SigHash(tx, i, PaymentScript(d[i].acct))]
           T == {pay(i) : i \in 1..n}
           skip(i) == IsRaw(d[i].acct) \/ d[i].acct.form # "ecdsa"
           l == [i \in 1..n |-> IF skip(i) THEN << >> ELSE << pay(i) >>]
           ps == ExtractSignPayloads(s, tx)
<1>1. n \in Nat /\ DOMAIN d = 1..n
    <2>1. d \in Seq(Range(s)) BY DebitsSeq
    <2> HIDE DEF d
    <2> QED BY <2>1
<1>2. ps = FlattenSeq(l) BY <1>1 DEF ExtractSignPayloads
<1> HIDE DEF d, n, pay, skip
<1>3. l \in [1..n -> Seq(T)]
    <2>1. \A i \in 1..n : pay(i) \in T OBVIOUS
    <2> HIDE DEF T
    <2> QED BY <2>1
<1> HIDE DEF l, T, ps
<1>4. PICK f : Joins(f, T, n, l) /\ f[n] = FlattenSeq(l) BY <1>1, <1>3, FlattenSteps
<1>5. n \in 0..n BY <1>1
<1>6. ps \in Seq(T) BY <1>2, <1>4, <1>5 DEF Joins
<1>7. Len(ps) \in Nat BY <1>6
<1> QED BY <1>7 DEF ps

\* What serialize writes when it does not fail.
LEMMA Serialized ==
    ASSUME NEW tx, NEW prevs, ~IsErr(Serialize(tx, prevs))
    PROVE  Counted(tx, prevs)
BY DEF Counted, Serialize, IsErr, Err

\* The spent outputs in the order of the inputs.
InOrder(tx, prevs) == [i \in DOMAIN tx.ins |-> prevs[tx.ins[i].prev]]

\* serialize writes the previous outputs in the order of the inputs.
LEMMA SerializedText ==
    ASSUME NEW tx, NEW prevs, Counted(tx, prevs)
    PROVE  Serialize(tx, prevs) = [version |-> 1, tx |-> tx, prevs |-> InOrder(tx, prevs)]
BY DEF Counted, Serialize, InOrder

Listed(tx, prevs, n) ==
    /\ Len(InOrder(tx, prevs)) = n
    /\ \A i \in 1..n : InOrder(tx, prevs)[i] = prevs[tx.ins[i].prev]

\* One previous output per input.
LEMMA InOrderSeq ==
    ASSUME NEW tx, NEW prevs, NEW n, Inputs(tx, n)
    PROVE  Listed(tx, prevs, n)
<1> DEFINE at(i) == prevs[tx.ins[i].prev]
           T == {at(i) : i \in 1..n}
           pv == InOrder(tx, prevs)
<1>1. n \in Nat /\ pv = [i \in 1..n |-> at(i)] BY DEF Inputs, InOrder
<1> HIDE DEF at, pv
<1>2. pv \in Seq(T) /\ DOMAIN pv = 1..n BY <1>1
<1>3. \A i \in 1..n : pv[i] = at(i) BY <1>1
<1> HIDE DEF T
<1>4. Len(pv) = n BY <1>1, <1>2
<1> QED BY <1>3, <1>4 DEF at, pv, Listed

\* The text that ConstructionPayloads answered with, and the payloads.
Prepared ==
    LET tx    == RosettaOpsToTx(ops)
        prevs == ExtractPrevOutputsFromOps(ops)
    IN  /\ ~IsErr(Serialize(tx, prevs))
        /\ text = Serialize(tx, prevs)
        /\ payloads = ExtractSignPayloads(ops, tx)
        /\ \A i \in DOMAIN Debits(ops) : ~NoPrevOutput(Debits(ops)[i])

\* A client that does not reorder its signatures answers the i-th payload with
\* the i-th signature.
Answers(sigs, n) ==
    /\ DOMAIN sigs = 1..n /\ Len(sigs) = n
    /\ \A i \in 1..n : sigs[i].key = payloads[i].acct.key /\ sigs[i].payload = payloads[i]

\* A signer that keeps the order answers payload by payload.
LEMMA SignedInOrder ==
    ASSUME ~Reorders, NEW sigs \in Signings, NEW n \in Nat, n = Len(payloads)
    PROVE  Answers(sigs, n)
<1>1. PICK f \in Orders(n), m \in Makes, size \in [1..n -> SigSizes] :
          sigs = [i \in 1..n |-> Signature(payloads[f[i]], m, size[i])]
    BY DEF Signings
<1>2. \A p, z : Signature(p, m, z).payload = p /\ Signature(p, m, z).key = p.acct.key
    BY DEF Signature
<1>3. \A i \in 1..n : f[i] = i BY <1>1 DEF Orders
<1> DEFINE T == {Signature(payloads[f[i]], m, size[i]) : i \in 1..n}
<1>4. sigs \in Seq(T) /\ DOMAIN sigs = 1..n BY <1>1
<1>5. Len(sigs) = n
    <2> HIDE DEF T
    <2> QED BY <1>4
<1> QED BY <1>1, <1>2, <1>3, <1>4, <1>5 DEF Answers

\* CombineTxSigs changes nothing but the scripts of the inputs, and those are
\* the signatures it was given, each of which signs its payload.
Signed(tx, sigs, tx2, n) ==
    /\ tx2.outs = tx.outs /\ DOMAIN tx2.ins = 1..n /\ Len(tx2.ins) = n
    /\ \A i \in 1..n : /\ tx2.ins[i].prev = tx.ins[i].prev
                       /\ tx2.ins[i].script.key = sigs[i].key
                       /\ tx2.ins[i].script.signs = sigs[i].payload.digest
                       /\ tx2.ins[i].script.size = sigs[i].size

\* CombineTxSigs fills in one script per input and changes nothing else.
LEMMA CombinedTx ==
    ASSUME NEW tx, NEW sigs, NEW n, Inputs(tx, n), Fields(tx, n), DOMAIN sigs = 1..n,
           NEW tx2, tx2 = CombineTxSigs(sigs, tx), ~IsErr(tx2)
    PROVE  Signed(tx, sigs, tx2, n)
<1>a. /\ n \in Nat /\ DOMAIN tx.ins = 1..n
      /\ tx = [x \in {"ins", "outs"} |-> tx[x]]
      /\ \A i \in 1..n : tx.ins[i] = [prev |-> tx.ins[i].prev, value |-> tx.ins[i].value,
                                     script |-> tx.ins[i].script]
    BY DEF Inputs, Fields
<1> DEFINE script(i) == [key |-> sigs[i].key, signs |-> sigs[i].signs, size |-> sigs[i].size]
           in(i) == [tx.ins[i] EXCEPT !.script = script(i)]
           ins2 == [i \in 1..n |-> in(i)]
<1>1. /\ Len(sigs) = Len(tx.ins)
      /\ \A i \in DOMAIN sigs : SigError(sigs[i]) = {}
      /\ tx2 = [tx EXCEPT !.ins = ins2]
    <2>1. Len(sigs) = Len(tx.ins) BY DEF CombineTxSigs, IsErr, Err
    <2>2. ~ \E i \in DOMAIN sigs : SigError(sigs[i]) # {}
        BY <2>1 DEF CombineTxSigs, IsErr, Err
    <2>3. tx2 = [tx EXCEPT !.ins = ins2] BY <1>a, <2>1, <2>2 DEF CombineTxSigs
    <2> QED BY <2>1, <2>2, <2>3
<1>2. \A i \in 1..n : /\ script(i).key = sigs[i].key /\ script(i).signs = sigs[i].signs
                      /\ script(i).size = sigs[i].size
    OBVIOUS
<1>3. ASSUME NEW i \in 1..n PROVE in(i).prev = tx.ins[i].prev /\ in(i).script = script(i)
    <2> DEFINE a == tx.ins[i]
               p == a.prev
               v == a.value
               c == a.script
    <2>1. a = [prev |-> p, value |-> v, script |-> c] BY <1>a
    <2> HIDE DEF a, p, v, c, script
    <2>2. [a EXCEPT !.script = script(i)].prev = p /\ [a EXCEPT !.script = script(i)].script = script(i)
        BY <2>1
    <2> QED BY <2>2 DEF a, p
<1>4. DOMAIN ins2 = 1..n /\ ins2 \in Seq({in(i) : i \in 1..n}) /\ \A i \in 1..n : ins2[i] = in(i)
    <2> HIDE DEF in
    <2> QED BY <1>a
<1> HIDE DEF script, in, ins2
<1>5. Len(ins2) = n BY <1>a, <1>4
<1>6. tx2.ins = ins2 /\ tx2.outs = tx.outs BY <1>a, <1>1
<1>7. \A i \in 1..n : sigs[i].signs = sigs[i].payload.digest
    BY <1>1 DEF SigError
<1> QED BY <1>2, <1>3, <1>4, <1>5, <1>6, <1>7 DEF Signed

\* c, read from a text, is a transaction of the operations s: its inputs are the
\* debits, each with its own previous output, and its outputs the credits.
Shows(c, s, n) ==
    /\ n = Len(Debits(s)) /\ DOMAIN Debits(s) = 1..n /\ Inputs(c.tx, n)
    /\ c.tx.outs = RosettaOpsToTx(s).outs
    /\ \A i \in 1..n : /\ c.tx.ins[i].prev.coin = Debits(s)[i].coin
                       /\ c.prevs[c.tx.ins[i].prev] = PrevOutputFromDebitOp(Debits(s)[i])
                       /\ KnownPrevOutput(Debits(s)[i])

\* What comes back from the text that ConstructionPayloads wrote.
Unsealed(c, s, n) ==
    /\ c.tx = RosettaOpsToTx(s) /\ Fields(c.tx, n) /\ Shows(c, s, n)
    /\ Counted(c.tx, c.prevs)

\* What /payloads hands out decodes to the transaction of the operations.
LEMMA PreparedText ==
    ASSUME ops \in Seq(Range(ops)), ~IsErr(RosettaOpsToTx(ops)), Prepared,
           NEW c, c = Deserialize(text), NEW n, n = Len(Debits(ops))
    PROVE  Unsealed(c, ops, n)
<1> DEFINE tx    == RosettaOpsToTx(ops)
           prevs == ExtractPrevOutputsFromOps(ops)
           d     == Debits(ops)
           pv    == InOrder(tx, prevs)
<1>1. ~IsErr(tx) /\ ~IsErr(Serialize(tx, prevs)) /\ text = Serialize(tx, prevs) BY DEF Prepared
<1>2. tx = RosettaOpsToTx(ops) /\ prevs = ExtractPrevOutputsFromOps(ops) /\ d = Debits(ops) /\ n = Len(d)
    OBVIOUS
<1> HIDE DEF tx, prevs, d
<1>3. Counted(tx, prevs) BY <1>1, Serialized
<1>4. InputsSpend(tx, prevs, d, n) BY <1>1, <1>2, <1>3, PrevOutputs
<1>5. /\ Inputs(tx, n) /\ Fields(tx, n) /\ n \in Nat /\ DOMAIN tx.ins = 1..n /\ Len(tx.ins) = n
      /\ DOMAIN d = 1..n /\ {tx.ins[i].prev : i \in 1..n} = DOMAIN prevs
    BY <1>4 DEF InputsSpend, Inputs
<1>6. text = [version |-> 1, tx |-> tx, prevs |-> pv] BY <1>1, <1>3, SerializedText
<1>7. Len(pv) = n /\ \A i \in 1..n : pv[i] = prevs[tx.ins[i].prev]
    <2>1. Listed(tx, prevs, n) BY <1>5, InOrderSeq
    <2> QED BY <2>1 DEF Listed
<1> HIDE DEF pv
<1>8. Restores(c, tx, pv, n) BY <1>5, <1>6, <1>7, Restored
<1>9. /\ c.tx = tx /\ DOMAIN c.prevs = DOMAIN prevs
      /\ \A i \in 1..n : c.prevs[tx.ins[i].prev] = pv[i]
    BY <1>5, <1>8 DEF Restores
<1>10. \A i \in 1..n : /\ c.tx.ins[i].prev.coin = d[i].coin
                       /\ c.prevs[c.tx.ins[i].prev] = PrevOutputFromDebitOp(d[i])
                       /\ KnownPrevOutput(d[i])
    BY <1>4, <1>7, <1>9 DEF InputsSpend
<1>11. Shows(c, ops, n) BY <1>2, <1>5, <1>9, <1>10 DEF Shows
<1>12. Counted(c.tx, c.prevs) BY <1>3, <1>9 DEF Counted
<1> QED BY <1>2, <1>5, <1>9, <1>11, <1>12 DEF Unsealed

\* What comes back from the text that ConstructionCombine wrote: the same inputs
\* and outputs, with the signatures, one for every input.
Sealed(c, tx2, c2, sigs, s, n) ==
    /\ c2.tx = tx2 /\ Shows(c2, s, n) /\ Signed(c.tx, sigs, tx2, n)
    /\ Len(sigs) = n /\ Serialize(tx2, c.prevs).tx = tx2

\* What /combine hands out decodes to the same with the signatures.
LEMMA CombinedText ==
    ASSUME NEW c, NEW s, NEW n, Unsealed(c, s, n), NEW sigs, DOMAIN sigs = 1..Len(sigs),
           Len(sigs) \in Nat, NEW tx2, tx2 = CombineTxSigs(sigs, c.tx), ~IsErr(tx2)
    PROVE  Sealed(c, tx2, Deserialize(Serialize(tx2, c.prevs)), sigs, s, n)
<1> DEFINE tx  == c.tx
           pv2 == InOrder(tx2, c.prevs)
           c2  == Deserialize(Serialize(tx2, c.prevs))
<1>1. /\ Inputs(tx, n) /\ Fields(tx, n) /\ n \in Nat /\ DOMAIN tx.ins = 1..n /\ Len(tx.ins) = n
      /\ Counted(tx, c.prevs) /\ Shows(c, s, n)
    BY DEF Unsealed, Shows, Inputs
<1>2. Len(sigs) = n /\ DOMAIN sigs = 1..n
    <2>1. Len(sigs) = Len(tx.ins) BY DEF CombineTxSigs, IsErr, Err
    <2> QED BY <1>1, <2>1
<1>3. Signed(tx, sigs, tx2, n) BY <1>1, <1>2, CombinedTx
<1>4. /\ tx2.outs = tx.outs /\ DOMAIN tx2.ins = 1..n /\ Len(tx2.ins) = n
      /\ \A i \in 1..n : tx2.ins[i].prev = tx.ins[i].prev
    BY <1>3 DEF Signed
<1>5. Inputs(tx2, n) BY <1>1, <1>4 DEF Inputs
<1>6. Counted(tx2, c.prevs) BY <1>1, <1>4 DEF Counted
<1>7. Len(pv2) = n /\ \A i \in 1..n : pv2[i] = c.prevs[tx2.ins[i].prev]
    <2>1. Listed(tx2, c.prevs, n) BY <1>5, InOrderSeq
    <2> QED BY <2>1 DEF Listed
<1>8. Serialize(tx2, c.prevs) = [version |-> 1, tx |-> tx2, prevs |-> pv2] BY <1>6, SerializedText
<1>9. Serialize(tx2, c.prevs).tx = tx2 BY <1>8
<1>10. c2 = Deserialize([version |-> 1, tx |-> tx2, prevs |-> pv2]) BY <1>8
<1> HIDE DEF pv2, c2
<1>11. Restores(c2, tx2, pv2, n) BY <1>5, <1>7, <1>10, Restored
<1>12. c2.tx = tx2 /\ \A i \in 1..n : c2.prevs[tx2.ins[i].prev] = pv2[i] BY <1>11 DEF Restores
<1>13. ASSUME NEW i \in 1..n
       PROVE  /\ c2.tx.ins[i].prev.coin = Debits(s)[i].coin
              /\ c2.prevs[c2.tx.ins[i].prev] = PrevOutputFromDebitOp(Debits(s)[i])
              /\ KnownPrevOutput(Debits(s)[i])
    <2>1. c2.prevs[c2.tx.ins[i].prev] = c.prevs[tx.ins[i].prev] /\ c2.tx.ins[i].prev = tx.ins[i].prev
        BY <1>4, <1>7, <1>12
    <2> QED BY <1>1, <2>1 DEF Shows
<1>14. Shows(c2, s, n) BY <1>1, <1>4, <1>5, <1>12, <1>13 DEF Shows
<1>15. Sealed(c, tx2, c2, sigs, s, n) BY <1>2, <1>3, <1>9, <1>12, <1>14 DEF Sealed
<1> QED BY <1>15 DEF c2

\* Signatures handed over in the order of the payloads redeem the inputs.
LEMMA CombineVerifies ==
    ASSUME ~Reorders, ops \in Seq(Range(ops)), ~IsErr(RosettaOpsToTx(ops)), Prepared,
           NEW sigs \in Signings, NEW c, c = Deserialize(text),
           NEW tx2, tx2 = CombineTxSigs(sigs, c.tx), ~IsErr(tx2)
    PROVE  Verifies(Deserialize(Serialize(tx2, c.prevs)))
<1> DEFINE d  == Debits(ops)
           n  == Len(d)
           tx == c.tx
           c2 == Deserialize(Serialize(tx2, c.prevs))
           Owner(i) == PaymentScript(d[i].acct)
<1>1. payloads = ExtractSignPayloads(ops, RosettaOpsToTx(ops)) BY DEF Prepared
<1>2. d = Debits(ops) /\ n = Len(d) OBVIOUS
<1>3. Len(payloads) \in Nat BY <1>1, PayloadsSeq
<1> HIDE DEF d, n
<1>4. Unsealed(c, ops, n) BY <1>2, PreparedText
<1>5. Answers(sigs, Len(payloads)) BY <1>3, SignedInOrder
<1>6. Sealed(c, tx2, c2, sigs, ops, n)
    <2>1. DOMAIN sigs = 1..Len(sigs) /\ Len(sigs) \in Nat BY <1>3, <1>5 DEF Answers
    <2> QED BY <1>4, <2>1, CombinedText
<1> HIDE DEF c2
<1>7. /\ n \in Nat /\ n = Len(payloads) /\ Answers(sigs, n)
      /\ c2.tx = tx2 /\ Signed(tx, sigs, tx2, n) /\ Shows(c2, ops, n) /\ DOMAIN d = 1..n
    BY <1>2, <1>5, <1>6 DEF Sealed, Answers, Shows, Inputs
<1>8. tx = RosettaOpsToTx(ops) /\ DOMAIN tx.ins = 1..n BY <1>4 DEF Unsealed, Shows, Inputs
<1>9. /\ tx2.outs = tx.outs /\ DOMAIN tx2.ins = 1..n
      /\ \A i \in 1..n : tx2.ins[i].prev = tx.ins[i].prev
    BY <1>7 DEF Signed
<1>10. \A i \in 1..n : payloads[i] = [acct |-> d[i].acct, digest |-> SigHash(tx, i, PaymentScript(d[i].acct))]
    BY <1>1, <1>2, <1>7, <1>8, PayloadsInOrder
<1>11. ASSUME NEW i \in 1..n, NEW s PROVE SigHash(tx2, i, s) = SigHash(tx, i, s)
    <2>1. [j \in DOMAIN tx2.ins |-> tx2.ins[j].prev] = [j \in DOMAIN tx.ins |-> tx.ins[j].prev]
        BY <1>8, <1>9
    <2> QED BY <1>9, <2>1 DEF SigHash
<1>12. ASSUME NEW i \in 1..n PROVE c2.prevs[c2.tx.ins[i].prev].script = Owner(i)
    <2>1. c2.prevs[c2.tx.ins[i].prev] = PrevOutputFromDebitOp(d[i]) BY <1>2, <1>7 DEF Shows
    <2> QED BY <2>1 DEF PrevOutputFromDebitOp
<1>13. ASSUME NEW i \in 1..n
       PROVE  /\ tx2.ins[i].script.key = Owner(i).key
              /\ tx2.ins[i].script.signs = SigHash(tx, i, Owner(i))
    <2> DEFINE h == SigHash(tx, i, Owner(i))
    <2>0. Owner(i).key = d[i].acct.key BY DEF PaymentScript
    <2>1. payloads[i] = [acct |-> d[i].acct, digest |-> h] BY <1>10
    <2> HIDE DEF h, Owner, tx
    <2>2. payloads[i].acct.key = Owner(i).key /\ payloads[i].digest = h BY <2>0, <2>1
    <2>3. sigs[i].key = payloads[i].acct.key /\ sigs[i].payload = payloads[i] BY <1>7 DEF Answers
    <2>4. tx2.ins[i].script.key = sigs[i].key /\ tx2.ins[i].script.signs = sigs[i].payload.digest
        BY <1>7 DEF Signed
    <2>5. tx2.ins[i].script.key = Owner(i).key BY <2>2, <2>3, <2>4
    <2>6. tx2.ins[i].script.signs = h BY <2>2, <2>3, <2>4
    <2> QED BY <2>5, <2>6 DEF h
<1> HIDE DEF Owner, tx
<1>14. ASSUME NEW i \in 1..n
       PROVE  LET owner == c2.prevs[c2.tx.ins[i].prev].script
              IN  /\ c2.tx.ins[i].script.key = owner.key
                  /\ c2.tx.ins[i].script.signs = SigHash(c2.tx, i, owner)
    <2>1. SigHash(tx2, i, Owner(i)) = SigHash(tx, i, Owner(i)) BY <1>11
    <2> QED BY <1>7, <1>12, <1>13, <2>1
<1>15. Verifies(c2)
    <2>1. DOMAIN c2.tx.ins = 1..n BY <1>7, <1>9
    <2> QED BY <1>14, <2>1 DEF Verifies
<1> QED BY <1>15 DEF c2

-----------------------------------------------------------------------------
(* The calls.                                                              *)

\* What the client holds between two calls: the address it derived, operations
\* that make a transaction, the fee for it, and what ConstructionPayloads
\* answered.
CallsInv ==
    /\ stage = "preprocess" =>
            \E req \in DeriveRequests : ~IsErr(DeriveAddress(req)) /\ acct = DeriveAddress(req)
    /\ stage \in {"payloads", "parse", "combine"} =>
            /\ ops \in Seq(Range(ops)) /\ ~IsErr(RosettaOpsToTx(ops))
            /\ fee = SuggestedFee(SerSize(RosettaOpsToTx(ops)))
            /\ \E req \in DeriveRequests :
                ~IsErr(DeriveAddress(req)) /\ ops \in IntentsOf(DeriveAddress(req))
    /\ stage \in {"parse", "combine"} => Prepared

\* Every call keeps the invariant.
LEMMA CallsNext ==
    ASSUME CallsInv, [Next]_vars
    PROVE  CallsInv'
<1>1. CASE ConstructionDerive
    <2>1. \/ stage' = "failed"
          \/ /\ stage' = "preprocess"
             /\ \E req \in DeriveRequests : ~IsErr(DeriveAddress(req)) /\ acct' = DeriveAddress(req)
        BY <1>1 DEF ConstructionDerive, Fails, Goes
    <2> QED BY <2>1 DEF CallsInv
<1>2. CASE ConstructionPreprocess
    <2>1. PICK req \in DeriveRequests : ~IsErr(DeriveAddress(req)) /\ acct = DeriveAddress(req)
        BY <1>2 DEF ConstructionPreprocess, CallsInv
    <2>2. PICK s \in IntentsOf(acct) :
              /\ ops' = s
              /\ \/ stage' = "failed"
                 \/ /\ stage' = "payloads" /\ ~IsErr(RosettaOpsToTx(s))
                    /\ fee' = SuggestedFee(SerSize(RosettaOpsToTx(s)))
        BY <1>2 DEF ConstructionPreprocess, Fails, Goes
    <2>3. s \in Seq(Range(s)) BY <2>1, <2>2, IntentsAssumption DEF WellFormed
    <2>4. ops' \in Seq(Range(ops')) BY <2>2, <2>3
    <2>5. stage' = "payloads" => /\ ~IsErr(RosettaOpsToTx(ops'))
                                 /\ fee' = SuggestedFee(SerSize(RosettaOpsToTx(ops')))
        BY <2>2
    <2>6. stage' \in {"failed", "payloads"} BY <2>2
    <2>7. ops' \in IntentsOf(DeriveAddress(req)) BY <2>1, <2>2
    <2> QED BY <2>1, <2>4, <2>5, <2>6, <2>7 DEF CallsInv
<1>3. CASE ConstructionPayloads
    <2> DEFINE t == Serialize(RosettaOpsToTx(ops), ExtractPrevOutputsFromOps(ops))
    <2>1. ops' = ops /\ fee' = fee BY <1>3 DEF ConstructionPayloads
    <2>2. \/ stage' = "failed"
          \/ /\ stage' = "parse" /\ ~IsErr(t) /\ text' = t
             /\ payloads' = ExtractSignPayloads(ops, RosettaOpsToTx(ops))
             /\ \A i \in DOMAIN Debits(ops) : ~NoPrevOutput(Debits(ops)[i])
        BY <1>3 DEF ConstructionPayloads, Fails, Goes, IsErr, Err
    <2>3. stage' = "parse" => Prepared' BY <2>1, <2>2 DEF Prepared
    <2> HIDE DEF t
    <2>4. stage' \in {"failed", "parse"} /\ stage = "payloads" BY <1>3, <2>2 DEF ConstructionPayloads
    <2> QED BY <2>1, <2>3, <2>4 DEF CallsInv
<1>4. CASE ConstructionParse
    <2>1. /\ ops' = ops /\ fee' = fee /\ text' = text /\ payloads' = payloads
          /\ \/ stage' = "failed"
             \/ stage = "parse" /\ stage' = "combine"
             \/ stage = "parse signed" /\ stage' = "submit"
        BY <1>4 DEF ConstructionParse, Fails, Goes
    <2>2. Prepared => Prepared' BY <2>1 DEF Prepared
    <2> QED BY <2>1, <2>2 DEF CallsInv
<1>5. CASE ConstructionCombine
    <2>1. stage' \in {"failed", "parse signed"} BY <1>5 DEF ConstructionCombine, Fails, Goes
    <2> QED BY <2>1 DEF CallsInv
<1>6. CASE StartOver
    BY <1>6 DEF StartOver, CallsInv
<1>7. CASE UNCHANGED client
    <2>1. /\ stage' = stage /\ acct' = acct /\ ops' = ops /\ fee' = fee /\ text' = text
          /\ payloads' = payloads
        BY <1>7 DEF client
    <2>2. Prepared' = Prepared BY <2>1 DEF Prepared
    <2> QED BY <2>1, <2>2 DEF CallsInv
<1>8. ~ (\/ ConstructionDerive \/ ConstructionPreprocess \/ ConstructionPayloads
         \/ ConstructionParse \/ ConstructionCombine \/ StartOver) => UNCHANGED client
    BY DEF Next, SendRawTransaction, NoReply, ConstructionSubmit, Resubmit, Mine, DoubleSpend, vars
<1> QED BY <1>1, <1>2, <1>3, <1>4, <1>5, <1>6, <1>7, <1>8

\* A transaction gets its signatures in ConstructionCombine, and nowhere else.
Seals(sigs, c, tx2) ==
    /\ sigs \in Signings /\ c = Deserialize(text)
    /\ tx2 = CombineTxSigs(sigs, c.tx) /\ ~IsErr(tx2)

\* A signed transaction comes from /combine and from nowhere else.
LEMMA SignedBy ==
    ASSUME [Next]_vars, stage' = "parse signed", stage # "parse signed"
    PROVE  /\ stage = "combine" /\ ops' = ops /\ fee' = fee /\ parsed' = parsed
           /\ \E sigs, c, tx2 : Seals(sigs, c, tx2) /\ text' = Serialize(tx2, c.prevs)
<1>1. ConstructionCombine
    BY DEF Next, ConstructionDerive, ConstructionPreprocess, ConstructionPayloads,
           ConstructionParse, SendRawTransaction, NoReply, ConstructionSubmit, Resubmit,
           Mine, DoubleSpend, StartOver, Fails, Goes, vars, client
<1>2. stage = "combine" /\ ops' = ops /\ fee' = fee /\ parsed' = parsed
    BY <1>1 DEF ConstructionCombine
<1>3. PICK sigs \in Signings :
          LET c == Deserialize(text)
              tx2 == CombineTxSigs(sigs, c.tx)
          IN  ~IsErr(tx2) /\ text' = Serialize(tx2, c.prevs)
    BY <1>1 DEF ConstructionCombine, Fails
<1>4. \E c, tx2 : Seals(sigs, c, tx2) /\ text' = Serialize(tx2, c.prevs)
    BY <1>3 DEF Seals
<1> QED BY <1>2, <1>4

\* From then on the client only reads it.
LEMMA SignedStays ==
    ASSUME [Next]_vars, stage' \in {"parse signed", "submit"}, stage' # stage => stage' = "submit"
    PROVE  /\ stage \in {"parse signed", "submit"} /\ ops' = ops /\ fee' = fee /\ text' = text
           /\ \/ stage' = stage /\ parsed' = parsed
              \/ stage = "parse signed" /\ stage' = "submit" /\ ConstructionParse
BY DEF Next, ConstructionDerive, ConstructionPreprocess, ConstructionPayloads,
       ConstructionParse, ConstructionCombine, SendRawTransaction, NoReply, ConstructionSubmit,
       Resubmit, Mine, DoubleSpend, StartOver, Fails, Goes, vars, client

\* The invariant holds before the first call.
LEMMA CallsInit == Init => CallsInv
BY DEF Init, CallsInv

\* ... and the signed text verifies.
ConstructInv == CallsInv /\ SignaturesVerify

\* Every call keeps the invariant, if the signer keeps the order of the payloads.
LEMMA ConstructNext ==
    ASSUME ~Reorders, ConstructInv, [Next]_vars
    PROVE  ConstructInv'
<1>1. CallsInv' BY CallsNext DEF ConstructInv
<1>2. CASE stage' = "parse signed" /\ stage # "parse signed"
    <2>1. stage = "combine" BY <1>2, SignedBy
    <2>2. PICK sigs, c, tx2 : Seals(sigs, c, tx2) /\ text' = Serialize(tx2, c.prevs)
        BY <1>2, SignedBy
    <2>3. ops \in Seq(Range(ops)) /\ ~IsErr(RosettaOpsToTx(ops)) /\ Prepared
        BY <2>1 DEF ConstructInv, CallsInv
    <2>4. Verifies(Deserialize(Serialize(tx2, c.prevs)))
        BY <2>2, <2>3, CombineVerifies DEF Seals
    <2>5. Verifies(Deserialize(text')) BY <2>2, <2>4
    <2> QED BY <1>1, <2>5 DEF ConstructInv, SignaturesVerify
<1>3. CASE /\ stage' \in {"parse signed", "submit"}
           /\ stage' # stage => stage' = "submit"
    <2>1. stage \in {"parse signed", "submit"} /\ text' = text BY <1>3, SignedStays
    <2> QED BY <1>1, <2>1 DEF ConstructInv, SignaturesVerify
<1>4. CASE stage' \notin {"parse signed", "submit"}
    BY <1>1, <1>4 DEF ConstructInv, SignaturesVerify
<1> QED BY <1>2, <1>3, <1>4

\* A client that signs the payloads and returns the signatures in their order
\* gets a transaction whose every input is redeemed: however many inputs there
\* are, wherever the debits stand among the operations, and though the text
\* carries the spent outputs by position only.  The client that reorders them
\* is outside the theorem (MCConstructionOrder.cfg).
THEOREM SignaturesTheorem == ~Reorders => (Spec => []SignaturesVerify)
<1> SUFFICES ASSUME ~Reorders PROVE Spec => []SignaturesVerify OBVIOUS
<1>1. Init => ConstructInv BY CallsInit DEF Init, ConstructInv, SignaturesVerify
<1>2. ConstructInv /\ [Next]_vars => ConstructInv' BY ConstructNext
<1>3. ConstructInv => SignaturesVerify BY DEF ConstructInv
<1> QED BY <1>1, <1>2, <1>3, PTL DEF Spec

-----------------------------------------------------------------------------
(* The intent.                                                             *)

\* The two parts of an answer of ConstructionParse, and of what it should be.
SpentOp(op) == [type |-> "debit", acct |-> op.acct, amt |-> -Abs(op.amt), coin |-> op.coin]
PaidOp(op) == [type |-> "credit", acct |-> Account(op.acct), amt |-> op.amt]
SpentOps(s) == [i \in DOMAIN Debits(s) |-> SpentOp(Debits(s)[i])]
PaidOps(s) ==
    FlattenSeq([i \in DOMAIN s |->
        IF IsCredit(s[i]) /\ s[i].amt # 0 THEN << PaidOp(s[i]) >> ELSE << >>])

\* The intent: what it spends, then what it pays.
LEMMA NormalisedParts == \A s : Normalised(s) = SpentOps(s) \o PaidOps(s)
BY DEF Normalised, SpentOps, PaidOps, SpentOp, PaidOp

ParsedDebits(c) ==
    [i \in DOMAIN c.tx.ins |->
        [type |-> "debit", acct |-> DcrPkScriptToAccountAddr(c.prevs[c.tx.ins[i].prev].script),
         amt |-> -c.prevs[c.tx.ins[i].prev].amount, coin |-> c.tx.ins[i].prev.coin]]
ParsedCredits(outs) ==
    FlattenSeq([i \in DOMAIN outs |->
        IF outs[i].value = 0 THEN << >>
        ELSE << [type |-> "credit", acct |-> DcrPkScriptToAccountAddr(outs[i].script),
                 amt |-> outs[i].value] >>])

\* What /parse lists: the inputs, then the outputs.
LEMMA ParsedParts == \A c : ParsedOps(c) = ParsedDebits(c) \o ParsedCredits(c.tx.outs)
BY DEF ParsedOps, ParsedDebits, ParsedCredits

\* The script that pays to a standard address has that address.
LEMMA PaymentAccount ==
    ASSUME NEW a, IsAddress(a), ~IsRaw(a)
    PROVE  DcrPkScriptToAccountAddr(PaymentScript(a)) = a
<1> DEFINE p == PaymentScript(a)
<1>1. a.form \in Forms /\ a.version = 0 /\ a = Address(a.form, 0, a.key)
    BY DEF IsAddress, IsRaw
<1>2. p.version = 0 /\ p.class = a.form /\ p.key = a.key BY DEF PaymentScript
<1> HIDE DEF p
<1>3. ExtractAddrs(p) = << Address(a.form, 0, a.key) >> BY <1>1, <1>2 DEF ExtractAddrs, Forms
<1>4. Len(ExtractAddrs(p)) = 1 /\ ExtractAddrs(p)[1] = Address(a.form, 0, a.key) BY <1>3
<1>5. DcrPkScriptToAccountAddr(p) = a BY <1>1, <1>4 DEF DcrPkScriptToAccountAddr
<1> QED BY <1>5 DEF p

\* A script read from an account has the account's address, in its standard form
\* where it has one.
LEMMA ScriptAccount ==
    ASSUME NEW a, IsAddress(a), "version" \in DOMAIN a, ~IsErr(RosettaAccountToPkScript(a))
    PROVE  DcrPkScriptToAccountAddr(RosettaAccountToPkScript(a)) = Account(a)
<1>1. CASE ~IsRaw(a)
    <2>1. RosettaAccountToPkScript(a) = PaymentScript(a) BY <1>1 DEF RosettaAccountToPkScript
    <2>2. Account(a) = a BY <1>1 DEF Account, IsRaw
    <2> QED BY <1>1, <2>1, <2>2, PaymentAccount
<1>2. CASE IsRaw(a)
    <2> DEFINE p == [version |-> a.enc, class |-> a.class, key |-> a.key]
               raw == [form |-> "raw", version |-> a.enc, enc |-> a.enc,
                       class |-> a.class, key |-> a.key]
    <2>1. RosettaAccountToPkScript(a) = RawAccountAddrToPkScript(a)
        BY <1>2 DEF RosettaAccountToPkScript
    <2>2. a.form = "raw" /\ a.enc = a.version /\ RawAccountAddrToPkScript(a) = p
        <3>1. \A why : IsErr(Err(why)) BY DEF IsErr, Err
        <3>2. ~IsErr(RawAccountAddrToPkScript(a)) BY <2>1
        <3> QED BY <3>1, <3>2, Zenon DEF RawAccountAddrToPkScript
    <2>3. a.class \in Classes /\ a = raw BY <2>2 DEF IsAddress
    <2>4. p.version = a.version /\ p.class = a.class /\ p.key = a.key BY <2>2
    <2>5. PkScriptToRawAccountAddr(p) = a BY <2>2, <2>3, <2>4 DEF PkScriptToRawAccountAddr
    <2> HIDE DEF p, raw
    <2>6. CASE a.version # 0 \/ a.class = "nonstandard"
        <3>1. Len(ExtractAddrs(p)) = 0 BY <2>4, <2>6 DEF ExtractAddrs
        <3>2. Account(a) = a BY <2>2, <2>6 DEF Account, Forms
        <3> QED BY <2>1, <2>2, <2>5, <3>1, <3>2 DEF DcrPkScriptToAccountAddr
    <2>7. CASE a.version = 0 /\ a.class = "multisig"
        <3>1. Len(ExtractAddrs(p)) = 2 BY <2>4, <2>7 DEF ExtractAddrs
        <3>2. Account(a) = a BY <2>2, <2>7 DEF Account, Forms
        <3> QED BY <2>1, <2>2, <2>5, <3>1, <3>2 DEF DcrPkScriptToAccountAddr
    <2>8. CASE a.version = 0 /\ a.class \in Forms \cup {"stake"}
        <3> DEFINE w == Address(IF a.class = "stake" THEN "ecdsa" ELSE a.class, 0, a.key)
        <3>1. ExtractAddrs(p) = << w >> BY <2>4, <2>8 DEF ExtractAddrs, Forms
        <3>2. Account(a) = w BY <2>2, <2>8 DEF Account, Forms
        <3> HIDE DEF w
        <3>3. Len(ExtractAddrs(p)) = 1 /\ ExtractAddrs(p)[1] = w BY <3>1
        <3> QED BY <2>1, <2>2, <3>2, <3>3 DEF DcrPkScriptToAccountAddr
    <2> QED BY <2>3, <2>6, <2>7, <2>8 DEF Classes
<1> QED BY <1>1, <1>2

\* Every debit of an intent that names its account with a version has an address.
LEMMA DebitAddresses ==
    ASSUME NEW s, WellFormed(s), NEW i \in DOMAIN Debits(s), ~NoPrevOutput(Debits(s)[i])
    PROVE  IsAddress(Debits(s)[i].acct)
<1> DEFINE d == Debits(s)
<1>1. s \in Seq(Range(s)) BY DEF WellFormed
<1>2. d \in Seq(Range(s)) BY <1>1, DebitsSeq
<1>3. d[i] \in Range(s)
    <2> HIDE DEF d
    <2>1. i \in DOMAIN d BY DEF d
    <2> QED BY <1>2, <2>1
<1>4. PICK j \in DOMAIN s : s[j] = d[i] BY <1>3 DEF Range
<1> QED BY <1>4 DEF WellFormed, NoPrevOutput

\* Every input shows the amount and the owner of its own debit.
LEMMA DebitsShown ==
    ASSUME NEW c, NEW s, NEW n, Shows(c, s, n), WellFormed(s),
           \A i \in DOMAIN Debits(s) : ~NoPrevOutput(Debits(s)[i])
    PROVE  ParsedDebits(c) = SpentOps(s)
<1> DEFINE d == Debits(s)
           ins == c.tx.ins
           out(i) == c.prevs[ins[i].prev]
<1>1. /\ DOMAIN d = 1..n /\ DOMAIN ins = 1..n
      /\ \A i \in 1..n : ins[i].prev.coin = d[i].coin /\ out(i) = PrevOutputFromDebitOp(d[i])
    BY DEF Shows, Inputs
<1>2. ASSUME NEW i \in 1..n
      PROVE  /\ DcrPkScriptToAccountAddr(out(i).script) = d[i].acct
             /\ out(i).amount = Abs(d[i].amt)
    <2>1. out(i) = PrevOutputFromDebitOp(d[i]) BY <1>1
    <2>2. IsAddress(d[i].acct) BY <1>1, DebitAddresses
    <2>3. ~IsRaw(d[i].acct) BY DEF Shows, KnownPrevOutput
    <2> HIDE DEF out, d
    <2>4. out(i).script = PaymentScript(d[i].acct) /\ out(i).amount = Abs(d[i].amt)
        BY <2>1 DEF PrevOutputFromDebitOp
    <2> QED BY <2>2, <2>3, <2>4, PaymentAccount
<1>3. ParsedDebits(c) = [i \in 1..n |->
            [type |-> "debit", acct |-> DcrPkScriptToAccountAddr(out(i).script),
             amt |-> -out(i).amount, coin |-> ins[i].prev.coin]]
    BY <1>1 DEF ParsedDebits
<1>4. SpentOps(s) = [i \in 1..n |-> SpentOp(d[i])] BY <1>1 DEF SpentOps
<1>5. ASSUME NEW i \in 1..n
      PROVE  [type |-> "debit", acct |-> DcrPkScriptToAccountAddr(out(i).script),
              amt |-> -out(i).amount, coin |-> ins[i].prev.coin] = SpentOp(d[i])
    <2> HIDE DEF d, ins, out
    <2> QED BY <1>1, <1>2 DEF SpentOp
<1> HIDE DEF d, ins, out
<1> QED BY <1>3, <1>4, <1>5

\* The output of a credit is shown under the account that holds it.
LEMMA CreditAccount ==
    ASSUME NEW s, WellFormed(s), ~IsErr(RosettaOpsToTx(s)), NEW i \in DOMAIN s, IsCredit(s[i])
    PROVE  DcrPkScriptToAccountAddr(RosettaAccountToPkScript(s[i].acct)) = Account(s[i].acct)
<1>1. OpError(s[i]) = {} BY DEF RosettaOpsToTx, IsErr, Err
<1> DEFINE p == RosettaAccountToPkScript(s[i].acct)
<1>2. "acct" \in DOMAIN s[i] /\ ~IsErr(p) BY <1>1, SMTT(30) DEF OpError, IsCredit
<1>3. "version" \in DOMAIN s[i].acct BY <1>2 DEF RosettaAccountToPkScript, IsErr, Err
<1>4. IsAddress(s[i].acct) BY <1>2, <1>3 DEF WellFormed
<1> QED BY <1>2, <1>3, <1>4, ScriptAccount

\* The outputs show the credits that carry value: filtering the credits of the
\* intent is filtering the intent.
LEMMA CreditsShown ==
    ASSUME NEW s, WellFormed(s), NEW outs, ~IsErr(RosettaOpsToTx(s)),
           outs = RosettaOpsToTx(s).outs
    PROVE  ParsedCredits(outs) = PaidOps(s)
<1> DEFINE R == {op \in Range(s) : IsCredit(op)}
           k == Len(s)
           cs == Credits(s)
           U == {PaidOp(op) : op \in R}
           g == [op \in R |-> IF op.amt = 0 THEN << >> ELSE << PaidOp(op) >>]
           sq == [i \in 1..k |-> IF IsCredit(s[i]) THEN << s[i] >> ELSE << >>]
           h == [i \in 1..k |-> IF IsCredit(s[i]) /\ s[i].amt # 0 THEN << PaidOp(s[i]) >> ELSE << >>]
           Out(op) == [value |-> op.amt, script |-> RosettaAccountToPkScript(op.acct)]
           shown(o) == IF o.value = 0 THEN << >>
                       ELSE << [type |-> "credit", acct |-> DcrPkScriptToAccountAddr(o.script),
                                amt |-> o.value] >>
<1>0. s \in Seq(Range(s)) BY DEF WellFormed
<1>1. k \in Nat /\ DOMAIN s = 1..k /\ \A i \in 1..k : IsCredit(s[i]) => s[i] \in R
    BY <1>0 DEF Range
<1>2. cs = FlattenSeq(sq) BY <1>1 DEF Credits
<1>3. PaidOps(s) = FlattenSeq(h) BY <1>1 DEF PaidOps
<1>4. outs = [i \in DOMAIN cs |-> Out(cs[i])] BY DEF RosettaOpsToTx, IsErr, Err
<1>5. ASSUME NEW op \in R PROVE shown(Out(op)) = IF op.amt = 0 THEN << >> ELSE << PaidOp(op) >>
    <2>1. PICK i \in DOMAIN s : s[i] = op BY DEF Range
    <2>2. DcrPkScriptToAccountAddr(RosettaAccountToPkScript(op.acct)) = Account(op.acct)
        BY <2>1, CreditAccount
    <2>3. Out(op).value = op.amt /\ Out(op).script = RosettaAccountToPkScript(op.acct) OBVIOUS
    <2> HIDE DEF Out, R
    <2> QED BY <2>2, <2>3 DEF PaidOp
<1>6. g \in [R -> Seq(U)]
    <2>1. \A op \in R : PaidOp(op) \in U OBVIOUS
    <2> HIDE DEF U, R
    <2> QED BY <2>1
<1>7. sq \in [1..k -> Seq(R)] /\ \A i \in 1..k : Len(sq[i]) <= 1
    <2> HIDE DEF R
    <2> QED BY <1>1
<1>8. h \in [1..k -> Seq(U)]
    <2>1. \A i \in 1..k : IsCredit(s[i]) => PaidOp(s[i]) \in U BY <1>1
    <2> HIDE DEF U, R
    <2> QED BY <2>1
<1>9. \A i \in 1..k : h[i] = IF Len(sq[i]) = 0 THEN << >> ELSE g[sq[i][1]]
    <2> HIDE DEF R
    <2> QED BY <1>1
<1> HIDE DEF sq, h, k, R, U, cs
<1>10. cs \in Seq(R) /\ DOMAIN cs = 1..Len(cs) /\ \A i \in 1..Len(cs) : cs[i] \in R
    <2>1. cs \in Seq(R) BY <1>1, <1>2, <1>7, FlattenRange
    <2> QED BY <2>1
<1>11. DOMAIN outs = 1..Len(cs) /\ \A i \in 1..Len(cs) : shown(outs[i]) = g[cs[i]]
    <2>1. DOMAIN outs = 1..Len(cs) /\ \A i \in 1..Len(cs) : outs[i] = Out(cs[i])
        <3> HIDE DEF Out
        <3> QED BY <1>4, <1>10
    <2>2. \A i \in 1..Len(cs) : g[cs[i]] = IF cs[i].amt = 0 THEN << >> ELSE << PaidOp(cs[i]) >>
        BY <1>10
    <2> HIDE DEF g, shown, Out
    <2> QED BY <1>5, <1>10, <2>1, <2>2
<1>12. ParsedCredits(outs) = FlattenSeq([i \in DOMAIN outs |-> shown(outs[i])]) BY DEF ParsedCredits
<1> HIDE DEF g, shown
<1>13. ParsedCredits(outs) = FlattenSeq([i \in 1..Len(cs) |-> g[cs[i]]])
    <2>1. [i \in DOMAIN outs |-> shown(outs[i])] = [i \in 1..Len(cs) |-> g[cs[i]]] BY <1>11
    <2> QED BY <1>12, <2>1
<1>14. FlattenSeq([i \in 1..Len(cs) |-> g[cs[i]]]) = FlattenSeq(h)
    <2>1. AtMostOnes(R, k, sq) BY <1>7 DEF AtMostOnes
    <2> DEFINE t == [i \in 1..Len(cs) |-> g[cs[i]]]
    <2>2. t = [i \in 1..Len(cs) |-> g[cs[i]]] OBVIOUS
    <2> HIDE DEF t
    <2>3. FlattenSeq(t) = FlattenSeq(h)
        <3>1. k \in Nat BY <1>1
        <3>2. cs = FlattenSeq(sq) BY <1>2
        <3>3. g \in [R -> Seq(U)] BY <1>6
        <3>4. Maps(R, U, k, sq, g, h, cs, t)
            BY <1>8, <1>9, <2>1, <2>2, <3>1, <3>2, <3>3 DEF Maps
        <3> QED BY <3>4, FlattenMapped
    <2> QED BY <2>3 DEF t
<1> QED BY <1>3, <1>13, <1>14

\* /parse lists exactly the intent.
LEMMA ParsedIsIntent ==
    ASSUME NEW s, WellFormed(s), ~IsErr(RosettaOpsToTx(s)), NEW c, NEW n, Shows(c, s, n),
           \A i \in DOMAIN Debits(s) : ~NoPrevOutput(Debits(s)[i])
    PROVE  ParsedOps(c) = Normalised(s)
<1>1. ParsedDebits(c) = SpentOps(s) BY DebitsShown
<1>2. ParsedCredits(c.tx.outs) = PaidOps(s)
    <2>1. c.tx.outs = RosettaOpsToTx(s).outs BY DEF Shows
    <2> QED BY <2>1, CreditsShown
<1> QED BY <1>1, <1>2, NormalisedParts, ParsedParts

\* The signatures a client makes, in whatever order: one for every payload.
Sizes(sigs, n) == DOMAIN sigs = 1..n /\ Len(sigs) = n /\ \A i \in 1..n : sigs[i].size \in SigSizes

\* Signatures have the sizes the client may produce.
LEMMA SigningSizes ==
    ASSUME NEW sigs \in Signings, NEW n \in Nat, n = Len(payloads)
    PROVE  Sizes(sigs, n)
<1>1. PICK f \in Orders(n), m \in Makes, size \in [1..n -> SigSizes] :
          sigs = [i \in 1..n |-> Signature(payloads[f[i]], m, size[i])]
    BY DEF Signings
<1>2. \A p, z : Signature(p, m, z).size = z BY DEF Signature
<1> DEFINE T == {Signature(payloads[f[i]], m, size[i]) : i \in 1..n}
<1>3. sigs \in Seq(T) /\ DOMAIN sigs = 1..n BY <1>1
<1>4. Len(sigs) = n
    <2> HIDE DEF T
    <2> QED BY <1>3
<1>5. \A i \in 1..n : sigs[i].size = size[i] BY <1>1, <1>2
<1> QED BY <1>1, <1>3, <1>4, <1>5 DEF Sizes

\* What ConstructionCombine answers with, whatever the order of the signatures:
\* the client's transaction, every input of which spends a P2PKH output.
Owned(s, n) == \A i \in 1..n : ~IsRaw(Debits(s)[i].acct) /\ Debits(s)[i].acct.form = "ecdsa"

\* What /combine starts from and what it makes of it.
LEMMA Combined ==
    ASSUME ops \in Seq(Range(ops)), ~IsErr(RosettaOpsToTx(ops)), Prepared,
           NEW sigs, NEW c, NEW tx2, Seals(sigs, c, tx2), NEW n, n = Len(Debits(ops))
    PROVE  /\ Unsealed(c, ops, n) /\ Sizes(sigs, n) /\ Owned(ops, n)
           /\ Sealed(c, tx2, Deserialize(Serialize(tx2, c.prevs)), sigs, ops, n)
<1>1. payloads = ExtractSignPayloads(ops, RosettaOpsToTx(ops)) BY DEF Prepared
<1>2. /\ sigs \in Signings /\ c = Deserialize(text)
      /\ tx2 = CombineTxSigs(sigs, c.tx) /\ ~IsErr(tx2)
    BY DEF Seals
<1>3. Len(payloads) \in Nat BY <1>1, PayloadsSeq
<1>4. Sizes(sigs, Len(payloads)) BY <1>2, <1>3, SigningSizes
<1>5. Unsealed(c, ops, n) BY <1>2, PreparedText
<1>6. Sealed(c, tx2, Deserialize(Serialize(tx2, c.prevs)), sigs, ops, n)
    <2>1. DOMAIN sigs = 1..Len(sigs) /\ Len(sigs) \in Nat BY <1>3, <1>4 DEF Sizes
    <2> QED BY <1>2, <1>5, <2>1, CombinedText
<1>7. Len(sigs) = n /\ Len(sigs) = Len(payloads) BY <1>4, <1>6 DEF Sealed, Sizes
<1>8. n \in Nat /\ DOMAIN Debits(ops) = 1..n /\ Len(payloads) = n /\ Sizes(sigs, n)
    BY <1>4, <1>5, <1>7 DEF Unsealed, Shows, Inputs
<1>9. Owned(ops, n)
    <2> DEFINE d == Debits(ops)
    <2>1. d = Debits(ops) /\ DOMAIN d = 1..n BY <1>8
    <2> HIDE DEF d
    <2> DEFINE tx == RosettaOpsToTx(ops)
    <2>2. payloads = ExtractSignPayloads(ops, tx) BY <1>1
    <2> HIDE DEF tx
    <2>3. n \in Nat /\ Len(payloads) = n BY <1>8
    <2>4. \A i \in 1..n : /\ payloads[i] = [acct |-> d[i].acct, digest |-> SigHash(tx, i, PaymentScript(d[i].acct))]
                          /\ ~IsRaw(d[i].acct) /\ d[i].acct.form = "ecdsa"
        BY <2>1, <2>2, <2>3, PayloadsInOrder
    <2> QED BY <2>1, <2>4 DEF Owned
<1> QED BY <1>5, <1>6, <1>8, <1>9

\* Among the operations parsed, the debits come first.
DebitsFirst(pops, k, s, n) ==
    /\ k \in Nat /\ n \in 0..k /\ DOMAIN pops = 1..k
    /\ \A i \in 1..k : IsDebit(pops[i]) <=> i <= n
    /\ \A i \in 1..n : pops[i].acct = Debits(s)[i].acct

\* The debits of an intent come first, in order.
LEMMA NormalisedDebits ==
    ASSUME NEW s, s \in Seq(Range(s)), NEW n, n = Len(Debits(s)), DOMAIN Debits(s) = 1..n
    PROVE  \E k : DebitsFirst(Normalised(s), k, s, n)
<1> DEFINE d == Debits(s)
           A == SpentOps(s)
           B == PaidOps(s)
           R == Range(s)
           U == {PaidOp(op) : op \in R}
           V == {SpentOp(d[i]) : i \in 1..n}
           h == [i \in 1..Len(s) |->
                    IF IsCredit(s[i]) /\ s[i].amt # 0 THEN << PaidOp(s[i]) >> ELSE << >>]
<1>1. n \in Nat
    <2>1. d \in Seq(R) BY DebitsSeq
    <2> HIDE DEF d, R
    <2> QED BY <2>1 DEF d
<1>2. A = [i \in 1..n |-> SpentOp(d[i])] BY DEF SpentOps
<1>3. \A op : /\ SpentOp(op).acct = op.acct /\ IsDebit(SpentOp(op))
              /\ ~IsDebit(PaidOp(op))
    BY DEF SpentOp, PaidOp, IsDebit
<1>4. A \in Seq(V) /\ DOMAIN A = 1..n /\ \A i \in 1..n : A[i] = SpentOp(d[i])
    <2> HIDE DEF A, d
    <2> QED BY <1>1, <1>2
<1>5. B \in Seq(U)
    <2>1. Len(s) \in Nat /\ DOMAIN s = 1..Len(s) /\ \A i \in 1..Len(s) : s[i] \in R OBVIOUS
    <2>2. B = FlattenSeq(h) BY <2>1 DEF PaidOps
    <2>3. h \in [1..Len(s) -> Seq(U)]
        <3>1. \A i \in 1..Len(s) : PaidOp(s[i]) \in U BY <2>1
        <3> HIDE DEF U, R
        <3> QED BY <3>1
    <2> HIDE DEF h, U, R, B
    <2>4. FlattenSeq(h) \in Seq(U) BY <2>1, <2>3, FlattenRange
    <2> QED BY <2>2, <2>4
<1>6. \A u \in U : ~IsDebit(u) BY <1>3
<1> HIDE DEF A, B, U, V, h, R, d
<1>7. Len(A) = n /\ Len(B) \in Nat /\ \A i \in 1..Len(B) : B[i] \in U BY <1>1, <1>4, <1>5
<1> DEFINE pops == A \o B
           k == n + Len(B)
<1>8. /\ DOMAIN pops = 1..k
      /\ \A i \in 1..k : pops[i] = IF i <= n THEN A[i] ELSE B[i - n]
    <2>1. A \in Seq(U \cup V) /\ B \in Seq(U \cup V) BY <1>4, <1>5
    <2>2. /\ Len(pops) = Len(A) + Len(B) /\ pops \in Seq(U \cup V)
          /\ \A i \in 1..(Len(A) + Len(B)) : pops[i] = IF i <= Len(A) THEN A[i] ELSE B[i - Len(A)]
        BY <2>1, ConcatProperties
    <2> HIDE DEF pops
    <2>3. DOMAIN pops = 1..Len(pops) BY <2>2
    <2> QED BY <1>7, <2>2, <2>3
<1>9. k \in Nat /\ n \in 0..k BY <1>1, <1>7
<1> HIDE DEF k, pops
<1>10. ASSUME NEW i \in 1..n PROVE i \in 1..k /\ pops[i].acct = d[i].acct /\ IsDebit(pops[i])
    <2>1. i \in 1..k /\ i <= n BY <1>9
    <2>2. pops[i] = SpentOp(d[i]) BY <1>4, <1>8, <2>1
    <2> QED BY <1>3, <2>1, <2>2
<1>11. ASSUME NEW i \in 1..k, ~(i <= n) PROVE ~IsDebit(pops[i])
    <2>1. i - n \in 1..Len(B) BY <1>1, <1>7, <1>11 DEF k
    <2>2. pops[i] = B[i - n] BY <1>8, <1>11
    <2> QED BY <1>6, <1>7, <2>1, <2>2
<1>12. ASSUME NEW i \in 1..k PROVE IsDebit(pops[i]) <=> i <= n
    <2>1. i <= n => i \in 1..n BY <1>9
    <2> QED BY <1>10, <1>11, <2>1
<1>13. DebitsFirst(pops, k, s, n) BY <1>8, <1>9, <1>10, <1>12 DEF DebitsFirst, d
<1>14. pops = Normalised(s) BY NormalisedParts DEF pops, A, B
<1> QED BY <1>13, <1>14

\* Once signed, the signers are the owners of the inputs, in their order.
Owners(s) == [i \in DOMAIN Debits(s) |-> Debits(s)[i].acct]

\* The signers /parse names are the owners of the outputs spent.
LEMMA SignersAreOwners ==
    ASSUME NEW s, s \in Seq(Range(s)), NEW tx, NEW n, n = Len(Debits(s)),
           DOMAIN Debits(s) = 1..n, Owned(s, n), \A i \in 1..n : tx.ins[i].script.size # 0
    PROVE  ExtractTxSigners(Normalised(s), tx) = Owners(s)
<1> DEFINE pops == Normalised(s)
           d == Debits(s)
           T == {pops[i] : i \in DOMAIN pops}
           dd == Debits(pops)
<1>1. PICK k : DebitsFirst(pops, k, s, n) BY NormalisedDebits
<1>2. /\ k \in Nat /\ n \in 0..k /\ DOMAIN pops = 1..k
      /\ \A i \in 1..k : IsDebit(pops[i]) <=> i <= n
      /\ \A i \in 1..n : pops[i].acct = d[i].acct
    BY <1>1 DEF DebitsFirst
<1> DEFINE t == [i \in 1..k |-> IF IsDebit(pops[i]) THEN << pops[i] >> ELSE << >>]
<1>3. dd = FlattenSeq(t) BY <1>2 DEF Debits
<1>4. t \in [1..k -> Seq(T)]
    <2>1. \A i \in 1..k : pops[i] \in T BY <1>2
    <2> HIDE DEF T, pops
    <2> QED BY <2>1
<1>5. ASSUME NEW i \in 1..k
      PROVE  Len(t[i]) = (IF i <= n THEN 1 ELSE 0) /\ (i <= n => t[i][1] = pops[i])
    <2> HIDE DEF pops
    <2> QED BY <1>2
<1> HIDE DEF t, T, pops, dd
<1>6. dd \in Seq(T) /\ Len(dd) = n /\ \A i \in 1..n : dd[i] = t[i][1]
    <2>1. OnesFirst(T, k, n, t) BY <1>2, <1>4, <1>5 DEF OnesFirst
    <2> QED BY <1>3, <2>1, FlattenFirst
<1>7. DOMAIN dd = 1..n /\ \A i \in 1..n : dd[i] = pops[i]
    <2>1. DOMAIN dd = 1..n BY <1>6
    <2>2. \A i \in 1..n : i \in 1..k /\ i <= n BY <1>2
    <2> QED BY <1>5, <1>6, <2>1, <2>2
<1>8. \A i \in 1..n : dd[i].acct = d[i].acct BY <1>2, <1>7
<1> DEFINE A == {d[i].acct : i \in 1..n}
           u == [i \in 1..n |-> IF tx.ins[i].script.size = 0 \/ IsRaw(dd[i].acct) THEN << >>
                                ELSE << dd[i].acct >>]
<1>9. ExtractTxSigners(pops, tx) = FlattenSeq(u) BY <1>7 DEF ExtractTxSigners, dd
<1>10. \A i \in 1..n : u[i] = << d[i].acct >>
    <2>1. \A i \in 1..n : ~IsRaw(d[i].acct) /\ tx.ins[i].script.size # 0 BY DEF Owned
    <2> HIDE DEF d
    <2> QED BY <1>8, <2>1
<1>11. u \in [1..n -> Seq(A)]
    <2>1. ASSUME NEW i \in 1..n PROVE u[i] \in Seq(A)
        <3> DEFINE x == d[i].acct
        <3>1. x \in A /\ u[i] = << x >> BY <1>10
        <3> HIDE DEF A, u, x
        <3> QED BY <3>1
    <2>2. u = [i \in 1..n |-> u[i]] OBVIOUS
    <2> HIDE DEF u, A
    <2> QED BY <2>1, <2>2
<1> HIDE DEF u, A, d
<1>12. n \in Nat /\ n \in 0..n BY <1>2
<1>13. ASSUME NEW i \in 1..n PROVE Len(u[i]) = (IF i <= n THEN 1 ELSE 0) /\ u[i][1] = d[i].acct
    <2> DEFINE x == d[i].acct
    <2>1. i <= n /\ u[i] = << x >> BY <1>10, <1>12
    <2> HIDE DEF x
    <2>2. Len(u[i]) = 1 /\ u[i][1] = x BY <2>1
    <2> QED BY <2>1, <2>2 DEF x
<1> DEFINE w == FlattenSeq(u)
<1>14. w \in Seq(A) /\ Len(w) = n /\ \A i \in 1..n : w[i] = u[i][1]
    <2>1. OnesFirst(A, n, n, u) BY <1>11, <1>12, <1>13 DEF OnesFirst
    <2> QED BY <2>1, FlattenFirst
<1> HIDE DEF w
<1>15. w = [i \in 1..n |-> d[i].acct] BY <1>13, <1>14
<1>16. Owners(s) = [i \in 1..n |-> d[i].acct] BY DEF Owners, d
<1> QED BY <1>9, <1>15, <1>16 DEF w, pops

\* What the signed text shows is the intent, and its owners as the signers.
SignedIntent(t, s) ==
    LET c == Deserialize(t)
    IN  ParsedOps(c) = Normalised(s) /\ ExtractTxSigners(ParsedOps(c), c.tx) = Owners(s)

\* The signed transaction shows the intent and its signers.
LEMMA CombinedIntent ==
    ASSUME WellFormed(ops), ~IsErr(RosettaOpsToTx(ops)), Prepared,
           NEW sigs, NEW c, NEW tx2, Seals(sigs, c, tx2)
    PROVE  SignedIntent(Serialize(tx2, c.prevs), ops)
<1> DEFINE n == Len(Debits(ops))
           c2 == Deserialize(Serialize(tx2, c.prevs))
<1>0. n = Len(Debits(ops)) /\ ops \in Seq(Range(ops)) BY DEF WellFormed
<1> HIDE DEF n
<1>1. Sizes(sigs, n) /\ Owned(ops, n) /\ Sealed(c, tx2, c2, sigs, ops, n) BY <1>0, Combined
<1> HIDE DEF c2
<1>2. c2.tx = tx2 /\ Shows(c2, ops, n) /\ Signed(c.tx, sigs, tx2, n) BY <1>1 DEF Sealed
<1>3. ParsedOps(c2) = Normalised(ops) BY <1>2, ParsedIsIntent DEF Prepared
<1>4. ASSUME NEW i \in 1..n PROVE c2.tx.ins[i].script.size # 0
    <2>1. c2.tx.ins[i].script.size \in SigSizes BY <1>1, <1>2 DEF Signed, Sizes
    <2> QED BY <2>1, ConstructionAssumption
<1>5. DOMAIN Debits(ops) = 1..n BY <1>2 DEF Shows
<1>6. ExtractTxSigners(Normalised(ops), c2.tx) = Owners(ops)
    BY <1>0, <1>1, <1>4, <1>5, SignersAreOwners
<1> QED BY <1>3, <1>6 DEF SignedIntent, c2

\* The operations a client goes on with are one of its intents.
LEMMA IntentsWellFormed ==
    ASSUME CallsInv, stage \in {"payloads", "parse", "combine"}
    PROVE  WellFormed(ops)
<1>1. PICK req \in DeriveRequests :
          ~IsErr(DeriveAddress(req)) /\ ops \in IntentsOf(DeriveAddress(req))
    BY DEF CallsInv
<1> QED BY <1>1, IntentsAssumption

\* What was shown of the unsigned text is the intent, and what will be shown of
\* the signed text is too.
IntentInv ==
    /\ CallsInv /\ IntentSurvives
    /\ stage = "parse signed" => SignedIntent(text, ops)

\* Every call keeps the invariant.
LEMMA IntentNext ==
    ASSUME IntentInv, [Next]_vars
    PROVE  IntentInv'
<1>1. CallsInv' BY CallsNext DEF IntentInv
<1>2. CASE stage' = "parse signed" /\ stage # "parse signed"
    <2>1. stage = "combine" /\ ops' = ops /\ parsed' = parsed BY <1>2, SignedBy
    <2>2. PICK sigs, c, tx2 : Seals(sigs, c, tx2) /\ text' = Serialize(tx2, c.prevs)
        BY <1>2, SignedBy
    <2>3. WellFormed(ops) /\ ~IsErr(RosettaOpsToTx(ops)) /\ Prepared
        BY <2>1, IntentsWellFormed DEF IntentInv, CallsInv
    <2>4. SignedIntent(text', ops') BY <2>1, <2>2, <2>3, CombinedIntent
    <2>5. parsed'.ops = Normalised(ops') BY <2>1 DEF IntentInv, IntentSurvives
    <2> QED BY <1>1, <1>2, <2>4, <2>5 DEF IntentInv, IntentSurvives
<1>3. CASE /\ stage' \in {"parse signed", "submit"}
           /\ stage' # stage => stage' = "submit"
    <2>1. /\ stage \in {"parse signed", "submit"} /\ ops' = ops /\ text' = text
          /\ \/ stage' = stage /\ parsed' = parsed
             \/ stage = "parse signed" /\ stage' = "submit" /\ ConstructionParse
        BY <1>3, SignedStays
    <2>2. CASE stage' = stage /\ parsed' = parsed
        BY <1>1, <2>1, <2>2 DEF IntentInv, IntentSurvives
    <2>3. CASE stage = "parse signed" /\ stage' = "submit" /\ ConstructionParse
        <3> DEFINE c == Deserialize(text)
        <3>1. parsed' = [ops |-> ParsedOps(c), signers |-> ExtractTxSigners(ParsedOps(c), c.tx)]
            BY <2>3 DEF ConstructionParse, Fails
        <3>2. ParsedOps(c) = Normalised(ops) /\ ExtractTxSigners(ParsedOps(c), c.tx) = Owners(ops)
            BY <2>3 DEF IntentInv, SignedIntent
        <3> HIDE DEF c
        <3>3. parsed'.ops = Normalised(ops') /\ parsed'.signers = Owners(ops') BY <2>1, <3>1, <3>2
        <3> QED BY <1>1, <2>3, <3>3 DEF IntentInv, IntentSurvives, Owners
    <2> QED BY <2>1, <2>2, <2>3
<1>4. CASE stage' = "combine"
    <2>1. \/ stage = "parse" /\ ConstructionParse /\ ops' = ops
          \/ stage = "combine" /\ ops' = ops /\ parsed' = parsed
        BY <1>4 DEF Next, ConstructionDerive, ConstructionPreprocess, ConstructionPayloads,
           ConstructionParse, ConstructionCombine, SendRawTransaction, NoReply,
           ConstructionSubmit, Resubmit, Mine, DoubleSpend, StartOver, Fails, Goes, vars, client
    <2>2. CASE stage = "combine" /\ ops' = ops /\ parsed' = parsed
        BY <1>1, <1>4, <2>2 DEF IntentInv, IntentSurvives
    <2>3. CASE stage = "parse" /\ ConstructionParse /\ ops' = ops
        <3> DEFINE c == Deserialize(text)
                   n == Len(Debits(ops))
        <3>1. parsed' = [ops |-> ParsedOps(c), signers |-> ExtractTxSigners(ParsedOps(c), c.tx)]
            BY <1>4, <2>3 DEF ConstructionParse, Fails
        <3>2. /\ WellFormed(ops) /\ ~IsErr(RosettaOpsToTx(ops)) /\ Prepared
              /\ ops \in Seq(Range(ops))
            BY <2>3, IntentsWellFormed DEF IntentInv, CallsInv
        <3>3. c = Deserialize(text) /\ n = Len(Debits(ops)) OBVIOUS
        <3> HIDE DEF c, n
        <3>4. Unsealed(c, ops, n) BY <3>2, <3>3, PreparedText
        <3>5. ParsedOps(c) = Normalised(ops)
            BY <3>2, <3>4, ParsedIsIntent DEF Unsealed, Prepared
        <3>6. parsed'.ops = Normalised(ops') BY <2>3, <3>1, <3>5
        <3> QED BY <1>1, <1>4, <3>6 DEF IntentInv, IntentSurvives
    <2> QED BY <2>1, <2>2, <2>3
<1>5. CASE stage' \notin {"combine", "parse signed", "submit"}
    BY <1>1, <1>5 DEF IntentInv, IntentSurvives
<1> QED BY <1>2, <1>3, <1>4, <1>5

\* What ConstructionParse shows before and after signing is what the client
\* asked for, for every intent: each debit with its own amount and owner, each
\* credit that carries value under the account that holds it, in their order;
\* and after signing the owners of the inputs as signers, in whatever order the
\* signatures were handed over.  An address comes back as it was given, unless
\* it is the raw form of a script with a standard address, which comes back as
\* that address: scripts are read from accounts and accounts from scripts.
THEOREM IntentTheorem == Spec => []IntentSurvives
<1>1. Init => IntentInv BY CallsInit DEF Init, IntentInv, IntentSurvives
<1>2. IntentInv /\ [Next]_vars => IntentInv' BY IntentNext
<1>3. IntentInv => IntentSurvives BY DEF IntentInv
<1> QED BY <1>1, <1>2, <1>3, PTL DEF Spec

-----------------------------------------------------------------------------
(* The fee.                                                                *)

\* A number of outputs, whatever they are.
LEMMA OutputsCounted ==
    ASSUME NEW s, s \in Seq(Range(s)), ~IsErr(RosettaOpsToTx(s))
    PROVE  Len(RosettaOpsToTx(s).outs) \in Nat
<1> DEFINE R == Range(s)
           k == Len(s)
           cs == Credits(s)
           sq == [i \in 1..k |-> IF IsCredit(s[i]) THEN << s[i] >> ELSE << >>]
           Out(op) == [value |-> op.amt, script |-> RosettaAccountToPkScript(op.acct)]
           outs == RosettaOpsToTx(s).outs
<1>1. k \in Nat /\ DOMAIN s = 1..k /\ \A i \in 1..k : s[i] \in R OBVIOUS
<1>2. cs = FlattenSeq(sq) BY <1>1 DEF Credits
<1>3. outs = [i \in DOMAIN cs |-> Out(cs[i])] BY DEF RosettaOpsToTx, IsErr, Err
<1>4. sq \in [1..k -> Seq(R)]
    <2> HIDE DEF R
    <2> QED BY <1>1
<1> HIDE DEF sq, k, R, cs, outs
<1>5. cs \in Seq(R) BY <1>1, <1>2, <1>4, FlattenRange
<1> DEFINE m == Len(cs)
           T == {Out(cs[i]) : i \in 1..m}
<1>6. m \in Nat /\ DOMAIN cs = 1..m BY <1>5
<1> HIDE DEF m, Out
<1>7. outs \in Seq(T)
    <2>1. \A i \in 1..m : Out(cs[i]) \in T OBVIOUS
    <2> HIDE DEF T
    <2>2. outs = [i \in 1..m |-> Out(cs[i])] BY <1>3, <1>6
    <2> QED BY <1>6, <2>1, <2>2
<1> HIDE DEF T
<1>8. Len(outs) \in Nat BY <1>7
<1> QED BY <1>8 DEF outs

\* Signed inputs are no longer than what was counted for them.
InsSize(ins) == SumFunction([i \in DOMAIN ins |-> 58 + ins[i].script.size])
Unscripted(ins) == {i \in DOMAIN ins : ins[i].script.size = 0}
Covers(p, q, n) ==
    /\ n \in Nat /\ DOMAIN p = 1..n /\ DOMAIN q = 1..n
    /\ \A i \in 1..n : /\ p[i].script.size \in Nat /\ q[i].script.size \in Nat
                       /\ q[i].script.size <= IF p[i].script.size = 0 THEN p2pkhSigScriptSerSize
                                              ELSE p[i].script.size

\* The size of a transaction and the size /preprocess estimates.
LEMMA SizesOf ==
    /\ \A tx : TxSize(tx) = 15 + InsSize(tx.ins) + 36 * Len(tx.outs)
    /\ \A tx : SerSize(tx) = TxSize(tx) + Cardinality(Unscripted(tx.ins)) * p2pkhSigScriptSerSize
BY DEF TxSize, SerSize, InsSize, Unscripted

\* The estimate covers the inputs, one by one and so in all.
LEMMA InputsCovered ==
    ASSUME NEW n, NEW p, NEW q, Covers(p, q, n)
    PROVE  /\ InsSize(p) \in Int /\ InsSize(q) \in Int /\ Cardinality(Unscripted(p)) \in Nat
           /\ InsSize(q) <= InsSize(p) + Cardinality(Unscripted(p)) * p2pkhSigScriptSerSize
<1> USE DEF Covers
<1> DEFINE f == [i \in 1..n |-> 58 + q[i].script.size]
           g == [i \in 1..n |-> 58 + p[i].script.size]
           S == 1..n
           U == {i \in S : p[i].script.size = 0}
           c == p2pkhSigScriptSerSize
<1>1. IsFiniteSet(S) /\ U \in SUBSET S
    <2>1. 1 \in Int /\ n \in Int OBVIOUS
    <2> QED BY <2>1, FS_Interval
<1>2. IntegersOn(f, S) /\ IntegersOn(g, S) BY DEF IntegersOn
<1>3. c = 108 /\ c \in Nat BY DEF p2pkhSigScriptSerSize
<1>4. ASSUME NEW i \in S PROVE f[i] <= g[i] + (IF i \in U THEN c ELSE 0)
    <2> DEFINE a == p[i].script.size
               b == q[i].script.size
    <2>1. a \in Nat /\ b \in Nat /\ b <= (IF a = 0 THEN c ELSE a) OBVIOUS
    <2>2. f[i] = 58 + b /\ g[i] = 58 + a /\ (i \in U <=> a = 0) OBVIOUS
    <2> HIDE DEF a, b, f, g, U, c
    <2> QED BY <1>3, <2>1, <2>2
<1>5. SumFunction(f) = SumFunctionOnSet(f, S) /\ SumFunction(g) = SumFunctionOnSet(g, S)
    BY DEF SumFunction
<1>6. InsSize(q) = SumFunction(f) /\ InsSize(p) = SumFunction(g) BY DEF InsSize
<1>7. U = Unscripted(p) BY DEF Unscripted
<1> HIDE DEF f, g, S, U, c
<1>8. /\ Cardinality(U) \in Nat
      /\ SumFunctionOnSet(f, S) <= SumFunctionOnSet(g, S) + Cardinality(U) * c
    BY <1>1, <1>2, <1>3, <1>4, SumCovered, ZenonT(60)
<1>9. SumFunctionOnSet(f, S) \in Int /\ SumFunctionOnSet(g, S) \in Int BY <1>1, <1>2, SumType
<1> QED BY <1>5, <1>6, <1>7, <1>8, <1>9 DEF c

\* The fee for the size counted covers any smaller one.
LEMMA FeeOfSize ==
    ASSUME NEW m \in Int, NEW k \in Int, m <= k
    PROVE  SuggestedFee(k) * 1000 >= m * networkFee
<1>1. (k * 10000) \div 1000 = k * 10 OBVIOUS
<1> QED BY <1>1 DEF SuggestedFee, networkFee

\* Every debit of an intent of the client gives a script that fits, or none.
LEMMA DebitsFit ==
    ASSUME ScriptsFit, ops \in Seq(Range(ops)), NEW n, n = Len(Debits(ops)),
           \E req \in DeriveRequests :
                ~IsErr(DeriveAddress(req)) /\ ops \in IntentsOf(DeriveAddress(req))
    PROVE  n \in Nat /\ \A i \in 1..n : ScriptFits(Debits(ops)[i])
<1> DEFINE D == {op \in Range(ops) : IsDebit(op)}
           d == Debits(ops)
<1>1. \A i \in DOMAIN ops : IsDebit(ops[i]) => ScriptFits(ops[i]) BY DEF ScriptsFit
<1>2. \A op \in D : ScriptFits(op) BY <1>1 DEF Range
<1>3. d \in Seq(D) BY DebitsAre
<1>4. n = Len(d) OBVIOUS
<1> HIDE DEF d, D
<1>5. n \in Nat /\ \A i \in 1..n : d[i] \in D BY <1>3, <1>4
<1> QED BY <1>2, <1>5 DEF d

\* The fee suggested for the operations pays for the signed transaction.
LEMMA CombinedFee ==
    ASSUME ScriptsFit, ops \in Seq(Range(ops)), ~IsErr(RosettaOpsToTx(ops)), Prepared,
           \E req \in DeriveRequests :
                ~IsErr(DeriveAddress(req)) /\ ops \in IntentsOf(DeriveAddress(req)),
           NEW sigs, NEW c, NEW tx2, Seals(sigs, c, tx2)
    PROVE  SuggestedFee(SerSize(RosettaOpsToTx(ops))) * 1000
                >= TxSize(Serialize(tx2, c.prevs).tx) * networkFee
<1> DEFINE d == Debits(ops)
           n == Len(d)
           tx == RosettaOpsToTx(ops)
           c2 == Deserialize(Serialize(tx2, c.prevs))
           p == tx.ins
           q == tx2.ins
           In(op) == [prev   |-> [coin |-> op.coin, tree |-> Metadata(op.meta, "prev_tree", 0)],
                      value  |-> Abs(op.amt),
                      script |-> Metadata(op.meta, "signature_script", Unsigned)]
<1>1. n = Len(Debits(ops)) /\ d = Debits(ops) OBVIOUS
<1>2. p = [i \in DOMAIN d |-> In(d[i])] BY DEF RosettaOpsToTx, IsErr, Err
<1>3. \A op : In(op).script.size = GivenSize(op) BY DEF GivenSize
<1> HIDE DEF n, c2, In, d
<1>4. /\ Unsealed(c, ops, n) /\ Sizes(sigs, n) /\ Owned(ops, n)
      /\ Sealed(c, tx2, c2, sigs, ops, n)
    BY <1>1, Combined DEF c2
<1>5. n \in Nat /\ \A i \in 1..n : ScriptFits(d[i]) BY <1>1, DebitsFit
<1>6. c.tx = tx /\ DOMAIN d = 1..n /\ DOMAIN p = 1..n BY <1>1, <1>4 DEF Unsealed, Shows, Inputs
<1>7. /\ Signed(tx, sigs, tx2, n) /\ Serialize(tx2, c.prevs).tx = tx2
    BY <1>4, <1>6 DEF Sealed
<1>8. tx2.outs = tx.outs /\ DOMAIN q = 1..n BY <1>7 DEF Signed
<1>9. Len(tx.outs) \in Nat BY OutputsCounted
<1>10. ASSUME NEW i \in 1..n
       PROVE  /\ p[i].script.size \in Nat /\ q[i].script.size \in Nat
              /\ q[i].script.size <= IF p[i].script.size = 0 THEN p2pkhSigScriptSerSize
                                     ELSE p[i].script.size
    <2>1. p[i].script.size = GivenSize(d[i]) BY <1>2, <1>3, <1>6
    <2>2. q[i].script.size \in SigSizes BY <1>4, <1>7 DEF Signed, Sizes
    <2>3. q[i].script.size \in Nat /\ q[i].script.size <= p2pkhSigScriptSerSize
        BY <2>2, ConstructionAssumption DEF ScriptsFit
    <2>4. "acct" \in DOMAIN d[i] /\ d[i].acct.form = "ecdsa"
        BY <1>1, <1>4, <1>6 DEF Owned, Prepared, NoPrevOutput
    <2>5. /\ GivenSize(d[i]) \in Nat
          /\ GivenSize(d[i]) # 0 => q[i].script.size <= GivenSize(d[i])
        BY <1>5, <2>2, <2>4 DEF ScriptFits
    <2> QED BY <2>1, <2>3, <2>5
<1> DEFINE P == InsSize(p)
           Q == InsSize(q)
           u == Cardinality(Unscripted(p))
<1>11. TxSize(tx2) = 15 + Q + 36 * Len(tx.outs) BY <1>8, SizesOf
<1>12. SerSize(tx) = 15 + P + 36 * Len(tx.outs) + u * p2pkhSigScriptSerSize
    BY SizesOf
<1> HIDE DEF p, q
<1>13. P \in Int /\ Q \in Int /\ u \in Nat /\ Q <= P + u * p2pkhSigScriptSerSize
    <2>1. Covers(p, q, n) BY <1>5, <1>6, <1>8, <1>10 DEF Covers
    <2> QED BY <2>1, InputsCovered
<1> HIDE DEF P, Q, u, tx
<1>14. TxSize(tx2) \in Int /\ SerSize(tx) \in Int /\ TxSize(tx2) <= SerSize(tx)
    <2> DEFINE o == Len(tx.outs)
               x == TxSize(tx2)
               y == SerSize(tx)
    <2>1. o \in Nat /\ x = 15 + Q + 36 * o /\ y = 15 + P + 36 * o + u * 108 /\ Q <= P + u * 108
        BY <1>9, <1>11, <1>12, <1>13 DEF p2pkhSigScriptSerSize
    <2> HIDE DEF o, x, y
    <2>2. x \in Int /\ y \in Int /\ x <= y BY <1>13, <2>1
    <2> QED BY <2>2 DEF x, y
<1>15. SuggestedFee(SerSize(tx)) * 1000 >= TxSize(tx2) * networkFee BY <1>14, FeeOfSize
<1> QED BY <1>7, <1>15 DEF tx

\* The fee of the intent covers the signed text.
FeeInv == CallsInv /\ FeeCoversSigned

\* Every call keeps the invariant.
LEMMA FeeNext ==
    ASSUME ScriptsFit, FeeInv, [Next]_vars
    PROVE  FeeInv'
<1>1. CallsInv' BY CallsNext DEF FeeInv
<1>2. CASE stage' = "parse signed" /\ stage # "parse signed"
    <2>1. stage = "combine" /\ ops' = ops /\ fee' = fee BY <1>2, SignedBy
    <2>2. PICK sigs, c, tx2 : Seals(sigs, c, tx2) /\ text' = Serialize(tx2, c.prevs)
        BY <1>2, SignedBy
    <2>3. /\ ops \in Seq(Range(ops)) /\ ~IsErr(RosettaOpsToTx(ops)) /\ Prepared
          /\ fee = SuggestedFee(SerSize(RosettaOpsToTx(ops)))
          /\ \E req \in DeriveRequests :
                ~IsErr(DeriveAddress(req)) /\ ops \in IntentsOf(DeriveAddress(req))
        BY <2>1 DEF FeeInv, CallsInv
    <2>4. fee * 1000 >= TxSize(Serialize(tx2, c.prevs).tx) * networkFee
        BY <2>2, <2>3, CombinedFee
    <2>5. fee' * 1000 >= TxSize(text'.tx) * networkFee BY <2>1, <2>2, <2>4
    <2> QED BY <1>1, <2>5 DEF FeeInv, FeeCoversSigned
<1>3. CASE /\ stage' \in {"parse signed", "submit"}
           /\ stage' # stage => stage' = "submit"
    <2>1. stage \in {"parse signed", "submit"} /\ text' = text /\ fee' = fee BY <1>3, SignedStays
    <2> QED BY <1>1, <2>1 DEF FeeInv, FeeCoversSigned
<1>4. CASE stage' \notin {"parse signed", "submit"}
    BY <1>1, <1>4 DEF FeeInv, FeeCoversSigned
<1> QED BY <1>2, <1>3, <1>4

\* The fee ConstructionMetadata suggests covers the relay fee of the signed
\* transaction, for any number of inputs and any sizes of the signatures.  An
\* intent that gives a short script for an input that is signed is outside the
\* theorem: ConstructionPreprocess counts the script, and the signature that
\* replaces it is longer.
THEOREM FeeTheorem == ScriptsFit => (Spec => []FeeCoversSigned)
<1> SUFFICES ASSUME ScriptsFit PROVE Spec => []FeeCoversSigned OBVIOUS
<1>1. Init => FeeInv BY CallsInit DEF Init, FeeInv, FeeCoversSigned
<1>2. FeeInv /\ [Next]_vars => FeeInv' BY FeeNext
<1>3. FeeInv => FeeCoversSigned BY DEF FeeInv
<1> QED BY <1>1, <1>2, <1>3, PTL DEF Spec
=============================================================================
