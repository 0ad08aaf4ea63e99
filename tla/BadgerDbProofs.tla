---------------------------- MODULE BadgerDbProofs ---------------------------
(***************************************************************************)
(* The Badger store, for every set of accounts and outputs, any number of  *)
(* calls and rollbacks, and any base of the digits of a height.            *)
(*                                                                         *)
(* First the keys: what their bytes are, that no two of them coincide, and *)
(* what a prefix selects.  Then what the reads return on a map that is     *)
(* laid out properly, and that every call leaves it so.                    *)
(***************************************************************************)
EXTENDS BadgerDb, Iteration, SequenceTheorems

-----------------------------------------------------------------------------
(* The bytes of the keys.                                                  *)

\* The digits of a height order heights.
LEMMA DigitsOrder ==
    ASSUME NEW h \in Nat, NEW l \in Nat, h < l
    PROVE  /\ h \div Base \in Nat /\ l \div Base \in Nat /\ h % Base \in Nat /\ l % Base \in Nat
           /\ \/ h \div Base < l \div Base
              \/ h \div Base = l \div Base /\ h % Base < l % Base
<1>1. Base \in Nat /\ Base > 0 BY BadgerAssumption
<1>2. h \div Base \in Nat /\ l \div Base \in Nat /\ h % Base \in Nat /\ l % Base \in Nat
    BY <1>1
<1>3. h \div Base <= l \div Base
    BY <1>1
<1>4. h \div Base = l \div Base => h % Base < l % Base
    BY <1>1
<1> QED BY <1>2, <1>3, <1>4

\* Two heights with the same digits are the same.
LEMMA DigitsUnique ==
    ASSUME NEW h \in Nat, NEW l \in Nat, h \div Base = l \div Base, h % Base = l % Base
    PROVE  h = l
<1>1. h < l \/ l < h \/ h = l OBVIOUS
<1>2. ~(h < l)
    <2> SUFFICES ASSUME h < l PROVE FALSE OBVIOUS
    <2> QED BY DigitsOrder
<1>3. ~(l < h)
    <2> SUFFICES ASSUME l < h PROVE FALSE OBVIOUS
    <2> QED BY DigitsOrder
<1> QED BY <1>1, <1>2, <1>3

\* The bytes of two byte strings one after the other.
LEMMA JoinedBytes ==
    ASSUME NEW s \in Seq(Nat), NEW t \in Seq(Nat)
    PROVE  /\ s \o t \in Seq(Nat) /\ Len(s \o t) = Len(s) + Len(t)
           /\ \A i \in 1..Len(s) : (s \o t)[i] = s[i]
           /\ \A i \in 1..Len(t) : (s \o t)[Len(s) + i] = t[i]
<1>1. /\ s \o t \in Seq(Nat) /\ Len(s \o t) = Len(s) + Len(t)
      /\ \A i \in 1 .. Len(s) + Len(t) : (s \o t)[i] = IF i <= Len(s) THEN s[i] ELSE t[i - Len(s)]
    BY ConcatProperties
<1>2. Len(s) \in Nat /\ Len(t) \in Nat OBVIOUS
<1>3. ASSUME NEW i \in 1..Len(s) PROVE (s \o t)[i] = s[i]
    <2>1. i \in 1..(Len(s) + Len(t)) /\ i <= Len(s) BY <1>2
    <2> QED BY <1>1, <2>1
<1>4. ASSUME NEW i \in 1..Len(t) PROVE (s \o t)[Len(s) + i] = t[i]
    <2> DEFINE j == Len(s) + i
    <2>1. j \in 1..(Len(s) + Len(t)) /\ ~(j <= Len(s)) /\ j - Len(s) = i BY <1>2
    <2> HIDE DEF j
    <2>2. (s \o t)[j] = t[i] BY <1>1, <2>1
    <2> QED BY <2>2 DEF j
<1> QED BY <1>1, <1>3, <1>4

\* The bytes of a balance key.
LEMMA ActKeyBytes ==
    ASSUME NEW a \in Accounts, NEW h \in Nat
    PROVE  LET k == AccountBalanceAtHeightKey(a, h)
           IN  /\ k \in Seq(Nat) /\ Len(k) = Len(a) + 4
               /\ k[1] = 10 /\ \A i \in 1..Len(a) : k[i + 1] = a[i]
               /\ k[Len(a) + 2] = Nul
               /\ k[Len(a) + 3] = h \div Base /\ k[Len(a) + 4] = h % Base
<1>1. a \in Seq(Nat) /\ Len(a) \in Nat BY BadgerAssumption
<1>2. h \div Base \in Nat /\ h % Base \in Nat BY BadgerAssumption
<1>3. BigEndian(h) \in Seq(Nat) BY <1>2 DEF BigEndian
<1> QED BY <1>1, <1>2, <1>3 DEF AccountBalanceAtHeightKey, BigEndian, Act, Nul

\* The bytes of an output key and of its account's prefix.
LEMMA UtxoKeyBytes ==
    ASSUME NEW a \in Accounts, NEW o \in Outpoints
    PROVE  /\ LET p == AccountUtxoPrefix(a)
              IN  /\ p \in Seq(Nat) /\ Len(p) = Len(a) + 2
                  /\ p[1] = 13 /\ \A i \in 1..Len(a) : p[i + 1] = a[i]
                  /\ p[Len(a) + 2] = Slash
           /\ LET k == AccountUtxoKey(a, o)
              IN  /\ k \in Seq(Nat) /\ Len(k) = Len(a) + 3
                  /\ k[1] = 13 /\ \A i \in 1..Len(a) : k[i + 1] = a[i]
                  /\ k[Len(a) + 2] = Slash /\ k[Len(a) + 3] = o[1]
                  /\ o[1] \in Nat /\ o = <<o[1]>>
<1>1. a \in Seq(Nat) /\ Len(a) \in Nat BY BadgerAssumption
<1>2. o \in Seq(Nat) /\ Len(o) = 1 BY BadgerAssumption
<1>3. o[1] \in Nat /\ o = <<o[1]>> BY <1>2, SMTT(30)
<1> DEFINE p == AccountUtxoPrefix(a)
<1>4. /\ p \in Seq(Nat) /\ Len(p) = Len(a) + 2
      /\ p[1] = 13 /\ \A i \in 1..Len(a) : p[i + 1] = a[i]
      /\ p[Len(a) + 2] = Slash
    BY <1>1 DEF AccountUtxoPrefix, Autxos, Slash
<1> HIDE DEF p
<1>5. AccountUtxoKey(a, o) = p \o o BY DEF AccountUtxoKey, p
<1> DEFINE k == p \o o
<1>6. /\ k \in Seq(Nat) /\ Len(k) = Len(p) + Len(o)
      /\ \A i \in 1..Len(p) : k[i] = p[i]
      /\ \A i \in 1..Len(o) : k[Len(p) + i] = o[i]
    BY <1>2, <1>4, JoinedBytes
<1> HIDE DEF k
<1>7. /\ k \in Seq(Nat) /\ Len(k) = Len(a) + 3
      /\ k[1] = 13 /\ \A i \in 1..Len(a) : k[i + 1] = a[i]
      /\ k[Len(a) + 2] = Slash /\ k[Len(a) + 3] = o[1]
    <2>1. Len(k) = Len(a) + 3 BY <1>1, <1>2, <1>4, <1>6
    <2>2. 1 \in 1..Len(p) /\ Len(a) + 2 \in 1..Len(p) BY <1>1, <1>4
    <2>3. k[1] = 13 /\ k[Len(a) + 2] = Slash BY <1>4, <1>6, <2>2
    <2>4. k[Len(a) + 3] = o[1]
        <3>1. 1 \in 1..Len(o) /\ Len(p) + 1 = Len(a) + 3 BY <1>1, <1>2, <1>4
        <3>2. k[Len(p) + 1] = o[1] BY <1>6, <3>1
        <3> QED BY <3>1, <3>2
    <2>5. ASSUME NEW i \in 1..Len(a) PROVE k[i + 1] = a[i]
        <3>1. i + 1 \in 1..Len(p) BY <1>1, <1>4
        <3> QED BY <1>4, <1>6, <3>1
    <2> QED BY <1>6, <2>1, <2>3, <2>4, <2>5
<1> QED BY <1>3, <1>4, <1>5, <1>7 DEF p, k

\* The bytes of the other keys.
LEMMA OtherKeyBytes ==
    ASSUME NEW h \in Nat
    PROVE  /\ LET k == ProcessedBlockKey(h)
              IN  k \in Seq(Nat) /\ Len(k) = 3 /\ k[1] = 11 /\ k[2] = h \div Base /\ k[3] = h % Base
           /\ LET p == BlockAccountKey(h, << >>)
              IN  p \in Seq(Nat) /\ Len(p) = 3 /\ p[1] = 12 /\ p[2] = h \div Base /\ p[3] = h % Base
           /\ \A a \in Accounts :
                 LET k == BlockAccountKey(h, a)
                 IN  /\ k \in Seq(Nat) /\ Len(k) = Len(a) + 3
                     /\ k[1] = 12 /\ k[2] = h \div Base /\ k[3] = h % Base
                     /\ \A i \in 1..Len(a) : k[i + 3] = a[i]
           /\ LastKey \in Seq(Nat) /\ Len(LastKey) = 1 /\ LastKey[1] = 14
<1>1. h \div Base \in Nat /\ h % Base \in Nat BY BadgerAssumption
<1> DEFINE q == Bac \o BigEndian(h)
<1>2. q \in Seq(Nat) /\ Len(q) = 3 /\ q[1] = 12 /\ q[2] = h \div Base /\ q[3] = h % Base
    BY <1>1 DEF Bac, BigEndian
<1>3. LET k == ProcessedBlockKey(h)
      IN  k \in Seq(Nat) /\ Len(k) = 3 /\ k[1] = 11 /\ k[2] = h \div Base /\ k[3] = h % Base
    BY <1>1 DEF ProcessedBlockKey, Pb, BigEndian
<1>4. \A a : BlockAccountKey(h, a) = q \o a BY DEF BlockAccountKey
<1> HIDE DEF q
<1>5. LET p == BlockAccountKey(h, << >>)
      IN  p \in Seq(Nat) /\ Len(p) = 3 /\ p[1] = 12 /\ p[2] = h \div Base /\ p[3] = h % Base
    <2>1. q \o << >> = q BY <1>2, ConcatEmptySeq
    <2>2. BlockAccountKey(h, << >>) = q BY <1>4, <2>1
    <2> QED BY <1>2, <2>2
<1>6. ASSUME NEW a \in Accounts
      PROVE  LET k == BlockAccountKey(h, a)
             IN  /\ k \in Seq(Nat) /\ Len(k) = Len(a) + 3
                 /\ k[1] = 12 /\ k[2] = h \div Base /\ k[3] = h % Base
                 /\ \A i \in 1..Len(a) : k[i + 3] = a[i]
    <2>1. a \in Seq(Nat) BY BadgerAssumption
    <2> DEFINE k == q \o a
    <2>2. BlockAccountKey(h, a) = k BY <1>4
    <2>3. /\ k \in Seq(Nat) /\ Len(k) = Len(q) + Len(a)
          /\ \A i \in 1..Len(q) : k[i] = q[i]
          /\ \A i \in 1..Len(a) : k[Len(q) + i] = a[i]
        BY <1>2, <2>1, JoinedBytes
    <2> HIDE DEF k
    <2>4. /\ k \in Seq(Nat) /\ Len(k) = Len(a) + 3
          /\ k[1] = 12 /\ k[2] = h \div Base /\ k[3] = h % Base
        BY <1>2, <2>1, <2>3
    <2>5. ASSUME NEW i \in 1..Len(a) PROVE k[i + 3] = a[i]
        <3>1. Len(q) + i = i + 3 BY <1>2
        <3> QED BY <2>3, <3>1
    <2> QED BY <2>2, <2>4, <2>5
<1>7. LastKey \in Seq(Nat) /\ Len(LastKey) = 1 /\ LastKey[1] = 14 BY DEF LastKey
<1> QED BY <1>3, <1>5, <1>6, <1>7

-----------------------------------------------------------------------------
(* Keys are told apart, and what a prefix selects.                         *)

\* HasPrefix compares the first bytes.
LEMMA PrefixBytes ==
    ASSUME NEW k \in Seq(Nat), NEW p \in Seq(Nat)
    PROVE  HasPrefix(k, p) <=> Len(k) >= Len(p) /\ \A i \in 1..Len(p) : k[i] = p[i]
<1>1. Len(k) \in Nat /\ Len(p) \in Nat OBVIOUS
<1>2. ASSUME Len(k) >= Len(p)
      PROVE  /\ SubSeq(k, 1, Len(p)) \in Seq(Nat) /\ Len(SubSeq(k, 1, Len(p))) = Len(p)
             /\ \A i \in 1..Len(p) : SubSeq(k, 1, Len(p))[i] = k[i]
    BY <1>1, <1>2
<1>3. ASSUME HasPrefix(k, p) PROVE Len(k) >= Len(p) /\ \A i \in 1..Len(p) : k[i] = p[i]
    BY <1>2, <1>3 DEF HasPrefix
<1>4. ASSUME Len(k) >= Len(p), \A i \in 1..Len(p) : k[i] = p[i] PROVE HasPrefix(k, p)
    <2>1. SubSeq(k, 1, Len(p)) = p BY <1>2, <1>4, SeqEqual
    <2> QED BY <1>4, <2>1 DEF HasPrefix
<1> QED BY <1>3, <1>4

\* What the assumptions say of an account and its bytes.
LEMMA AccountBytes ==
    ASSUME NEW a \in Accounts
    PROVE  /\ a \in Seq(Nat) /\ Len(a) \in Nat \ {0}
           /\ \A i \in 1..Len(a) : a[i] \in Nat /\ a[i] > Slash
<1>1. a \in Seq(Nat) /\ a # << >> /\ \A i \in DOMAIN a : IsLetter(a[i]) BY BadgerAssumption
<1>2. Len(a) \in Nat \ {0} BY <1>1
<1>3. DOMAIN a = 1..Len(a) BY <1>1
<1> QED BY <1>1, <1>2, <1>3 DEF IsLetter

\* Processed blocks of different heights are under different keys.
LEMMA BlockKeysDiffer ==
    ASSUME NEW h \in Nat, NEW l \in Nat, ProcessedBlockKey(h) = ProcessedBlockKey(l)
    PROVE  h = l
BY OtherKeyBytes, DigitsUnique

\* Two account keys of one table are of the same account and height.
LEMMA AccountKeysDiffer ==
    ASSUME NEW a \in Accounts, NEW b \in Accounts, NEW h \in Nat, NEW l \in Nat
    PROVE  /\ AccountBalanceAtHeightKey(a, h) = AccountBalanceAtHeightKey(b, l) => a = b /\ h = l
           /\ BlockAccountKey(h, a) = BlockAccountKey(l, b) => a = b /\ h = l
<1>1. a \in Seq(Nat) /\ b \in Seq(Nat) /\ Len(a) \in Nat /\ Len(b) \in Nat BY AccountBytes
<1>3. ASSUME AccountBalanceAtHeightKey(a, h) = AccountBalanceAtHeightKey(b, l)
      PROVE  a = b /\ h = l
    <2> DEFINE k == AccountBalanceAtHeightKey(a, h)
               m == AccountBalanceAtHeightKey(b, l)
    <2>1. /\ Len(k) = Len(a) + 4 /\ \A i \in 1..Len(a) : k[i + 1] = a[i]
          /\ k[Len(a) + 3] = h \div Base /\ k[Len(a) + 4] = h % Base
        BY ActKeyBytes
    <2>2. /\ Len(m) = Len(b) + 4 /\ \A i \in 1..Len(b) : m[i + 1] = b[i]
          /\ m[Len(b) + 3] = l \div Base /\ m[Len(b) + 4] = l % Base /\ m = k
        BY <1>3, ActKeyBytes
    <2> HIDE DEF k, m
    <2>3. Len(a) = Len(b) BY <1>1, <2>1, <2>2
    <2>4. a = b BY <1>1, <2>1, <2>2, <2>3, SeqEqual
    <2>5. h \div Base = l \div Base /\ h % Base = l % Base BY <2>1, <2>2, <2>3
    <2> QED BY <2>4, <2>5, DigitsUnique
<1>4. ASSUME BlockAccountKey(h, a) = BlockAccountKey(l, b) PROVE a = b /\ h = l
    <2> DEFINE k == BlockAccountKey(h, a)
               m == BlockAccountKey(l, b)
    <2>1. /\ Len(k) = Len(a) + 3 /\ \A i \in 1..Len(a) : k[i + 3] = a[i]
          /\ k[2] = h \div Base /\ k[3] = h % Base
        BY OtherKeyBytes
    <2>2. /\ Len(m) = Len(b) + 3 /\ \A i \in 1..Len(b) : m[i + 3] = b[i]
          /\ m[2] = l \div Base /\ m[3] = l % Base /\ m = k
        BY <1>4, OtherKeyBytes
    <2> HIDE DEF k, m
    <2>3. Len(a) = Len(b) BY <1>1, <2>1, <2>2
    <2>4. a = b BY <1>1, <2>1, <2>2, <2>3, SeqEqual
    <2>5. h \div Base = l \div Base /\ h % Base = l % Base BY <2>1, <2>2
    <2> QED BY <2>4, <2>5, DigitsUnique
<1> QED BY <1>3, <1>4

\* Two output keys are of the same account and outpoint.
LEMMA UtxoKeysDiffer ==
    ASSUME NEW a \in Accounts, NEW b \in Accounts, NEW o \in Outpoints, NEW q \in Outpoints,
           AccountUtxoKey(a, o) = AccountUtxoKey(b, q)
    PROVE  a = b /\ o = q
<1>0. a \in Seq(Nat) /\ b \in Seq(Nat) /\ Len(a) \in Nat /\ Len(b) \in Nat BY AccountBytes
<1> DEFINE k == AccountUtxoKey(a, o)
           m == AccountUtxoKey(b, q)
<1>1. /\ Len(k) = Len(a) + 3 /\ \A i \in 1..Len(a) : k[i + 1] = a[i]
      /\ k[Len(a) + 3] = o[1] /\ o = <<o[1]>>
    BY UtxoKeyBytes
<1>2. /\ Len(m) = Len(b) + 3 /\ \A i \in 1..Len(b) : m[i + 1] = b[i]
      /\ m[Len(b) + 3] = q[1] /\ q = <<q[1]>> /\ m = k
    BY UtxoKeyBytes
<1> HIDE DEF k, m
<1>3. Len(a) = Len(b) BY <1>0, <1>1, <1>2
<1>4. a = b BY <1>0, <1>1, <1>2, <1>3, SeqEqual
<1>5. o[1] = q[1] BY <1>1, <1>2, <1>3
<1> QED BY <1>1, <1>2, <1>4, <1>5

\* The keys under the prefix of an account's outputs are that account's: the
\* slash ends the account.
LEMMA UtxoPrefixSelects ==
    ASSUME NEW a \in Accounts, NEW b \in Accounts, NEW o \in Outpoints
    PROVE  HasPrefix(AccountUtxoKey(b, o), AccountUtxoPrefix(a)) <=> a = b
<1> DEFINE k == AccountUtxoKey(b, o)
           p == AccountUtxoPrefix(a)
<1>1. /\ a \in Seq(Nat) /\ b \in Seq(Nat) /\ Len(a) \in Nat /\ Len(b) \in Nat
      /\ \A i \in 1..Len(a) : a[i] > Slash
      /\ \A i \in 1..Len(b) : b[i] > Slash
    BY AccountBytes
<1>2. /\ k \in Seq(Nat) /\ Len(k) = Len(b) + 3
      /\ k[1] = 13 /\ \A i \in 1..Len(b) : k[i + 1] = b[i]
      /\ k[Len(b) + 2] = Slash
    BY UtxoKeyBytes
<1>3. /\ p \in Seq(Nat) /\ Len(p) = Len(a) + 2
      /\ p[1] = 13 /\ \A i \in 1..Len(a) : p[i + 1] = a[i]
      /\ p[Len(a) + 2] = Slash
    BY UtxoKeyBytes
<1> HIDE DEF k, p
<1>4. HasPrefix(k, p) <=> Len(k) >= Len(p) /\ \A i \in 1..Len(p) : k[i] = p[i]
    BY <1>2, <1>3, PrefixBytes
<1>5. ASSUME a = b PROVE HasPrefix(k, p)
    <2>1. Len(k) >= Len(p) BY <1>1, <1>2, <1>3, <1>5
    <2>2. ASSUME NEW i \in 1..Len(p) PROVE k[i] = p[i]
        <3>1. i = 1 \/ i = Len(a) + 2 \/ i - 1 \in 1..Len(a) BY <1>1, <1>3
        <3>2. CASE i - 1 \in 1..Len(a)
            <4>1. k[(i - 1) + 1] = a[i - 1] /\ p[(i - 1) + 1] = a[i - 1] BY <1>2, <1>3, <1>5, <3>2
            <4> QED BY <4>1, <1>1
        <3> QED BY <1>2, <1>3, <1>5, <3>1, <3>2
    <2> QED BY <1>4, <2>1, <2>2
<1>6. ASSUME HasPrefix(k, p) PROVE a = b
    <2>1. Len(k) >= Len(p) /\ \A i \in 1..Len(p) : k[i] = p[i] BY <1>4, <1>6
    <2>2. ~(Len(a) < Len(b))
        <3> SUFFICES ASSUME Len(a) < Len(b) PROVE FALSE OBVIOUS
        <3>1. Len(a) + 1 \in 1..Len(b) /\ Len(a) + 2 \in 1..Len(p) /\ (Len(a) + 1) + 1 = Len(a) + 2
            BY <1>1, <1>3
        <3>2. k[Len(a) + 2] = Slash BY <1>3, <2>1, <3>1
        <3>3. k[Len(a) + 2] = b[Len(a) + 1] BY <1>2, <3>1
        <3>4. b[Len(a) + 1] > Slash BY <1>1, <3>1
        <3> QED BY <3>2, <3>3, <3>4 DEF Slash
    <2>3. ~(Len(b) < Len(a))
        <3> SUFFICES ASSUME Len(b) < Len(a) PROVE FALSE OBVIOUS
        <3>1. Len(b) + 1 \in 1..Len(a) /\ Len(b) + 2 \in 1..Len(p) /\ (Len(b) + 1) + 1 = Len(b) + 2
            BY <1>1, <1>3
        <3>2. p[Len(b) + 2] = Slash BY <1>2, <2>1, <3>1
        <3>3. p[Len(b) + 2] = a[Len(b) + 1] BY <1>3, <3>1
        <3>4. a[Len(b) + 1] > Slash BY <1>1, <3>1
        <3> QED BY <3>2, <3>3, <3>4 DEF Slash
    <2>4. Len(a) = Len(b) BY <1>1, <2>2, <2>3
    <2>5. ASSUME NEW i \in 1..Len(a) PROVE a[i] = b[i]
        <3>1. i + 1 \in 1..Len(p) BY <1>1, <1>3
        <3> QED BY <1>2, <1>3, <2>1, <2>4, <3>1
    <2> QED BY <1>1, <2>4, <2>5, SeqEqual
<1> QED BY <1>5, <1>6 DEF k, p

\* The keys under the prefix of a height's accounts are that height's, and
\* end with the account.
LEMMA BacPrefixSelects ==
    ASSUME NEW b \in Accounts, NEW h \in Nat, NEW l \in Nat
    PROVE  LET k == BlockAccountKey(l, b)
               p == BlockAccountKey(h, << >>)
           IN  /\ HasPrefix(k, p) <=> h = l
               /\ SubSeq(k, Len(p) + 1, Len(k)) = b
<1> DEFINE k == BlockAccountKey(l, b)
           p == BlockAccountKey(h, << >>)
<1>1. b \in Seq(Nat) /\ Len(b) \in Nat BY AccountBytes
<1>2. /\ k \in Seq(Nat) /\ Len(k) = Len(b) + 3 /\ k[1] = 12 /\ k[2] = l \div Base /\ k[3] = l % Base
      /\ \A i \in 1..Len(b) : k[i + 3] = b[i]
    BY OtherKeyBytes
<1>3. p \in Seq(Nat) /\ Len(p) = 3 /\ p[1] = 12 /\ p[2] = h \div Base /\ p[3] = h % Base
    BY OtherKeyBytes
<1> HIDE DEF k, p
<1>4. HasPrefix(k, p) <=> Len(k) >= Len(p) /\ \A i \in 1..Len(p) : k[i] = p[i]
    BY <1>2, <1>3, PrefixBytes
<1>5. ASSUME h = l PROVE HasPrefix(k, p)
    <2>1. \A i \in 1..3 : i = 1 \/ i = 2 \/ i = 3 OBVIOUS
    <2> QED BY <1>1, <1>2, <1>3, <1>4, <1>5, <2>1
<1>6. ASSUME HasPrefix(k, p) PROVE h = l
    <2>1. h \div Base = l \div Base /\ h % Base = l % Base BY <1>2, <1>3, <1>4, <1>6
    <2> QED BY <2>1, DigitsUnique
<1>7. SubSeq(k, 4, Len(k)) = b
    <2> DEFINE t == SubSeq(k, 4, Len(k))
    <2>1. t \in Seq(Nat) /\ Len(t) = Len(b) /\ \A i \in 1..Len(b) : t[i] = k[i + 3]
        BY <1>1, <1>2, SMTT(60)
    <2> HIDE DEF t
    <2>2. t = b BY <1>1, <1>2, <2>1, SeqEqual
    <2> QED BY <2>2 DEF t
<1>8. Len(p) + 1 = 4 BY <1>3
<1> QED BY <1>5, <1>6, <1>7, <1>8 DEF k, p

\* The balance keys of one account are in the order of their heights.
LEMMA ActKeysOrdered ==
    ASSUME NEW a \in Accounts, NEW h \in Nat, NEW l \in Nat
    PROVE  AtMost(AccountBalanceAtHeightKey(a, l), AccountBalanceAtHeightKey(a, h)) <=> l <= h
<1> DEFINE k == AccountBalanceAtHeightKey(a, l)
           m == AccountBalanceAtHeightKey(a, h)
           n == Len(a)
<1>1. n \in Nat BY AccountBytes
<1>2. /\ k \in Seq(Nat) /\ Len(k) = n + 4 /\ k[1] = 10 /\ \A i \in 1..n : k[i + 1] = a[i]
      /\ k[n + 2] = Nul /\ k[n + 3] = l \div Base /\ k[n + 4] = l % Base
    BY ActKeyBytes
<1>3. /\ m \in Seq(Nat) /\ Len(m) = n + 4 /\ m[1] = 10 /\ \A i \in 1..n : m[i + 1] = a[i]
      /\ m[n + 2] = Nul /\ m[n + 3] = h \div Base /\ m[n + 4] = h % Base
    BY ActKeyBytes
<1> HIDE DEF k, m, n
<1>4. DOMAIN k = 1..(n + 4) /\ DOMAIN m = 1..(n + 4) /\ \A i \in 1..(n + 4) : k[i] \in Nat /\ m[i] \in Nat
    BY <1>2, <1>3, SMTT(30)
<1>5. ASSUME NEW i \in 1..(n + 2) PROVE k[i] = m[i]
    <2>1. i = 1 \/ i = n + 2 \/ i - 1 \in 1..n BY <1>1
    <2>2. CASE i - 1 \in 1..n
        <3>1. k[(i - 1) + 1] = a[i - 1] /\ m[(i - 1) + 1] = a[i - 1] BY <1>2, <1>3, <2>2
        <3> QED BY <3>1, <1>1
    <2> QED BY <1>2, <1>3, <2>1, <2>2
<1>6. CASE l = h
    <2>1. k = m BY <1>6 DEF k, m
    <2>2. HasPrefix(m, k) BY <1>2, <1>3, <2>1, PrefixBytes
    <2> QED BY <1>6, <2>2 DEF AtMost, k, m
<1>7. CASE l < h
    <2>1. \/ l \div Base < h \div Base
          \/ l \div Base = h \div Base /\ l % Base < h % Base
        BY <1>7, DigitsOrder
    <2>2. CASE l \div Base < h \div Base
        <3>1. n + 3 \in DOMAIN k \cap DOMAIN m BY <1>1, <1>4
        <3>2. k[n + 3] < m[n + 3] BY <1>2, <1>3, <2>2
        <3>3. \A j \in 1..((n + 3) - 1) : k[j] = m[j] BY <1>1, <1>5
        <3>4. AtMost(k, m) BY <3>1, <3>2, <3>3 DEF AtMost
        <3> QED BY <1>7, <3>4 DEF k, m
    <2>3. CASE l \div Base = h \div Base /\ l % Base < h % Base
        <3>1. n + 4 \in DOMAIN k \cap DOMAIN m BY <1>1, <1>4
        <3>2. k[n + 4] < m[n + 4] /\ k[n + 3] = m[n + 3] BY <1>2, <1>3, <2>3
        <3>3. \A j \in 1..((n + 4) - 1) : j = n + 3 \/ j \in 1..(n + 2) BY <1>1
        <3>4. \A j \in 1..((n + 4) - 1) : k[j] = m[j] BY <1>5, <3>2, <3>3
        <3>5. AtMost(k, m) BY <3>1, <3>2, <3>4 DEF AtMost
        <3> QED BY <1>7, <3>5 DEF k, m
    <2> QED BY <2>1, <2>2, <2>3
<1>8. CASE h < l
    <2>1. \/ h \div Base < l \div Base
          \/ h \div Base = l \div Base /\ h % Base < l % Base
        BY <1>8, DigitsOrder
    <2>2. /\ h \div Base \in Nat /\ l \div Base \in Nat /\ h % Base \in Nat /\ l % Base \in Nat
        BY <1>8, DigitsOrder
    <2>3. m[n + 3] < k[n + 3] \/ (m[n + 3] = k[n + 3] /\ m[n + 4] < k[n + 4])
        BY <1>2, <1>3, <2>1
    <2>4. n + 3 \in 1..(n + 4) /\ n + 4 \in 1..(n + 4)
          /\ m[n + 3] \in Nat /\ m[n + 4] \in Nat /\ k[n + 3] \in Nat /\ k[n + 4] \in Nat
        BY <1>1, <1>4
    <2>5. ~HasPrefix(m, k)
        <3> SUFFICES ASSUME HasPrefix(m, k) PROVE FALSE OBVIOUS
        <3>1. \A i \in 1..(n + 4) : m[i] = k[i] BY <1>2, <1>3, PrefixBytes, ZenonT(30)
        <3>2. m[n + 3] = k[n + 3] /\ m[n + 4] = k[n + 4] BY <2>4, <3>1
        <3> QED BY <2>3, <2>4, <3>2
    <2>6. ASSUME NEW i \in 1..(n + 4), k[i] < m[i], \A j \in 1..(i - 1) : k[j] = m[j] PROVE FALSE
        <3>1. i \in 1..(n + 2) \/ i = n + 3 \/ i = n + 4 BY <1>1
        <3>2. CASE i \in 1..(n + 2) BY <1>4, <1>5, <2>6, <3>2
        <3>3. CASE i = n + 3 BY <2>3, <2>4, <2>6, <3>3
        <3>4. CASE i = n + 4
            <4>1. n + 3 \in 1..(i - 1) BY <1>1, <3>4
            <4>2. k[n + 3] = m[n + 3] BY <2>6, <4>1
            <4> QED BY <2>3, <2>4, <2>6, <3>4, <4>2
        <3> QED BY <3>1, <3>2, <3>3, <3>4
    <2>7. ~AtMost(k, m) BY <1>4, <2>5, <2>6 DEF AtMost
    <2> QED BY <1>8, <2>7 DEF k, m
<1> QED BY <1>6, <1>7, <1>8

\* The reverse iteration of fetchAccountBalanceAt: of the keys that start with
\* the account, those at or below the account's key at a height are the
\* account's own up to that height.  The keys of a longer account come after,
\* for its next letter is above the zero byte.
LEMMA BelowSelects ==
    ASSUME NEW a \in Accounts, NEW b \in Accounts, NEW h \in Nat, NEW l \in Nat
    PROVE  /\ HasPrefix(AccountBalanceAtHeightKey(b, l), Act \o a)
           /\ AtMost(AccountBalanceAtHeightKey(b, l), AccountBalanceAtHeightKey(a, h))
           <=> a = b /\ l <= h
<1> DEFINE k == AccountBalanceAtHeightKey(b, l)
           m == AccountBalanceAtHeightKey(a, h)
           p == Act \o a
           n == Len(a)
<1>1. /\ a \in Seq(Nat) /\ b \in Seq(Nat) /\ n \in Nat /\ Len(b) \in Nat
      /\ \A i \in 1..n : a[i] \in Nat /\ a[i] > Slash
      /\ \A i \in 1..Len(b) : b[i] \in Nat /\ b[i] > Slash
    BY AccountBytes
<1>2. /\ k \in Seq(Nat) /\ Len(k) = Len(b) + 4 /\ k[1] = 10 /\ \A i \in 1..Len(b) : k[i + 1] = b[i]
      /\ k[Len(b) + 2] = Nul
    BY ActKeyBytes
<1>3. /\ m \in Seq(Nat) /\ Len(m) = n + 4 /\ m[1] = 10 /\ \A i \in 1..n : m[i + 1] = a[i]
      /\ m[n + 2] = Nul
    BY ActKeyBytes
<1>4. p \in Seq(Nat) /\ Len(p) = n + 1 /\ p[1] = 10 /\ \A i \in 1..n : p[i + 1] = a[i]
    BY <1>1 DEF Act
<1> HIDE DEF k, m, p, n
<1>5. HasPrefix(k, p) <=> Len(k) >= Len(p) /\ \A i \in 1..Len(p) : k[i] = p[i]
    BY <1>2, <1>4, PrefixBytes
<1>6. ASSUME a = b PROVE HasPrefix(k, p)
    <2>0. Len(b) = n BY <1>6 DEF n
    <2>1. Len(k) >= Len(p) BY <1>1, <1>2, <1>4, <2>0
    <2>2. ASSUME NEW i \in 1..Len(p) PROVE k[i] = p[i]
        <3>1. i = 1 \/ i - 1 \in 1..n BY <1>1, <1>4
        <3>2. CASE i - 1 \in 1..n
            <4>1. k[(i - 1) + 1] = a[i - 1] /\ p[(i - 1) + 1] = a[i - 1]
                BY <1>2, <1>4, <1>6, <2>0, <3>2
            <4> QED BY <4>1, <1>1
        <3> QED BY <1>2, <1>4, <3>1, <3>2
    <2> QED BY <1>5, <2>1, <2>2
<1>7. ASSUME HasPrefix(k, p), AtMost(k, m) PROVE a = b
    <2>1. Len(k) >= Len(p) /\ \A i \in 1..Len(p) : k[i] = p[i] BY <1>5, <1>7
    <2>2. ~(Len(b) < n)
        <3> SUFFICES ASSUME Len(b) < n PROVE FALSE OBVIOUS
        <3>1. Len(b) + 1 \in 1..n /\ Len(b) + 2 \in 1..Len(p) /\ (Len(b) + 1) + 1 = Len(b) + 2
            BY <1>1, <1>4
        <3>2. p[Len(b) + 2] = Nul BY <1>2, <2>1, <3>1
        <3>3. p[Len(b) + 2] = a[Len(b) + 1] BY <1>4, <3>1
        <3>4. a[Len(b) + 1] \in Nat /\ a[Len(b) + 1] > Slash BY <1>1, <3>1
        <3> QED BY <3>2, <3>3, <3>4 DEF Slash, Nul
    <2>3. ASSUME NEW i \in 1..(n + 1) PROVE k[i] = m[i]
        <3>1. i = 1 \/ i - 1 \in 1..n BY <1>1
        <3>2. k[i] = p[i] BY <1>4, <2>1
        <3>3. CASE i - 1 \in 1..n
            <4>1. m[(i - 1) + 1] = a[i - 1] /\ p[(i - 1) + 1] = a[i - 1] BY <1>3, <1>4, <3>3
            <4> QED BY <4>1, <3>2, <1>1
        <3> QED BY <1>3, <1>4, <3>1, <3>2, <3>3
    <2>4. ~(n < Len(b))
        <3> SUFFICES ASSUME n < Len(b) PROVE FALSE OBVIOUS
        <3>1. n + 1 \in 1..Len(b) /\ (n + 1) + 1 = n + 2 /\ n + 2 \in 1..Len(k) /\ n + 2 \in 1..Len(m)
            <4>0. n \in Nat /\ Len(b) \in Nat /\ n < Len(b) BY <1>1
            <4>1. n + 1 \in 1..Len(b) /\ (n + 1) + 1 = n + 2 BY <4>0
            <4>2. n + 2 \in 1..Len(k)
                <5>1. Len(k) \in Nat /\ Len(k) >= Len(b) + 1 BY <1>2, <4>0
                <5> QED BY <4>0, <5>1
            <4>3. n + 2 \in 1..Len(m)
                <5>1. Len(m) \in Nat /\ Len(m) >= n + 2 BY <1>3, <4>0
                <5> QED BY <4>0, <5>1
            <4> QED BY <4>1, <4>2, <4>3
        <3>2. k[n + 2] \in Nat /\ k[n + 2] > Slash
            <4>1. k[n + 2] = b[n + 1] BY <1>2, <3>1
            <4> QED BY <1>1, <3>1, <4>1
        <3>3. m[n + 2] # k[n + 2] /\ ~(k[n + 2] < m[n + 2]) BY <1>3, <3>2 DEF Nul, Slash
        <3>4. ~HasPrefix(m, k)
            <4>1. HasPrefix(m, k) <=> Len(m) >= Len(k) /\ \A i \in 1..Len(k) : m[i] = k[i]
                BY <1>2, <1>3, PrefixBytes
            <4> QED BY <3>1, <3>3, <4>1
        <3>5. PICK i \in DOMAIN k \cap DOMAIN m : k[i] < m[i] /\ \A j \in 1..(i - 1) : k[j] = m[j]
            BY <1>7, <3>4 DEF AtMost
        <3>6. i \in 1..Len(k) /\ i \in 1..Len(m) BY <1>2, <1>3
        <3>7. i \in 1..(n + 1) \/ i = n + 2 \/ n + 2 \in 1..(i - 1) BY <1>1, <3>6
        <3>8. CASE i \in 1..(n + 1)
            <4>1. k[i] = m[i] /\ m[i] \in Nat BY <1>3, <2>3, <3>6, <3>8
            <4> QED BY <3>5, <4>1
        <3> QED BY <3>3, <3>5, <3>7, <3>8
    <2>5. Len(b) = n BY <1>1, <2>2, <2>4
    <2>6. ASSUME NEW i \in 1..n PROVE a[i] = b[i]
        <3>1. i + 1 \in 1..Len(p) BY <1>1, <1>4
        <3> QED BY <1>2, <1>4, <2>1, <2>5, <3>1
    <2> QED BY <1>1, <2>5, <2>6, SeqEqual DEF n
<1>8. ASSUME a = b PROVE AtMost(k, m) <=> l <= h
    BY <1>8, ActKeysOrdered DEF k, m
<1> QED BY <1>6, <1>7, <1>8 DEF k, m, p

\* Keys of different tables differ in their first byte.
LEMMA TablesDiffer ==
    /\ \A h \in Nat : LastKey # ProcessedBlockKey(h)
    /\ \A a \in Accounts, h \in Nat :
          LastKey # AccountBalanceAtHeightKey(a, h) /\ LastKey # BlockAccountKey(h, a)
    /\ \A a \in Accounts, h \in Nat, l \in Nat :
          /\ ProcessedBlockKey(h) # AccountBalanceAtHeightKey(a, l)
          /\ ProcessedBlockKey(h) # BlockAccountKey(l, a)
    /\ \A a \in Accounts, b \in Accounts, h \in Nat, l \in Nat :
          AccountBalanceAtHeightKey(a, h) # BlockAccountKey(l, b)
    /\ \A a \in Accounts, o \in Outpoints : LastKey # AccountUtxoKey(a, o)
    /\ \A a \in Accounts, o \in Outpoints, h \in Nat : ProcessedBlockKey(h) # AccountUtxoKey(a, o)
    /\ \A a \in Accounts, b \in Accounts, o \in Outpoints, h \in Nat :
          /\ AccountBalanceAtHeightKey(a, h) # AccountUtxoKey(b, o)
          /\ BlockAccountKey(h, a) # AccountUtxoKey(b, o)
<1>1. \A h \in Nat : ProcessedBlockKey(h)[1] = 11 /\ \A a \in Accounts : BlockAccountKey(h, a)[1] = 12
    BY OtherKeyBytes
<1>2. LastKey[1] = 14
    <2>1. 0 \in Nat OBVIOUS
    <2> QED BY <2>1, OtherKeyBytes
<1>3. \A a \in Accounts, h \in Nat : AccountBalanceAtHeightKey(a, h)[1] = 10
    BY ActKeyBytes
<1>4. \A a \in Accounts, o \in Outpoints : AccountUtxoKey(a, o)[1] = 13
    BY UtxoKeyBytes
<1> QED BY <1>1, <1>2, <1>3, <1>4

-----------------------------------------------------------------------------
(* The layout of the map.                                                  *)

\* The heights the digits of a key can hold.
Heights == 0..(Base * Base - 1)

\* Every key the store ever writes.
Keys == {LastKey} \cup {ProcessedBlockKey(h) : h \in Heights}
        \cup {AccountBalanceAtHeightKey(a, h) : a \in Accounts, h \in Heights}
        \cup {BlockAccountKey(h, a) : h \in Heights, a \in Accounts}
        \cup {AccountUtxoKey(a, o) : a \in Accounts, o \in Outpoints}

TipOf(m) == FetchLastProcessedBlock(m).height

\* The inductive invariant of a map: the processed blocks are those up to the
\* tip, and a recorded balance is at or below the tip and listed under its
\* height.  Lists may hold more: a rollback leaves them behind.
LaidOut(m) ==
    /\ DOMAIN m \subseteq Keys
    /\ TipOf(m) \in Heights
    /\ \A h \in Heights : ProcessedBlockKey(h) \in DOMAIN m <=> h \in 1..TipOf(m)
    /\ \A h \in 1..TipOf(m) : m[ProcessedBlockKey(h)] \in Blocks
    /\ \A a \in Accounts, h \in Heights :
          AccountBalanceAtHeightKey(a, h) \in DOMAIN m =>
              h \in 1..TipOf(m) /\ BlockAccountKey(h, a) \in DOMAIN m

\* Heights are naturals.
LEMMA HeightsAreNat == Heights \subseteq Nat /\ 0 \in Heights
<1>1. Base \in Nat /\ Base > 1 BY BadgerAssumption
<1>2. Base * Base \in Nat /\ Base * Base > 0 BY <1>1
<1> QED BY <1>2 DEF Heights

\* The table of a key is its first byte.
LEMMA KeyTable ==
    ASSUME NEW k \in Keys
    PROVE  /\ k \in Seq(Nat) /\ Len(k) >= 1
           /\ k[1] = 10 => \E a \in Accounts, h \in Heights : k = AccountBalanceAtHeightKey(a, h)
           /\ k[1] = 12 => \E a \in Accounts, h \in Heights : k = BlockAccountKey(h, a)
           /\ k[1] = 13 => \E a \in Accounts, o \in Outpoints : k = AccountUtxoKey(a, o)
<1>1. CASE k = LastKey
    <2>1. 0 \in Nat OBVIOUS
    <2>2. LastKey \in Seq(Nat) /\ Len(LastKey) = 1 /\ LastKey[1] = 14 BY <2>1, OtherKeyBytes
    <2> QED BY <1>1, <2>2
<1>2. ASSUME NEW h \in Heights, k = ProcessedBlockKey(h) PROVE k \in Seq(Nat) /\ Len(k) = 3 /\ k[1] = 11
    <2>1. h \in Nat BY HeightsAreNat
    <2> QED BY <1>2, <2>1, OtherKeyBytes
<1>3. ASSUME NEW a \in Accounts, NEW h \in Heights, k = AccountBalanceAtHeightKey(a, h)
      PROVE  k \in Seq(Nat) /\ Len(k) >= 1 /\ k[1] = 10
    <2>1. h \in Nat /\ Len(a) \in Nat BY HeightsAreNat, AccountBytes
    <2>2. k \in Seq(Nat) /\ Len(k) = Len(a) + 4 /\ k[1] = 10 BY <1>3, <2>1, ActKeyBytes
    <2> QED BY <2>1, <2>2
<1>4. ASSUME NEW a \in Accounts, NEW h \in Heights, k = BlockAccountKey(h, a)
      PROVE  k \in Seq(Nat) /\ Len(k) >= 1 /\ k[1] = 12
    <2>1. h \in Nat /\ Len(a) \in Nat BY HeightsAreNat, AccountBytes
    <2>2. k \in Seq(Nat) /\ Len(k) = Len(a) + 3 /\ k[1] = 12 BY <1>4, <2>1, OtherKeyBytes
    <2> QED BY <2>1, <2>2
<1>5. ASSUME NEW a \in Accounts, NEW o \in Outpoints, k = AccountUtxoKey(a, o)
      PROVE  k \in Seq(Nat) /\ Len(k) >= 1 /\ k[1] = 13
    <2>1. Len(a) \in Nat BY AccountBytes
    <2>2. k \in Seq(Nat) /\ Len(k) = Len(a) + 3 /\ k[1] = 13 BY <1>5, UtxoKeyBytes
    <2> QED BY <2>1, <2>2
<1>6. \/ k = LastKey
      \/ \E h \in Heights : k = ProcessedBlockKey(h)
      \/ \E a \in Accounts, h \in Heights : k = AccountBalanceAtHeightKey(a, h)
      \/ \E a \in Accounts, h \in Heights : k = BlockAccountKey(h, a)
      \/ \E a \in Accounts, o \in Outpoints : k = AccountUtxoKey(a, o)
    BY DEF Keys
<1>7. CASE \E h \in Heights : k = ProcessedBlockKey(h) BY <1>2, <1>7
<1>8. CASE \E a \in Accounts, h \in Heights : k = AccountBalanceAtHeightKey(a, h) BY <1>3, <1>8
<1>9. CASE \E a \in Accounts, h \in Heights : k = BlockAccountKey(h, a) BY <1>4, <1>9
<1>10. CASE \E a \in Accounts, o \in Outpoints : k = AccountUtxoKey(a, o) BY <1>5, <1>10
<1> QED BY <1>1, <1>6, <1>7, <1>8, <1>9, <1>10

-----------------------------------------------------------------------------
(* What the reads return.                                                  *)

\* fetchAccountUtxos finds the account's outputs and no others.
LEMMA UtxosRead ==
    ASSUME NEW m, LaidOut(m), NEW a \in Accounts
    PROVE  FetchAccountUtxos(m, a)
              = [o \in {o \in Outpoints : AccountUtxoKey(a, o) \in DOMAIN m} |-> m[AccountUtxoKey(a, o)]]
<1> DEFINE p == AccountUtxoPrefix(a)
           ks == KeysWithPrefix(m, p)
           D == {o \in Outpoints : AccountUtxoKey(a, o) \in DOMAIN m}
<1>1. p \in Seq(Nat) /\ Len(p) >= 1 /\ p[1] = 13
    <2>1. CASE Outpoints = {}
        <3>1. a \in Seq(Nat) /\ Len(a) \in Nat BY AccountBytes
        <3> QED BY <3>1 DEF AccountUtxoPrefix, Autxos, Slash
    <2>2. CASE Outpoints # {}
        <3>1. PICK o \in Outpoints : TRUE BY <2>2
        <3>2. p \in Seq(Nat) /\ Len(p) = Len(a) + 2 /\ p[1] = 13 BY UtxoKeyBytes
        <3>3. Len(a) \in Nat BY AccountBytes
        <3> QED BY <3>2, <3>3
    <2> QED BY <2>1, <2>2
<1>2. ASSUME NEW k \in ks PROVE \E o \in D : k = AccountUtxoKey(a, o)
    <2>1. k \in DOMAIN m /\ k \in Keys /\ HasPrefix(k, p) BY DEF KeysWithPrefix, LaidOut
    <2> HIDE DEF p
    <2>2. k \in Seq(Nat) BY <2>1, KeyTable
    <2>3. 1 \in 1..Len(p) BY <1>1
    <2>4. k[1] = 13 BY <1>1, <2>1, <2>2, <2>3, PrefixBytes
    <2>5. PICK b \in Accounts, o \in Outpoints : k = AccountUtxoKey(b, o) BY <2>1, <2>4, KeyTable
    <2>6. a = b BY <2>1, <2>5, UtxoPrefixSelects DEF p
    <2> QED BY <2>1, <2>5, <2>6
<1>3. ASSUME NEW o \in D
      PROVE  LET k == AccountUtxoKey(a, o)
             IN  k \in ks /\ k[Len(k)] = o[1] /\ o = <<o[1]>>
    <2>1. HasPrefix(AccountUtxoKey(a, o), p) BY UtxoPrefixSelects
    <2>2. /\ Len(AccountUtxoKey(a, o)) = Len(a) + 3 /\ AccountUtxoKey(a, o)[Len(a) + 3] = o[1]
          /\ o = <<o[1]>>
        BY UtxoKeyBytes
    <2> QED BY <2>1, <2>2 DEF KeysWithPrefix
<1> HIDE DEF ks, D
<1>4. {<<k[Len(k)]>> : k \in ks} = D
    <2>1. ASSUME NEW k \in ks PROVE <<k[Len(k)]>> \in D
        <3>1. PICK o \in D : k = AccountUtxoKey(a, o) BY <1>2
        <3> QED BY <1>3, <3>1
    <2>2. ASSUME NEW o \in D PROVE \E k \in ks : o = <<k[Len(k)]>>
        <3>1. AccountUtxoKey(a, o) \in ks BY <1>3
        <3> QED BY <1>3, <3>1
    <2> QED BY <2>1, <2>2
<1>5. ASSUME NEW o \in D
      PROVE  (CHOOSE k \in ks : k[Len(k)] = o[1]) = AccountUtxoKey(a, o)
    <2>1. AccountUtxoKey(a, o) \in ks
          /\ AccountUtxoKey(a, o)[Len(AccountUtxoKey(a, o))] = o[1] /\ o = <<o[1]>>
        BY <1>3
    <2>2. ASSUME NEW k \in ks, k[Len(k)] = o[1] PROVE k = AccountUtxoKey(a, o)
        <3>1. PICK q \in D : k = AccountUtxoKey(a, q) BY <1>2
        <3>2. k[Len(k)] = q[1] /\ q = <<q[1]>> BY <1>3, <3>1
        <3> QED BY <2>1, <2>2, <3>1, <3>2
    <2> QED BY <2>1, <2>2
<1>6. FetchAccountUtxos(m, a)
          = [o \in {<<k[Len(k)]>> : k \in ks} |-> m[CHOOSE k \in ks : k[Len(k)] = o[1]]]
    BY DEF FetchAccountUtxos, ks
<1>7. FetchAccountUtxos(m, a) = [o \in D |-> m[CHOOSE k \in ks : k[Len(k)] = o[1]]]
    BY <1>4, <1>6
<1>8. FetchAccountUtxos(m, a) = [o \in D |-> m[AccountUtxoKey(a, o)]]
    BY <1>5, <1>7
<1> QED BY <1>8 DEF D

\* fetchBlockAccounts finds the accounts listed under the height.
LEMMA AccountsRead ==
    ASSUME NEW m, LaidOut(m), NEW h \in Heights
    PROVE  FetchBlockAccounts(m, h) = {a \in Accounts : BlockAccountKey(h, a) \in DOMAIN m}
<1> DEFINE p == BlockAccountKey(h, << >>)
           ks == KeysWithPrefix(m, p)
<1>1. h \in Nat BY HeightsAreNat
<1>2. p \in Seq(Nat) /\ Len(p) = 3 /\ p[1] = 12 BY <1>1, OtherKeyBytes
<1>3. ASSUME NEW k \in ks
      PROVE  \E a \in Accounts : /\ k = BlockAccountKey(h, a) /\ k \in DOMAIN m
                                 /\ SubSeq(k, Len(p) + 1, Len(k)) = a
    <2>1. k \in DOMAIN m /\ k \in Keys /\ HasPrefix(k, p) BY DEF KeysWithPrefix, LaidOut
    <2> HIDE DEF p
    <2>2. k \in Seq(Nat) BY <2>1, KeyTable
    <2>3. 1 \in 1..Len(p) BY <1>2
    <2>4. k[1] = 12 BY <1>2, <2>1, <2>2, <2>3, PrefixBytes
    <2>5. PICK a \in Accounts, l \in Heights : k = BlockAccountKey(l, a) BY <2>1, <2>4, KeyTable
    <2>6. l \in Nat BY HeightsAreNat
    <2>7. h = l /\ SubSeq(k, Len(p) + 1, Len(k)) = a
        BY <1>1, <2>1, <2>5, <2>6, BacPrefixSelects DEF p
    <2> QED BY <2>1, <2>5, <2>7
<1>4. ASSUME NEW a \in Accounts, BlockAccountKey(h, a) \in DOMAIN m
      PROVE  LET k == BlockAccountKey(h, a)
             IN  k \in ks /\ SubSeq(k, Len(p) + 1, Len(k)) = a
    <2>1. HasPrefix(BlockAccountKey(h, a), p)
          /\ SubSeq(BlockAccountKey(h, a), Len(p) + 1, Len(BlockAccountKey(h, a))) = a
        BY <1>1, BacPrefixSelects
    <2> QED BY <1>4, <2>1 DEF KeysWithPrefix
<1>5. FetchBlockAccounts(m, h) = {SubSeq(k, Len(p) + 1, Len(k)) : k \in ks}
    BY DEF FetchBlockAccounts
<1> HIDE DEF p, ks
<1> QED BY <1>3, <1>4, <1>5

\* fetchAccountBalanceAt looks at the account's records up to the height.
LEMMA BelowRead ==
    ASSUME NEW m, LaidOut(m), NEW a \in Accounts, NEW h \in Nat
    PROVE  {k \in KeysWithPrefix(m, Act \o a) : AtMost(k, AccountBalanceAtHeightKey(a, h))}
              = {AccountBalanceAtHeightKey(a, l) :
                    l \in {l \in Heights : l <= h /\ AccountBalanceAtHeightKey(a, l) \in DOMAIN m}}
<1> DEFINE p == Act \o a
           H == {l \in Heights : l <= h /\ AccountBalanceAtHeightKey(a, l) \in DOMAIN m}
<1>1. p \in Seq(Nat) /\ Len(p) >= 1 /\ p[1] = 10
    <2>1. a \in Seq(Nat) /\ Len(a) \in Nat BY AccountBytes
    <2> QED BY <2>1 DEF Act
<1>2. ASSUME NEW k \in KeysWithPrefix(m, p), AtMost(k, AccountBalanceAtHeightKey(a, h))
      PROVE  \E l \in H : k = AccountBalanceAtHeightKey(a, l)
    <2>1. k \in DOMAIN m /\ k \in Keys /\ HasPrefix(k, p) BY DEF KeysWithPrefix, LaidOut
    <2> HIDE DEF p
    <2>2. k \in Seq(Nat) BY <2>1, KeyTable
    <2>3. 1 \in 1..Len(p) BY <1>1
    <2>4. k[1] = 10 BY <1>1, <2>1, <2>2, <2>3, PrefixBytes
    <2>5. PICK b \in Accounts, l \in Heights : k = AccountBalanceAtHeightKey(b, l)
        BY <2>1, <2>4, KeyTable
    <2>6. l \in Nat BY HeightsAreNat
    <2>7. a = b /\ l <= h BY <1>2, <2>1, <2>5, <2>6, BelowSelects DEF p
    <2> QED BY <2>1, <2>5, <2>7
<1>3. ASSUME NEW l \in H
      PROVE  LET k == AccountBalanceAtHeightKey(a, l)
             IN  k \in KeysWithPrefix(m, p) /\ AtMost(k, AccountBalanceAtHeightKey(a, h))
    <2>1. l \in Nat /\ l <= h /\ AccountBalanceAtHeightKey(a, l) \in DOMAIN m BY HeightsAreNat
    <2>2. HasPrefix(AccountBalanceAtHeightKey(a, l), p)
          /\ AtMost(AccountBalanceAtHeightKey(a, l), AccountBalanceAtHeightKey(a, h))
        BY <2>1, BelowSelects
    <2> QED BY <2>1, <2>2 DEF KeysWithPrefix
<1> HIDE DEF H
<1>4. {k \in KeysWithPrefix(m, p) : AtMost(k, AccountBalanceAtHeightKey(a, h))}
          = {AccountBalanceAtHeightKey(a, l) : l \in H}
    BY <1>2, <1>3
<1> QED BY <1>4 DEF H, p

\* The balances recorded at a height, and the outputs, by their keys.
BalancesAt(m, h) ==
    [a \in {a \in Accounts : AccountBalanceAtHeightKey(a, h) \in DOMAIN m} |->
        m[AccountBalanceAtHeightKey(a, h)]]

UtxosOf(m) ==
    [c \in {c \in Coin : AccountUtxoKey(c[1], c[2]) \in DOMAIN m} |-> m[AccountUtxoKey(c[1], c[2])]]

\* All that the reads can see of a map, by its keys.
LEMMA SeenRead ==
    ASSUME NEW m, LaidOut(m)
    PROVE  /\ TipOf(m) \in Nat /\ 1..TipOf(m) \subseteq Heights
           /\ Seen(m) = [processed |-> [h \in 1..TipOf(m) |-> m[ProcessedBlockKey(h)]],
                         balances  |-> [h \in 1..TipOf(m) |-> BalancesAt(m, h)],
                         utxos     |-> UtxosOf(m)]
           /\ Seen(m).processed \in Seq(Blocks) /\ Len(Seen(m).processed) = TipOf(m)
           /\ LastHeight(Seen(m)) = TipOf(m) /\ Len(Seen(m).balances) = TipOf(m)
<1> DEFINE n == TipOf(m)
<1>1. n \in Nat /\ 1..n \subseteq Heights
    <2>1. n \in Heights BY DEF LaidOut
    <2>2. Base * Base \in Nat
        <3>1. Base \in Nat BY BadgerAssumption
        <3> QED BY <3>1
    <2> QED BY <2>1, <2>2 DEF Heights
<1>2. ASSUME NEW h \in 1..n
      PROVE  FetchProcessedBlockHash(m, h) = m[ProcessedBlockKey(h)] /\ m[ProcessedBlockKey(h)] \in Blocks
    <2>1. h \in Heights BY <1>1
    <2>2. ProcessedBlockKey(h) \in DOMAIN m /\ m[ProcessedBlockKey(h)] \in Blocks BY <2>1 DEF LaidOut
    <2> QED BY <2>2 DEF FetchProcessedBlockHash
<1>3. ASSUME NEW c \in Coin
      PROVE  /\ c[1] \in Accounts /\ c[2] \in Outpoints
             /\ c[2] \in DOMAIN FetchAccountUtxos(m, c[1]) <=> AccountUtxoKey(c[1], c[2]) \in DOMAIN m
             /\ AccountUtxoKey(c[1], c[2]) \in DOMAIN m =>
                    FetchAccountUtxos(m, c[1])[c[2]] = m[AccountUtxoKey(c[1], c[2])]
    <2>1. c[1] \in Accounts /\ c[2] \in Outpoints BY DEF Coin
    <2> DEFINE a == c[1]
    <2>2. FetchAccountUtxos(m, a)
              = [o \in {o \in Outpoints : AccountUtxoKey(a, o) \in DOMAIN m} |-> m[AccountUtxoKey(a, o)]]
        BY <2>1, UtxosRead
    <2> QED BY <2>1, <2>2
<1> DEFINE P == [h \in 1..n |-> m[ProcessedBlockKey(h)]]
           B == [h \in 1..n |-> BalancesAt(m, h)]
           U == [c \in {c \in Coin : c[2] \in DOMAIN FetchAccountUtxos(m, c[1])} |->
                    FetchAccountUtxos(m, c[1])[c[2]]]
<1>4. U = UtxosOf(m)
    BY <1>3 DEF UtxosOf
<1>5. P = [h \in 1..n |-> FetchProcessedBlockHash(m, h)]
    BY <1>2
<1>6. Seen(m) = [processed |-> P, balances |-> B, utxos |-> U]
    BY <1>5 DEF Seen, TipOf, BalancesAt
<1>7. P \in Seq(Blocks) /\ Len(P) = n
    BY <1>1, <1>2
<1>8. Len(B) = n
    BY <1>1
<1> HIDE DEF P, B, U
<1>9. Seen(m).processed = P /\ Seen(m).balances = B
    BY <1>6
<1> QED BY <1>1, <1>4, <1>6, <1>7, <1>8, <1>9 DEF P, B, LastHeight

\* fetchAccountBalanceAt returns the latest of the account's balances.
LEMMA BalanceRead ==
    ASSUME NEW m, LaidOut(m), NEW a \in Accounts, NEW h \in Nat
    PROVE  FetchAccountBalanceAt(m, a, h) = Balance(Seen(m), a, h)
<1> DEFINE H == {l \in Heights : l <= h /\ AccountBalanceAtHeightKey(a, l) \in DOMAIN m}
           below == {k \in KeysWithPrefix(m, Act \o a) : AtMost(k, AccountBalanceAtHeightKey(a, h))}
           n == TipOf(m)
           d == Seen(m)
<1>1. below = {AccountBalanceAtHeightKey(a, l) : l \in H}
    BY BelowRead
<1>2. /\ n \in Nat /\ 1..n \subseteq Heights /\ Len(d.balances) = n
      /\ \A l \in 1..n : d.balances[l] = BalancesAt(m, l)
    BY SeenRead
<1>3. \A l \in 1..n : /\ a \in DOMAIN d.balances[l] <=> AccountBalanceAtHeightKey(a, l) \in DOMAIN m
                      /\ a \in DOMAIN d.balances[l] => d.balances[l][a] = m[AccountBalanceAtHeightKey(a, l)]
    BY <1>2 DEF BalancesAt
<1>4. \A l \in H : l \in 1..n /\ l \in 1..h
    <2> SUFFICES ASSUME NEW l \in H PROVE l \in 1..n /\ l \in 1..h
        OBVIOUS
    <2>1. l \in 1..n BY DEF LaidOut
    <2>2. l <= h OBVIOUS
    <2> QED BY <1>2, <2>1, <2>2
<1>5. RecordedHeights(d, a, h) = H
    <2> HIDE DEF d, n
    <2>1. ASSUME NEW l \in RecordedHeights(d, a, h) PROVE l \in H
        <3>1. l \in 1..h /\ l <= n /\ a \in DOMAIN d.balances[l] BY <1>2, <2>1 DEF RecordedHeights
        <3>2. l \in 1..n BY <1>2, <3>1
        <3> QED BY <1>2, <1>3, <3>1, <3>2
    <2>2. ASSUME NEW l \in H PROVE l \in RecordedHeights(d, a, h)
        <3>1. l \in 1..n /\ l \in 1..h BY <1>4
        <3> QED BY <1>2, <1>3, <3>1 DEF RecordedHeights
    <2> QED BY <2>1, <2>2
<1>6. CASE H = {}
    <2>1. below = {} BY <1>1, <1>6
    <2> QED BY <1>5, <1>6, <2>1 DEF FetchAccountBalanceAt, Balance
<1>7. CASE H # {}
    <2> HIDE DEF H, below, d, n
    <2>1. H \in SUBSET (0..h) BY <1>4
    <2>2. PICK x \in H : \A l \in H : l <= x BY <1>7, <2>1, GreatestNat
    <2>3. Max(H) = x
        <3>1. \A l \in H : x >= l BY <2>1, <2>2
        <3>2. \A y \in H : (\A l \in H : y >= l) => y = x
            BY <2>1, <2>2
        <3> QED BY <2>2, <3>1, <3>2 DEF Max
    <2> DEFINE key(l) == AccountBalanceAtHeightKey(a, l)
    <2>4. \A l \in H, g \in H : AtMost(key(l), key(g)) <=> l <= g
        <3>1. H \subseteq Nat BY <2>1
        <3> QED BY <3>1, ActKeysOrdered
    <2>5. (CHOOSE k \in below : \A l \in below : AtMost(l, k)) = key(x)
        <3>1. key(x) \in below BY <1>1, <2>2
        <3>2. \A k \in below : AtMost(k, key(x)) BY <1>1, <2>2, <2>4
        <3>3. ASSUME NEW k \in below, \A l \in below : AtMost(l, k) PROVE k = key(x)
            <4>1. PICK g \in H : k = key(g) BY <1>1
            <4>2. AtMost(key(x), key(g)) BY <3>1, <3>3, <4>1
            <4>3. x <= g /\ g <= x BY <2>2, <2>4, <4>1, <4>2
            <4>4. x = g BY <2>1, <4>3
            <4> QED BY <4>1, <4>4
        <3> HIDE DEF key
        <3> QED BY <3>1, <3>2, <3>3
    <2>6. below # {} BY <1>1, <1>7
    <2>7. FetchAccountBalanceAt(m, a, h) = m[key(x)]
        BY <2>5, <2>6 DEF FetchAccountBalanceAt, below
    <2>8. Balance(d, a, h) = d.balances[x][a]
        BY <1>5, <1>7, <2>3 DEF Balance
    <2>9. x \in 1..n /\ key(x) \in DOMAIN m
        BY <1>4, <2>2 DEF H
    <2>10. d.balances[x][a] = m[key(x)]
        BY <1>3, <2>9
    <2> QED BY <2>7, <2>8, <2>10 DEF d
<1> QED BY <1>6, <1>7

-----------------------------------------------------------------------------
(* What the writes do.                                                     *)

\* Maps m and e hold the same under key k.
Agree(m, e, k) == /\ k \in DOMAIN m <=> k \in DOMAIN e
                  /\ k \in DOMAIN m => e[k] = m[k]

\* The tip is what is stored under LastKey.
LEMMA SameTip ==
    ASSUME NEW m, NEW e, Agree(m, e, LastKey)
    PROVE  TipOf(e) = TipOf(m)
BY DEF Agree, TipOf, FetchLastProcessedBlock

\* Maps that agree on a height's balance keys show the same balances there.
LEMMA SameBalancesAt ==
    ASSUME NEW m, NEW e, NEW h, \A a \in Accounts : Agree(m, e, AccountBalanceAtHeightKey(a, h))
    PROVE  BalancesAt(e, h) = BalancesAt(m, h)
BY DEF Agree, BalancesAt

\* Maps that agree on the keys of outputs show the same outputs.
LEMMA SameUtxos ==
    ASSUME NEW m, NEW e, \A a \in Accounts, o \in Outpoints : Agree(m, e, AccountUtxoKey(a, o))
    PROVE  UtxosOf(e) = UtxosOf(m)
<1>1. \A c \in Coin : c[1] \in Accounts /\ c[2] \in Outpoints BY DEF Coin
<1>2. \A c \in Coin : Agree(m, e, AccountUtxoKey(c[1], c[2])) BY <1>1
<1> QED BY <1>2 DEF Agree, UtxosOf

\* A write to the outputs leaves the chain and the balances alone.
LEMMA UtxoWrite ==
    ASSUME NEW m, LaidOut(m), NEW a \in Accounts, NEW o \in Outpoints, NEW e,
           \A k \in Keys \ {AccountUtxoKey(a, o)} : Agree(m, e, k),
           DOMAIN e \subseteq Keys
    PROVE  LaidOut(e) /\ Seen(e) = [Seen(m) EXCEPT !.utxos = UtxosOf(e)]
<1> DEFINE n == TipOf(m)
<1>1. /\ LastKey \in Keys
      /\ \A h \in Heights : ProcessedBlockKey(h) \in Keys
      /\ \A b \in Accounts, h \in Heights :
            AccountBalanceAtHeightKey(b, h) \in Keys /\ BlockAccountKey(h, b) \in Keys
    BY DEF Keys
<1>2. Agree(m, e, LastKey)
    <2>1. 0 \in Nat OBVIOUS
    <2>2. LastKey # AccountUtxoKey(a, o) BY <2>1, TablesDiffer
    <2> QED BY <1>1, <2>2
<1>3. ASSUME NEW h \in Heights PROVE Agree(m, e, ProcessedBlockKey(h))
    <2>1. h \in Nat BY HeightsAreNat
    <2>2. ProcessedBlockKey(h) # AccountUtxoKey(a, o) BY <2>1, TablesDiffer
    <2> QED BY <1>1, <2>2
<1>4. ASSUME NEW h \in Heights, NEW b \in Accounts
      PROVE  Agree(m, e, AccountBalanceAtHeightKey(b, h)) /\ Agree(m, e, BlockAccountKey(h, b))
    <2>1. h \in Nat BY HeightsAreNat
    <2>2. AccountBalanceAtHeightKey(b, h) # AccountUtxoKey(a, o)
          /\ BlockAccountKey(h, b) # AccountUtxoKey(a, o)
        BY <2>1, TablesDiffer
    <2> QED BY <1>1, <2>2
<1>5. TipOf(e) = n BY <1>2, SameTip
<1>6. n \in Nat /\ 1..n \subseteq Heights BY SeenRead
<1>7. LaidOut(e)
    <2>1. n \in Heights BY DEF LaidOut
    <2>2. \A h \in Heights : ProcessedBlockKey(h) \in DOMAIN e <=> h \in 1..n
        BY <1>3 DEF LaidOut, Agree
    <2>3. \A h \in 1..n : e[ProcessedBlockKey(h)] \in Blocks
        BY <1>3, <1>6 DEF LaidOut, Agree
    <2>4. \A b \in Accounts, h \in Heights :
              AccountBalanceAtHeightKey(b, h) \in DOMAIN e => h \in 1..n /\ BlockAccountKey(h, b) \in DOMAIN e
        BY <1>4 DEF LaidOut, Agree
    <2> QED BY <1>5, <2>1, <2>2, <2>3, <2>4 DEF LaidOut
<1>8. ASSUME NEW h \in 1..n
      PROVE  e[ProcessedBlockKey(h)] = m[ProcessedBlockKey(h)] /\ BalancesAt(e, h) = BalancesAt(m, h)
    <2>1. h \in Heights BY <1>6
    <2>2. ProcessedBlockKey(h) \in DOMAIN m BY <2>1 DEF LaidOut
    <2> QED BY <1>3, <1>4, <2>1, <2>2, SameBalancesAt DEF Agree
<1> DEFINE P(x) == [h \in 1..n |-> x[ProcessedBlockKey(h)]]
           B(x) == [h \in 1..n |-> BalancesAt(x, h)]
<1>9. P(e) = P(m) /\ B(e) = B(m) BY <1>8
<1>10. Seen(m) = [processed |-> P(m), balances |-> B(m), utxos |-> UtxosOf(m)] BY SeenRead
<1>11. Seen(e) = [processed |-> P(e), balances |-> B(e), utxos |-> UtxosOf(e)] BY <1>5, <1>7, SeenRead
<1> HIDE DEF P, B
<1> QED BY <1>7, <1>9, <1>10, <1>11

\* AddUtxo: the output is there, with its amount, whether it was there or not.
LEMMA AddWrite ==
    ASSUME NEW m, LaidOut(m), NEW a \in Accounts, NEW o \in Outpoints, NEW e, NEW amt,
           e = [k \in DOMAIN m \cup {AccountUtxoKey(a, o)} |->
                   IF k = AccountUtxoKey(a, o) THEN amt ELSE m[k]]
    PROVE  LaidOut(e) /\ Seen(e) = [Seen(m) EXCEPT !.utxos = AddUtxo(@, <<a, o>>, amt)]
<1> DEFINE K == AccountUtxoKey(a, o)
<1>1. DOMAIN e \subseteq Keys BY DEF LaidOut, Keys
<1>2. \A k \in Keys \ {K} : Agree(m, e, k) BY DEF Agree
<1>3. K \in DOMAIN e /\ e[K] = amt OBVIOUS
<1>4. LaidOut(e) /\ Seen(e) = [Seen(m) EXCEPT !.utxos = UtxosOf(e)]
    BY <1>1, <1>2, UtxoWrite
<1>5. UtxosOf(e) = AddUtxo(UtxosOf(m), <<a, o>>, amt)
    <2>1. ASSUME NEW c \in Coin
          PROVE  /\ c = <<a, o>> => AccountUtxoKey(c[1], c[2]) = K
                 /\ c # <<a, o>> => Agree(m, e, AccountUtxoKey(c[1], c[2]))
        <3>1. c[1] \in Accounts /\ c[2] \in Outpoints /\ c = <<c[1], c[2]>> BY DEF Coin
        <3>2. CASE c = <<a, o>> BY <3>2
        <3>3. CASE c # <<a, o>>
            <4>2. AccountUtxoKey(c[1], c[2]) # K BY <3>1, <3>3, UtxoKeysDiffer
            <4>3. AccountUtxoKey(c[1], c[2]) \in Keys BY <3>1 DEF Keys
            <4> QED BY <1>2, <3>3, <4>2, <4>3
        <3> QED BY <3>2, <3>3
    <2>2. <<a, o>> \in Coin BY DEF Coin
    <2> HIDE DEF K
    <2>3. {c \in Coin : AccountUtxoKey(c[1], c[2]) \in DOMAIN e}
              = {c \in Coin : AccountUtxoKey(c[1], c[2]) \in DOMAIN m} \cup {<<a, o>>}
        BY <1>3, <2>1, <2>2 DEF Agree
    <2>4. ASSUME NEW c \in Coin, AccountUtxoKey(c[1], c[2]) \in DOMAIN e
          PROVE  e[AccountUtxoKey(c[1], c[2])]
                    = IF c = <<a, o>> THEN amt ELSE m[AccountUtxoKey(c[1], c[2])]
        BY <1>3, <2>1, <2>4 DEF Agree
    <2>5. \A c \in Coin : c # <<a, o>> => (AccountUtxoKey(c[1], c[2]) \in DOMAIN e
                                            <=> AccountUtxoKey(c[1], c[2]) \in DOMAIN m)
        BY <2>1 DEF Agree
    <2> DEFINE D(x) == {c \in Coin : AccountUtxoKey(c[1], c[2]) \in DOMAIN x}
               v(x, c) == x[AccountUtxoKey(c[1], c[2])]
    <2>6. D(e) = D(m) \cup {<<a, o>>} BY <2>3
    <2>7. \A c \in D(e) : v(e, c) = IF c = <<a, o>> THEN amt ELSE v(m, c) BY <2>4
    <2>8. \A c \in D(e) : c # <<a, o>> => c \in D(m) BY <2>5
    <2>9. UtxosOf(e) = [c \in D(e) |-> v(e, c)] /\ UtxosOf(m) = [c \in D(m) |-> v(m, c)] BY DEF UtxosOf
    <2> HIDE DEF D, v
    <2> QED BY <2>6, <2>7, <2>8, <2>9 DEF AddUtxo
<1>6. Seen(m).utxos = UtxosOf(m) BY SeenRead
<1> QED BY <1>4, <1>5, <1>6

\* DelUtxo: the output is gone, whether it was there or not.
LEMMA DelWrite ==
    ASSUME NEW m, LaidOut(m), NEW a \in Accounts, NEW o \in Outpoints, NEW e,
           e = [k \in DOMAIN m \ {AccountUtxoKey(a, o)} |-> m[k]]
    PROVE  LaidOut(e) /\ Seen(e) = [Seen(m) EXCEPT !.utxos = DelUtxo(@, <<a, o>>)]
<1> DEFINE K == AccountUtxoKey(a, o)
<1>1. DOMAIN e \subseteq Keys BY DEF LaidOut, Keys
<1>2. \A k \in Keys \ {K} : Agree(m, e, k) BY DEF Agree
<1>3. K \notin DOMAIN e OBVIOUS
<1>4. LaidOut(e) /\ Seen(e) = [Seen(m) EXCEPT !.utxos = UtxosOf(e)]
    BY <1>1, <1>2, UtxoWrite
<1>5. UtxosOf(e) = DelUtxo(UtxosOf(m), <<a, o>>)
    <2>1. ASSUME NEW c \in Coin
          PROVE  /\ c = <<a, o>> => AccountUtxoKey(c[1], c[2]) = K
                 /\ c # <<a, o>> => Agree(m, e, AccountUtxoKey(c[1], c[2]))
        <3>1. c[1] \in Accounts /\ c[2] \in Outpoints /\ c = <<c[1], c[2]>> BY DEF Coin
        <3>2. CASE c = <<a, o>> BY <3>2
        <3>3. CASE c # <<a, o>>
            <4>2. AccountUtxoKey(c[1], c[2]) # K BY <3>1, <3>3, UtxoKeysDiffer
            <4>3. AccountUtxoKey(c[1], c[2]) \in Keys BY <3>1 DEF Keys
            <4> QED BY <1>2, <3>3, <4>2, <4>3
        <3> QED BY <3>2, <3>3
    <2> HIDE DEF K
    <2> DEFINE D(x) == {c \in Coin : AccountUtxoKey(c[1], c[2]) \in DOMAIN x}
               v(x, c) == x[AccountUtxoKey(c[1], c[2])]
    <2>2. D(e) = D(m) \ {<<a, o>>} BY <1>3, <2>1 DEF Agree
    <2>3. \A c \in D(e) : v(e, c) = v(m, c) BY <1>3, <2>1 DEF Agree
    <2>4. UtxosOf(e) = [c \in D(e) |-> v(e, c)] /\ UtxosOf(m) = [c \in D(m) |-> v(m, c)] BY DEF UtxosOf
    <2> HIDE DEF D, v
    <2> QED BY <2>2, <2>3, <2>4 DEF DelUtxo
<1>6. Seen(m).utxos = UtxosOf(m) BY SeenRead
<1> QED BY <1>4, <1>5, <1>6

\* StoreBalances: the block is the new tip, with its balances.
LEMMA StoreWrite ==
    ASSUME NEW m, LaidOut(m), NEW b \in Blocks, NEW bals, IsPartialFcn(bals, Accounts, Int),
           NEW h, h = Height[b], h = TipOf(m) + 1, NEW e, DOMAIN e \subseteq Keys,
           LastKey \in DOMAIN e, e[LastKey].height = h,
           ProcessedBlockKey(h) \in DOMAIN e, e[ProcessedBlockKey(h)] = b,
           \A a \in DOMAIN bals : /\ AccountBalanceAtHeightKey(a, h) \in DOMAIN e
                                  /\ e[AccountBalanceAtHeightKey(a, h)] = bals[a]
                                  /\ BlockAccountKey(h, a) \in DOMAIN e,
           \A k \in Keys : \/ k \in {LastKey, ProcessedBlockKey(h)}
                           \/ \E a \in DOMAIN bals : k = AccountBalanceAtHeightKey(a, h)
                           \/ \E a \in DOMAIN bals : k = BlockAccountKey(h, a)
                           \/ Agree(m, e, k)
    PROVE  LaidOut(e) /\ Seen(e) = StoreBalances(Seen(m), b, bals)
<1> DEFINE n == TipOf(m)
<1>1. /\ \A l \in Heights : ProcessedBlockKey(l) \in Keys
      /\ \A a \in Accounts, l \in Heights :
            AccountBalanceAtHeightKey(a, l) \in Keys /\ BlockAccountKey(l, a) \in Keys
      /\ \A a \in Accounts, o \in Outpoints : AccountUtxoKey(a, o) \in Keys
    BY DEF Keys
<1>2. DOMAIN bals \subseteq Accounts /\ bals = [a \in DOMAIN bals |-> bals[a]] BY DEF IsPartialFcn
<1>3. n \in Nat /\ 1..n \subseteq Heights BY SeenRead
<1>4. h \in Heights /\ h \in Nat /\ h = n + 1
    <2>1. h \in Nat /\ h < Base * Base
        <3>1. Height[b] \in Nat BY BlockTreeAssumption
        <3>2. Height[b] < Base * Base BY BadgerAssumption
        <3> QED BY <3>1, <3>2
    <2>2. Base * Base \in Nat
        <3>1. Base \in Nat BY BadgerAssumption
        <3> QED BY <3>1
    <2> QED BY <2>1, <2>2 DEF Heights
<1>5. ASSUME NEW l \in Heights, l # h PROVE Agree(m, e, ProcessedBlockKey(l))
    <2>1. l \in Nat BY HeightsAreNat
    <2>2. ProcessedBlockKey(l) # ProcessedBlockKey(h) BY <1>4, <1>5, <2>1, BlockKeysDiffer
    <2> QED BY <1>1, <1>2, <1>4, <2>1, <2>2, TablesDiffer
<1>6. ASSUME NEW l \in Heights, NEW a \in Accounts, l # h \/ a \notin DOMAIN bals
      PROVE  Agree(m, e, AccountBalanceAtHeightKey(a, l)) /\ Agree(m, e, BlockAccountKey(l, a))
    <2>1. l \in Nat BY HeightsAreNat
    <2>2. \A x \in DOMAIN bals : /\ AccountBalanceAtHeightKey(a, l) # AccountBalanceAtHeightKey(x, h)
                                 /\ BlockAccountKey(l, a) # BlockAccountKey(h, x)
        BY <1>2, <1>4, <1>6, <2>1, AccountKeysDiffer
    <2> QED BY <1>1, <1>2, <1>4, <2>1, <2>2, TablesDiffer
<1>7. ASSUME NEW a \in Accounts, NEW o \in Outpoints PROVE Agree(m, e, AccountUtxoKey(a, o))
    BY <1>1, <1>2, <1>4, TablesDiffer
<1>8. TipOf(e) = h BY DEF TipOf, FetchLastProcessedBlock
<1>9. ASSUME NEW a \in Accounts
      PROVE  AccountBalanceAtHeightKey(a, h) \in DOMAIN e <=> a \in DOMAIN bals
    <2>1. CASE a \notin DOMAIN bals
        <3>1. Agree(m, e, AccountBalanceAtHeightKey(a, h)) BY <1>4, <1>6, <2>1
        <3>2. AccountBalanceAtHeightKey(a, h) \notin DOMAIN m
            <4>1. h \notin 1..n BY <1>3, <1>4
            <4> QED BY <1>4, <4>1 DEF LaidOut
        <3> QED BY <2>1, <3>1, <3>2 DEF Agree
    <2> QED BY <2>1
<1>10. LaidOut(e)
    <2>1. \A l \in Heights : l \in 1..h <=> l \in 1..n \/ l = h BY <1>3, <1>4, HeightsAreNat
    <2>2. ASSUME NEW l \in Heights PROVE ProcessedBlockKey(l) \in DOMAIN e <=> l \in 1..h
        BY <1>5, <2>1 DEF LaidOut, Agree
    <2>3. ASSUME NEW l \in 1..h PROVE e[ProcessedBlockKey(l)] \in Blocks
        <3>1. l = h \/ (l # h /\ l \in 1..n) BY <1>3, <1>4
        <3>2. CASE l # h /\ l \in 1..n
            <4>1. l \in Heights /\ m[ProcessedBlockKey(l)] \in Blocks /\ ProcessedBlockKey(l) \in DOMAIN m
                BY <1>3, <3>2 DEF LaidOut
            <4> QED BY <1>5, <3>2, <4>1 DEF Agree
        <3> QED BY <3>1, <3>2
    <2>4. ASSUME NEW a \in Accounts, NEW l \in Heights, AccountBalanceAtHeightKey(a, l) \in DOMAIN e
          PROVE  l \in 1..h /\ BlockAccountKey(l, a) \in DOMAIN e
        <3>1. CASE l = h BY <1>3, <1>4, <1>9, <2>4, <3>1
        <3>2. CASE l # h
            <4>1. AccountBalanceAtHeightKey(a, l) \in DOMAIN m BY <1>6, <2>4, <3>2 DEF Agree
            <4>2. l \in 1..n /\ BlockAccountKey(l, a) \in DOMAIN m BY <4>1 DEF LaidOut
            <4> QED BY <1>6, <2>1, <3>2, <4>2 DEF Agree
        <3> QED BY <3>1, <3>2
    <2> QED BY <1>4, <1>8, <2>2, <2>3, <2>4 DEF LaidOut
<1>11. BalancesAt(e, h) = bals
    <2>1. {a \in Accounts : AccountBalanceAtHeightKey(a, h) \in DOMAIN e} = DOMAIN bals
        BY <1>2, <1>9
    <2> QED BY <1>2, <2>1 DEF BalancesAt
<1>12. ASSUME NEW l \in 1..n
       PROVE  e[ProcessedBlockKey(l)] = m[ProcessedBlockKey(l)] /\ BalancesAt(e, l) = BalancesAt(m, l)
    <2>1. l \in Heights /\ l # h BY <1>3, <1>4
    <2>2. ProcessedBlockKey(l) \in DOMAIN m BY <2>1 DEF LaidOut
    <2> QED BY <1>5, <1>6, <2>1, <2>2, SameBalancesAt DEF Agree
<1> DEFINE pm == [l \in 1..n |-> m[ProcessedBlockKey(l)]]
           pe == [l \in 1..h |-> e[ProcessedBlockKey(l)]]
           bm == [l \in 1..n |-> BalancesAt(m, l)]
           be == [l \in 1..h |-> BalancesAt(e, l)]
           P == {pe[l] : l \in 1..h}
           B == {be[l] : l \in 1..h}
<1>14. \A l \in 1..n : pe[l] = pm[l] /\ be[l] = bm[l]
    <2>1. \A l \in 1..n : l \in 1..h BY <1>3, <1>4
    <2> QED BY <1>12, <2>1
<1>15. pe[n + 1] = b /\ be[n + 1] = bals
    <2>1. n + 1 \in 1..h /\ n + 1 = h BY <1>3, <1>4
    <2> QED BY <1>11, <2>1
<1>16. Seen(m) = [processed |-> pm, balances |-> bm, utxos |-> UtxosOf(m)] BY SeenRead
<1>17. Seen(e) = [processed |-> pe, balances |-> be, utxos |-> UtxosOf(e)] BY <1>8, <1>10, SeenRead
<1>18. UtxosOf(e) = UtxosOf(m) BY <1>7, SameUtxos
<1>19. pm \in [1..n -> P] /\ pe \in [1..h -> P] /\ bm \in [1..n -> B] /\ be \in [1..h -> B]
    <2>1. \A l \in 1..n : l \in 1..h BY <1>3, <1>4
    <2>2. \A l \in 1..n : pm[l] \in P /\ bm[l] \in B
        <3> HIDE DEF pm, bm, pe, be
        <3> QED BY <1>14, <2>1
    <2> QED BY <2>2
<1> HIDE DEF pm, pe, bm, be, n, P, B
<1>20. pe \in [1..(n + 1) -> P] /\ be \in [1..(n + 1) -> B] BY <1>4, <1>19
<1>21. pe = Append(pm, pe[n + 1]) BY <1>3, <1>14, <1>19, <1>20, TableGrows
<1>22. be = Append(bm, be[n + 1]) BY <1>3, <1>14, <1>19, <1>20, TableGrows
<1> DEFINE pa == Append(pm, b)
           ba == Append(bm, bals)
<1>23. Seen(e) = [processed |-> pa, balances |-> ba, utxos |-> UtxosOf(m)]
    BY <1>15, <1>17, <1>18, <1>21, <1>22
<1> DEFINE d == Seen(m)
<1>24. d = [processed |-> pm, balances |-> bm, utxos |-> UtxosOf(m)] BY <1>16
<1>25. Append(d.processed, b) = pa /\ Append(d.balances, bals) = ba BY <1>24
<1>26. StoreBalances(d, b, bals) = [d EXCEPT !.processed = Append(d.processed, b),
                                             !.balances = Append(d.balances, bals)]
    BY DEF StoreBalances
<1> HIDE DEF pa, ba, d
<1>27. StoreBalances(d, b, bals) = [d EXCEPT !.processed = pa, !.balances = ba] BY <1>25, <1>26
<1>28. StoreBalances(d, b, bals) = [processed |-> pa, balances |-> ba, utxos |-> UtxosOf(m)]
    BY <1>24, <1>27, TwoFields
<1> QED BY <1>10, <1>23, <1>28 DEF d

\* RollbackTip: the tip and the balances recorded at its height are gone.  It
\* needs a block below the tip, and genesis is not stored.
LEMMA DropWrite ==
    ASSUME NEW m, LaidOut(m), NEW n, n = TipOf(m), n > 0, NEW e, DOMAIN e \subseteq Keys,
           FetchProcessedBlockHash(m, n - 1) # NoBlock,
           LastKey \in DOMAIN e, e[LastKey].height = n - 1,
           ProcessedBlockKey(n) \notin DOMAIN e,
           \A a \in Accounts : AccountBalanceAtHeightKey(a, n) \notin DOMAIN e,
           \A k \in Keys : \/ k \in {LastKey, ProcessedBlockKey(n)}
                           \/ \E a \in Accounts : k = AccountBalanceAtHeightKey(a, n)
                           \/ Agree(m, e, k)
    PROVE  LaidOut(e) /\ CanRollbackTip(Seen(m)) /\ Seen(e) = RollbackTip(Seen(m))
<1> DEFINE h == n - 1
<1>1. /\ \A l \in Heights : ProcessedBlockKey(l) \in Keys
      /\ \A a \in Accounts, l \in Heights :
            AccountBalanceAtHeightKey(a, l) \in Keys /\ BlockAccountKey(l, a) \in Keys
      /\ \A a \in Accounts, o \in Outpoints : AccountUtxoKey(a, o) \in Keys
    BY DEF Keys
<1>2. n \in Nat /\ n # 0 /\ 1..n \subseteq Heights /\ n \in Heights /\ LastHeight(Seen(m)) = n
    BY SeenRead DEF LaidOut
<1>3. n > 1
    <2>1. ProcessedBlockKey(0) \notin DOMAIN m
        <3>1. 0 \notin 1..n BY <1>2
        <3> QED BY <3>1, HeightsAreNat DEF LaidOut
    <2>2. CASE n = 1
        <3>1. n - 1 = 0 BY <2>2
        <3> QED BY <2>1, <3>1 DEF FetchProcessedBlockHash
    <2> QED BY <1>2, <2>2
<1>4. h \in Nat /\ h \in 1..n /\ h \in Heights /\ 1..h \subseteq 1..n /\ h + 1 = n BY <1>2, <1>3
<1>5. ASSUME NEW l \in Heights, l # n PROVE Agree(m, e, ProcessedBlockKey(l))
    <2>1. l \in Nat BY HeightsAreNat
    <2>2. ProcessedBlockKey(l) # ProcessedBlockKey(n) BY <1>2, <1>5, <2>1, BlockKeysDiffer
    <2> QED BY <1>1, <1>2, <2>1, <2>2, TablesDiffer
<1>6. ASSUME NEW l \in Heights, NEW a \in Accounts, l # n
      PROVE  Agree(m, e, AccountBalanceAtHeightKey(a, l))
    <2>1. l \in Nat BY HeightsAreNat
    <2>2. \A x \in Accounts : AccountBalanceAtHeightKey(a, l) # AccountBalanceAtHeightKey(x, n)
        BY <1>2, <1>6, <2>1, AccountKeysDiffer
    <2> QED BY <1>1, <1>2, <2>1, <2>2, TablesDiffer
<1>7. ASSUME NEW l \in Heights, NEW a \in Accounts PROVE Agree(m, e, BlockAccountKey(l, a))
    <2>1. l \in Nat BY HeightsAreNat
    <2> QED BY <1>1, <1>2, <2>1, TablesDiffer
<1>8. ASSUME NEW a \in Accounts, NEW o \in Outpoints PROVE Agree(m, e, AccountUtxoKey(a, o))
    BY <1>1, <1>2, TablesDiffer
<1>9. TipOf(e) = h BY DEF TipOf, FetchLastProcessedBlock
<1>10. \A l \in Heights : l \in 1..n <=> l \in 1..h \/ l = n BY <1>2, <1>4, HeightsAreNat
<1>11. n \notin 1..h BY <1>2
<1>12. LaidOut(e)
    <2>1. ASSUME NEW l \in Heights PROVE ProcessedBlockKey(l) \in DOMAIN e <=> l \in 1..h
        <3>1. CASE l = n BY <1>11, <3>1
        <3>2. CASE l # n
            <4>1. ProcessedBlockKey(l) \in DOMAIN m <=> l \in 1..n BY DEF LaidOut
            <4>2. ProcessedBlockKey(l) \in DOMAIN e <=> ProcessedBlockKey(l) \in DOMAIN m
                BY <1>5, <3>2 DEF Agree
            <4> QED BY <1>10, <3>2, <4>1, <4>2
        <3> QED BY <3>1, <3>2
    <2>2. ASSUME NEW l \in 1..h PROVE e[ProcessedBlockKey(l)] \in Blocks
        <3>1. l \in 1..n /\ l \in Heights /\ l # n BY <1>2, <1>4, <1>11
        <3>2. ProcessedBlockKey(l) \in DOMAIN m /\ m[ProcessedBlockKey(l)] \in Blocks BY <3>1 DEF LaidOut
        <3> QED BY <1>5, <3>1, <3>2 DEF Agree
    <2>3. ASSUME NEW a \in Accounts, NEW l \in Heights, AccountBalanceAtHeightKey(a, l) \in DOMAIN e
          PROVE  l \in 1..h /\ BlockAccountKey(l, a) \in DOMAIN e
        <3>1. l # n BY <2>3
        <3>2. AccountBalanceAtHeightKey(a, l) \in DOMAIN m BY <1>6, <2>3, <3>1 DEF Agree
        <3>3. l \in 1..n /\ BlockAccountKey(l, a) \in DOMAIN m BY <3>2 DEF LaidOut
        <3> QED BY <1>7, <1>10, <3>1, <3>3 DEF Agree
    <2> QED BY <1>4, <1>9, <2>1, <2>2, <2>3 DEF LaidOut
<1>13. ASSUME NEW l \in 1..h
       PROVE  e[ProcessedBlockKey(l)] = m[ProcessedBlockKey(l)] /\ BalancesAt(e, l) = BalancesAt(m, l)
    <2>1. l \in 1..n /\ l \in Heights /\ l # n BY <1>2, <1>4, <1>11
    <2>2. ProcessedBlockKey(l) \in DOMAIN m BY <2>1 DEF LaidOut
    <2> QED BY <1>5, <1>6, <2>1, <2>2, SameBalancesAt DEF Agree
<1> DEFINE pm == [l \in 1..n |-> m[ProcessedBlockKey(l)]]
           pe == [l \in 1..h |-> e[ProcessedBlockKey(l)]]
           bm == [l \in 1..n |-> BalancesAt(m, l)]
           be == [l \in 1..h |-> BalancesAt(e, l)]
           P == {pm[l] : l \in 1..n}
           B == {bm[l] : l \in 1..n}
<1>14. \A l \in 1..h : pe[l] = pm[l] /\ be[l] = bm[l] BY <1>4, <1>13
<1>15. pm \in [1..n -> P] /\ pe \in [1..h -> P] /\ bm \in [1..n -> B] /\ be \in [1..h -> B]
    <2>1. \A l \in 1..h : pe[l] \in P /\ be[l] \in B
        <3> HIDE DEF pm, bm, pe, be
        <3> QED BY <1>4, <1>14
    <2> QED BY <2>1
<1>16. Seen(m) = [processed |-> pm, balances |-> bm, utxos |-> UtxosOf(m)] BY SeenRead
<1>17. Seen(e) = [processed |-> pe, balances |-> be, utxos |-> UtxosOf(e)] BY <1>9, <1>12, SeenRead
<1>18. UtxosOf(e) = UtxosOf(m) BY <1>8, SameUtxos
<1> HIDE DEF pm, pe, bm, be, P, B
<1>19. Len(pm) = n /\ pe = SubSeq(pm, 1, n - 1) BY <1>2, <1>14, <1>15, TableShrinks
<1>20. Len(bm) = n /\ be = SubSeq(bm, 1, n - 1) BY <1>2, <1>14, <1>15, TableShrinks
<1> DEFINE d == Seen(m)
<1>21. d.processed = pm /\ d.balances = bm BY <1>16
<1>22. RollbackTip(d) = [d EXCEPT !.processed = SubSeq(d.processed, 1, Len(d.processed) - 1),
                                  !.balances = SubSeq(d.balances, 1, Len(d.balances) - 1)]
    BY DEF RollbackTip
<1> HIDE DEF d
<1>23. /\ SubSeq(d.processed, 1, Len(d.processed) - 1) = pe
       /\ SubSeq(d.balances, 1, Len(d.balances) - 1) = be
    BY <1>19, <1>20, <1>21
<1>24. RollbackTip(d) = [d EXCEPT !.processed = pe, !.balances = be] BY <1>22, <1>23
<1>25. d = [processed |-> pm, balances |-> bm, utxos |-> UtxosOf(m)] BY <1>16 DEF d
<1>26. RollbackTip(d) = [processed |-> pe, balances |-> be, utxos |-> UtxosOf(m)]
    BY <1>24, <1>25, TwoFields
<1>27. CanRollbackTip(d) BY <1>2, <1>3 DEF CanRollbackTip, d
<1> QED BY <1>12, <1>17, <1>18, <1>26, <1>27 DEF d

\* A new store is laid out and shows an empty database.
LEMMA EmptyMap == LaidOut(<< >>) /\ Seen(<< >>) = EmptyDb
<1> DEFINE m == << >>
<1>1. DOMAIN m = {} OBVIOUS
<1> HIDE DEF m
<1>2. TipOf(m) = 0 BY <1>1 DEF TipOf, FetchLastProcessedBlock
<1>3. 0 \in Heights /\ 1..0 = {} BY HeightsAreNat
<1>4. LaidOut(m) BY <1>1, <1>2, <1>3 DEF LaidOut
<1>5. Seen(m) = [processed |-> [h \in 1..0 |-> m[ProcessedBlockKey(h)]],
                 balances  |-> [h \in 1..0 |-> BalancesAt(m, h)],
                 utxos     |-> UtxosOf(m)]
    BY <1>2, <1>4, SeenRead
<1>6. {c \in Coin : AccountUtxoKey(c[1], c[2]) \in DOMAIN m} = {} BY <1>1
<1>7. UtxosOf(m) = << >> BY <1>6 DEF UtxosOf
<1>8. [h \in 1..0 |-> m[ProcessedBlockKey(h)]] = << >> BY <1>3
<1>9. [h \in 1..0 |-> BalancesAt(m, h)] = << >> BY <1>3
<1> QED BY <1>4, <1>5, <1>7, <1>8, <1>9 DEF EmptyDb, m

-----------------------------------------------------------------------------
(* The inductive invariant.                                                *)

UpdTypes == upd \in [kind : {"none", "connect", "rollback"}, calls : Nat, tips : BOOLEAN]

\* Both maps are laid out, whatever the open transaction has done so far.
BadgerInv == UpdTypes /\ LaidOut(kv) /\ LaidOut(txn)

\* BadgerAddUtxo writes as AddUtxo does.
LEMMA AddStep ==
    ASSUME LaidOut(txn), NEW c \in Coins, BadgerAddUtxo(c[1], c[2])
    PROVE  /\ LaidOut(txn') /\ UNCHANGED kv /\ UtxoCall(TipOf(txn))
           /\ Seen(txn') = [Seen(txn) EXCEPT !.utxos = AddUtxo(@, c, Amount(c[2]))]
<1> DEFINE K == AccountUtxoKey(c[1], c[2])
           puts == [k \in {K} |-> Amount(c[2])]
<1>1. c[1] \in Accounts /\ c[2] \in Outpoints /\ c = <<c[1], c[2]>> BY UpdatesAssumption DEF Coin
<1>2. Write(puts, {}) /\ UtxoCall(TipOf(txn)) BY DEF BadgerAddUtxo, TipOf
<1>3. txn' = [k \in (DOMAIN txn \ {}) \cup DOMAIN puts |-> IF k \in DOMAIN puts THEN puts[k] ELSE txn[k]]
      /\ UNCHANGED kv
    BY <1>2 DEF Write
<1> HIDE DEF K
<1>4. txn' = [k \in DOMAIN txn \cup {K} |-> IF k = K THEN Amount(c[2]) ELSE txn[k]]
    <2>1. DOMAIN puts = {K} /\ puts[K] = Amount(c[2]) /\ DOMAIN txn \ {} = DOMAIN txn OBVIOUS
    <2> HIDE DEF puts
    <2> QED BY <1>3, <2>1
<1>5. LaidOut(txn') /\ Seen(txn') = [Seen(txn) EXCEPT !.utxos = AddUtxo(@, <<c[1], c[2]>>, Amount(c[2]))]
    BY <1>1, <1>4, AddWrite DEF K
<1> QED BY <1>1, <1>2, <1>3, <1>5

\* BadgerDelUtxo writes as DelUtxo does.
LEMMA DelStep ==
    ASSUME LaidOut(txn), NEW c \in Coins, BadgerDelUtxo(c[1], c[2])
    PROVE  /\ LaidOut(txn') /\ UNCHANGED kv /\ UtxoCall(TipOf(txn))
           /\ Seen(txn') = [Seen(txn) EXCEPT !.utxos = DelUtxo(@, c)]
<1> DEFINE K == AccountUtxoKey(c[1], c[2])
           puts == << >>
<1>1. c[1] \in Accounts /\ c[2] \in Outpoints /\ c = <<c[1], c[2]>> BY UpdatesAssumption DEF Coin
<1>2. Write(puts, {K}) /\ UtxoCall(TipOf(txn)) BY DEF BadgerDelUtxo, TipOf
<1>3. txn' = [k \in (DOMAIN txn \ {K}) \cup DOMAIN puts |-> IF k \in DOMAIN puts THEN puts[k] ELSE txn[k]]
      /\ UNCHANGED kv
    BY <1>2 DEF Write
<1> HIDE DEF K
<1>4. txn' = [k \in DOMAIN txn \ {K} |-> txn[k]]
    <2>1. DOMAIN puts = {} /\ (DOMAIN txn \ {K}) \cup {} = DOMAIN txn \ {K} OBVIOUS
    <2> HIDE DEF puts
    <2> QED BY <1>3, <2>1
<1>5. LaidOut(txn') /\ Seen(txn') = [Seen(txn) EXCEPT !.utxos = DelUtxo(@, <<c[1], c[2]>>)]
    BY <1>1, <1>4, DelWrite DEF K
<1> QED BY <1>1, <1>2, <1>3, <1>5

\* BadgerStoreBalances writes as StoreBalances does.
LEMMA StoreStep ==
    ASSUME LaidOut(txn), NEW b \in Blocks \ {Genesis}, NEW bals \in BalanceMaps,
           BadgerStoreBalances(b, bals)
    PROVE  /\ LaidOut(txn') /\ UNCHANGED kv /\ StoreCall /\ Height[b] = TipOf(txn) + 1
           /\ Seen(txn') = StoreBalances(Seen(txn), b, bals)
<1> DEFINE h == Height[b]
           act(a) == AccountBalanceAtHeightKey(a, h)
           bac(a) == BlockAccountKey(h, a)
           acts == {act(a) : a \in DOMAIN bals}
           bacs == {bac(a) : a \in DOMAIN bals}
           D == acts \cup bacs \cup {ProcessedBlockKey(h), LastKey}
           puts == [k \in D |->
                      CASE k \in acts -> bals[CHOOSE a \in DOMAIN bals : k = act(a)]
                        [] k \in bacs -> "nil"
                        [] k = ProcessedBlockKey(h) -> b
                        [] k = LastKey -> [hash |-> b, height |-> h]]
<1>1. IsPartialFcn(bals, Accounts, Int) /\ DOMAIN bals \subseteq Accounts
    BY UpdatesAssumption DEF IsPartialFcn
<1>2. Write(puts, {}) /\ StoreCall /\ h = TipOf(txn) + 1 BY DEF BadgerStoreBalances, TipOf
<1>3. h \in Nat /\ h \in Heights
    <2>1. h \in Nat BY BlockTreeAssumption
    <2>2. h < Base * Base BY BadgerAssumption
    <2>3. Base * Base \in Nat
        <3>1. Base \in Nat BY BadgerAssumption
        <3> QED BY <3>1
    <2> QED BY <2>1, <2>2, <2>3 DEF Heights
<1>4. /\ \A a \in DOMAIN bals : /\ act(a) # ProcessedBlockKey(h) /\ act(a) # LastKey
                                /\ bac(a) # ProcessedBlockKey(h) /\ bac(a) # LastKey
      /\ \A a, x \in DOMAIN bals : act(a) # bac(x)
      /\ \A a, x \in DOMAIN bals : act(a) = act(x) => a = x
      /\ LastKey # ProcessedBlockKey(h)
    BY <1>1, <1>3, TablesDiffer, AccountKeysDiffer
<1>5. D \subseteq Keys BY <1>1, <1>3 DEF Keys
<1>6. txn' = [k \in (DOMAIN txn \ {}) \cup DOMAIN puts |-> IF k \in DOMAIN puts THEN puts[k] ELSE txn[k]]
      /\ UNCHANGED kv
    BY <1>2 DEF Write
<1> HIDE DEF act, bac, h
<1>7. DOMAIN puts = D OBVIOUS
<1>8. puts[LastKey] = [hash |-> b, height |-> h]
    <2>1. LastKey \in D /\ LastKey \notin acts /\ LastKey \notin bacs BY <1>4
    <2> HIDE DEF D, acts, bacs
    <2> QED BY <1>4, <2>1
<1>9. puts[ProcessedBlockKey(h)] = b
    <2>1. ProcessedBlockKey(h) \in D /\ ProcessedBlockKey(h) \notin acts /\ ProcessedBlockKey(h) \notin bacs
        BY <1>4
    <2> HIDE DEF D, acts, bacs
    <2> QED BY <1>4, <2>1
<1>10. ASSUME NEW a \in DOMAIN bals PROVE puts[act(a)] = bals[a]
    <2>1. act(a) \in D /\ act(a) \in acts /\ act(a) \notin bacs BY <1>4
    <2>2. (CHOOSE x \in DOMAIN bals : act(a) = act(x)) = a BY <1>4
    <2>3. act(a) # ProcessedBlockKey(h) /\ act(a) # LastKey BY <1>4
    <2> HIDE DEF D, acts, bacs
    <2> QED BY <2>1, <2>2, <2>3
<1>11. DOMAIN txn' = DOMAIN txn \cup D /\ \A k \in DOMAIN txn' : txn'[k] = IF k \in D THEN puts[k] ELSE txn[k]
    <2> HIDE DEF D, puts
    <2> QED BY <1>6, <1>7
<1> DEFINE e == txn'
<1> HIDE DEF puts, e
<1>12. DOMAIN e \subseteq Keys BY <1>5, <1>11 DEF LaidOut, e
<1>13. LastKey \in DOMAIN e /\ e[LastKey].height = h BY <1>8, <1>11 DEF e
<1>14. ProcessedBlockKey(h) \in DOMAIN e /\ e[ProcessedBlockKey(h)] = b BY <1>9, <1>11 DEF e
<1>15. \A a \in DOMAIN bals : act(a) \in DOMAIN e /\ e[act(a)] = bals[a] /\ bac(a) \in DOMAIN e
    BY <1>10, <1>11 DEF e
<1>16. \A k \in Keys : \/ k \in {LastKey, ProcessedBlockKey(h)}
                       \/ \E a \in DOMAIN bals : k = act(a)
                       \/ \E a \in DOMAIN bals : k = bac(a)
                       \/ Agree(txn, e, k)
    BY <1>11 DEF e, Agree
<1>17. LaidOut(e) /\ Seen(e) = StoreBalances(Seen(txn), b, bals)
    <2>1. h = Height[b] BY DEF h
    <2> HIDE DEF D, acts, bacs
    <2> QED BY <1>1, <1>2, <1>12, <1>13, <1>14, <1>15, <1>16, <2>1, StoreWrite DEF act, bac
<1> QED BY <1>2, <1>6, <1>17 DEF e, h

\* BadgerRollbackTip finds every balance recorded at the tip through the list of
\* its accounts, and writes as RollbackTip does.
LEMMA DropStep ==
    ASSUME LaidOut(txn), BadgerRollbackTip
    PROVE  /\ LaidOut(txn') /\ UNCHANGED kv /\ RollbackCall /\ CanRollbackTip(Seen(txn))
           /\ Seen(txn') = RollbackTip(Seen(txn))
<1> DEFINE n == TipOf(txn)
           prev == FetchProcessedBlockHash(txn, n - 1)
           act(a) == AccountBalanceAtHeightKey(a, n)
           gone == {act(a) : a \in FetchBlockAccounts(txn, n)}
           puts == [k \in {LastKey} |-> [hash |-> prev, height |-> n - 1]]
           dels == gone \cup {ProcessedBlockKey(n)}
           e == txn'
<1>1. Write(puts, dels) /\ RollbackCall /\ n > 0 /\ prev # NoBlock BY DEF BadgerRollbackTip, TipOf
<1>2. n \in Nat /\ n \in Heights BY SeenRead DEF LaidOut
<1>3. gone = {act(a) : a \in {a \in Accounts : BlockAccountKey(n, a) \in DOMAIN txn}}
    <2>1. FetchBlockAccounts(txn, n) = {a \in Accounts : BlockAccountKey(n, a) \in DOMAIN txn}
        BY <1>2, AccountsRead
    <2> QED BY <2>1
<1>4. LastKey # ProcessedBlockKey(n) /\ \A a \in Accounts : act(a) # LastKey /\ act(a) # ProcessedBlockKey(n)
    BY <1>2, TablesDiffer
<1>5. e = [k \in (DOMAIN txn \ dels) \cup DOMAIN puts |-> IF k \in DOMAIN puts THEN puts[k] ELSE txn[k]]
      /\ UNCHANGED kv
    BY <1>1 DEF Write
<1>6. \A a \in Accounts : act(a) \in DOMAIN txn => act(a) \in gone
    BY <1>2, <1>3 DEF LaidOut
<1>7. LastKey \in Keys BY DEF Keys
<1>8. DOMAIN puts = {LastKey} /\ puts[LastKey].height = n - 1 OBVIOUS
<1> HIDE DEF puts, dels, act, gone, prev, n
<1>9. /\ DOMAIN e = (DOMAIN txn \ dels) \cup {LastKey}
      /\ \A k \in DOMAIN e : k # LastKey => e[k] = txn[k]
      /\ e[LastKey] = puts[LastKey]
    BY <1>5, <1>8
<1> HIDE DEF e
<1>10. DOMAIN e \subseteq Keys BY <1>7, <1>9 DEF LaidOut
<1>11. ProcessedBlockKey(n) \notin DOMAIN e BY <1>4, <1>9 DEF dels
<1>12. \A a \in Accounts : act(a) \notin DOMAIN e BY <1>4, <1>6, <1>9 DEF dels
<1>13. \A k \in Keys : \/ k \in {LastKey, ProcessedBlockKey(n)}
                       \/ \E a \in Accounts : k = act(a)
                       \/ Agree(txn, e, k)
    BY <1>3, <1>9 DEF dels, Agree
<1>14. LaidOut(e) /\ CanRollbackTip(Seen(txn)) /\ Seen(e) = RollbackTip(Seen(txn))
    <2>1. n = TipOf(txn) BY DEF n
    <2>2. FetchProcessedBlockHash(txn, n - 1) # NoBlock BY <1>1 DEF prev
    <2>3. LastKey \in DOMAIN e /\ e[LastKey].height = n - 1 BY <1>8, <1>9
    <2> QED BY <1>1, <1>10, <1>11, <1>12, <1>13, <2>1, <2>2, <2>3, DropWrite DEF act
<1> QED BY <1>1, <1>5, <1>14 DEF e

\* Every step keeps the invariant.
LEMMA BadgerNext ==
    ASSUME BadgerInv, [Next]_vars
    PROVE  BadgerInv'
<1> USE DEF BadgerInv
<1>1. CASE Begin
    <2>1. PICK k \in {"connect", "rollback"} : upd' = [NoUpdate EXCEPT !.kind = k]
        BY <1>1 DEF Begin, BeginCall
    <2>2. UpdTypes' BY <2>1 DEF NoUpdate, UpdTypes
    <2> QED BY <1>1, <2>2 DEF Begin
<1>2. CASE BadgerRollbackTip
    <2>1. UpdTypes' BY <1>2 DEF BadgerRollbackTip, RollbackCall, UpdTypes
    <2> QED BY <1>2, <2>1, DropStep
<1>3. CASE Commit
    BY <1>3, EmptyMap DEF Commit, CommitCall, NoUpdate, UpdTypes
<1>4. CASE Abort
    BY <1>4, EmptyMap DEF Abort, AbortCall, NoUpdate, UpdTypes
<1>5. ASSUME NEW c \in Coins, BadgerAddUtxo(c[1], c[2]) PROVE BadgerInv'
    <2>1. LaidOut(txn') /\ UNCHANGED kv /\ UtxoCall(TipOf(txn)) BY <1>5, AddStep
    <2>2. UpdTypes' BY <2>1 DEF UtxoCall, UpdTypes
    <2> QED BY <2>1, <2>2
<1>6. ASSUME NEW c \in Coins, BadgerDelUtxo(c[1], c[2]) PROVE BadgerInv'
    <2>1. LaidOut(txn') /\ UNCHANGED kv /\ UtxoCall(TipOf(txn)) BY <1>6, DelStep
    <2>2. UpdTypes' BY <2>1 DEF UtxoCall, UpdTypes
    <2> QED BY <2>1, <2>2
<1>7. ASSUME NEW b \in Blocks \ {Genesis}, NEW bals \in BalanceMaps, BadgerStoreBalances(b, bals)
      PROVE  BadgerInv'
    <2>1. LaidOut(txn') /\ UNCHANGED kv /\ StoreCall BY <1>7, StoreStep
    <2>2. UpdTypes' BY <2>1 DEF StoreCall, UpdTypes
    <2> QED BY <2>1, <2>2
<1>8. CASE UNCHANGED vars
    BY <1>8 DEF vars, UpdTypes
<1> QED BY <1>1, <1>2, <1>3, <1>4, <1>5, <1>6, <1>7, <1>8 DEF Next

\* The invariant holds throughout.
LEMMA AlwaysBadger == Spec => []BadgerInv
<1>1. Init => BadgerInv
    BY EmptyMap DEF Init, BadgerInv, UpdTypes, NoUpdate
<1>2. BadgerInv /\ [Next]_vars => BadgerInv' BY BadgerNext
<1> QED BY <1>1, <1>2, PTL DEF Spec

\* RollbackTip misses no balance: every recorded balance is at or below the tip
\* and listed under its height, through rollbacks that leave lists behind.
THEOREM ListedTheorem == Spec => []RecordedIsListed
<1>1. BadgerInv => RecordedIsListed
    <2> SUFFICES ASSUME BadgerInv, NEW a \in Accounts, NEW h \in 1..(Base * Base - 1),
                        AccountBalanceAtHeightKey(a, h) \in DOMAIN kv
                 PROVE  h <= TipOf(kv) /\ a \in FetchBlockAccounts(kv, h)
        BY DEF RecordedIsListed, TipOf
    <2>1. LaidOut(kv) BY DEF BadgerInv
    <2>2. h \in Heights
        <3>1. Base * Base \in Nat
            <4>1. Base \in Nat BY BadgerAssumption
            <4> QED BY <4>1
        <3> QED BY <3>1 DEF Heights
    <2>3. h \in 1..TipOf(kv) /\ BlockAccountKey(h, a) \in DOMAIN kv BY <2>1, <2>2 DEF LaidOut
    <2>4. TipOf(kv) \in Nat BY <2>1, SeenRead
    <2> QED BY <2>1, <2>2, <2>3, <2>4, AccountsRead
<1> QED BY <1>1, AlwaysBadger, PTL

\* The reverse iteration of fetchAccountBalanceAt answers the latest balance of
\* the account itself, for any accounts, any height and any byte size: keys of
\* accounts that only start with it are never the first one found.
THEOREM LatestTheorem == Spec => []BadgerBalanceIsLatest
<1>1. BadgerInv => BadgerBalanceIsLatest
    <2> SUFFICES ASSUME BadgerInv, NEW m \in {kv, txn}, NEW a \in Accounts, NEW h \in 0..(TipOf(m) + 1)
                 PROVE  FetchAccountBalanceAt(m, a, h) = Balance(Seen(m), a, h)
        BY DEF BadgerBalanceIsLatest, TipOf
    <2>1. LaidOut(m) BY DEF BadgerInv
    <2>2. TipOf(m) \in Nat BY <2>1, SeenRead
    <2>3. h \in Nat BY <2>2
    <2> QED BY <2>1, <2>3, BalanceRead
<1> QED BY <1>1, AlwaysBadger, PTL

-----------------------------------------------------------------------------
(* The refinement.                                                         *)

\* The copy an open Update works on.
Working == IF upd.kind = "none" THEN EmptyDb ELSE Seen(txn)

\* The Badger store implements the contract of backenddb.DB: what its reads see
\* of the committed map and of the open transaction changes as Store says.
THEOREM ContractTheorem == Spec => BadgerKeepsContract
<1>1. Init => Promised!Init
    BY EmptyMap DEF Init, Promised!Init, Promised!EmptyDb, EmptyDb, Promised!NoUpdate, NoUpdate
<1>2. ASSUME BadgerInv, BadgerInv', [Next]_vars PROVE [Promised!Next]_(Promised!vars)
    <2>1. UpdTypes /\ LaidOut(kv) /\ LaidOut(txn) BY <1>2 DEF BadgerInv
    <2>2. LastHeight(Seen(txn)) = TipOf(txn) BY <2>1, SeenRead
    <2>3. CASE Begin
        <3>1. upd'.kind # "none" /\ txn' = kv /\ kv' = kv BY <2>3 DEF Begin, BeginCall, NoUpdate
        <3>2. Working' = Seen(kv) /\ Seen(kv)' = Seen(kv) BY <3>1 DEF Working
        <3>3. Promised!Begin
            BY <2>3, <3>2 DEF Begin, Promised!Begin, BeginCall, Promised!BeginCall, NoUpdate,
                              Promised!NoUpdate, Working, EmptyDb, Promised!EmptyDb
        <3> QED BY <3>3 DEF Promised!Next
    <2>4. CASE Commit
        <3>1. upd.kind # "none" /\ upd'.kind = "none" /\ kv' = txn
            BY <2>4 DEF Commit, CommitCall, NoUpdate
        <3>2. Working' = EmptyDb /\ Working = Seen(txn) /\ Seen(kv)' = Seen(txn) BY <3>1 DEF Working
        <3>3. Promised!Commit
            BY <2>4, <3>2 DEF Commit, Promised!Commit, CommitCall, Promised!CommitCall, NoUpdate,
                              Promised!NoUpdate, Working, EmptyDb, Promised!EmptyDb
        <3> QED BY <3>3 DEF Promised!Next
    <2>5. CASE Abort
        <3>1. upd'.kind = "none" /\ kv' = kv BY <2>5 DEF Abort, AbortCall, NoUpdate
        <3>2. Working' = EmptyDb /\ Seen(kv)' = Seen(kv) BY <3>1 DEF Working
        <3>3. Promised!Abort
            BY <2>5, <3>2 DEF Abort, Promised!Abort, AbortCall, Promised!AbortCall, NoUpdate,
                              Promised!NoUpdate, Working, EmptyDb, Promised!EmptyDb
        <3> QED BY <3>3 DEF Promised!Next
    <2>6. CASE BadgerRollbackTip
        <3>1. /\ kv' = kv /\ RollbackCall /\ CanRollbackTip(Seen(txn))
              /\ Seen(txn') = RollbackTip(Seen(txn))
            BY <2>1, <2>6, DropStep
        <3>2. upd.kind # "none" /\ upd'.kind # "none" BY <2>1, <3>1 DEF RollbackCall, UpdTypes
        <3>3. Working = Seen(txn) /\ Working' = Seen(txn') /\ Seen(kv)' = Seen(kv) BY <3>1, <3>2 DEF Working
        <3>4. Promised!DropTip
            BY <3>1, <3>3 DEF Promised!DropTip, RollbackCall, Promised!RollbackCall, Working,
                    RollbackTip, Promised!RollbackTip, CanRollbackTip, Promised!CanRollbackTip,
                    LastHeight, Promised!LastHeight, EmptyDb, Promised!EmptyDb
        <3> QED BY <3>4 DEF Promised!Next
    <2>7. ASSUME NEW c \in Coins, BadgerAddUtxo(c[1], c[2]) PROVE Promised!Next
        <3>1. /\ kv' = kv /\ UtxoCall(TipOf(txn))
              /\ Seen(txn') = [Seen(txn) EXCEPT !.utxos = AddUtxo(@, c, Amount(c[2]))]
            BY <2>1, <2>7, AddStep
        <3>2. upd.kind # "none" /\ upd'.kind # "none" BY <2>1, <3>1 DEF UtxoCall, UpdTypes
        <3>3. Working = Seen(txn) /\ Working' = Seen(txn') /\ Seen(kv)' = Seen(kv) BY <3>1, <3>2 DEF Working
        <3>4. Promised!Add(c)
            BY <2>2, <3>1, <3>3 DEF Promised!Add, UtxoCall, Promised!UtxoCall, Working,
                    AddUtxo, Promised!AddUtxo, LastHeight, Promised!LastHeight, EmptyDb, Promised!EmptyDb
        <3> QED BY <3>4 DEF Promised!Next
    <2>8. ASSUME NEW c \in Coins, BadgerDelUtxo(c[1], c[2]) PROVE Promised!Next
        <3>1. /\ kv' = kv /\ UtxoCall(TipOf(txn))
              /\ Seen(txn') = [Seen(txn) EXCEPT !.utxos = DelUtxo(@, c)]
            BY <2>1, <2>8, DelStep
        <3>2. upd.kind # "none" /\ upd'.kind # "none" BY <2>1, <3>1 DEF UtxoCall, UpdTypes
        <3>3. Working = Seen(txn) /\ Working' = Seen(txn') /\ Seen(kv)' = Seen(kv) BY <3>1, <3>2 DEF Working
        <3>4. Promised!Del(c)
            BY <2>2, <3>1, <3>3 DEF Promised!Del, UtxoCall, Promised!UtxoCall, Working,
                    DelUtxo, Promised!DelUtxo, LastHeight, Promised!LastHeight, EmptyDb, Promised!EmptyDb
        <3> QED BY <3>4 DEF Promised!Next
    <2>9. ASSUME NEW b \in Blocks \ {Genesis}, NEW bals \in BalanceMaps, BadgerStoreBalances(b, bals)
          PROVE  Promised!Next
        <3>1. /\ kv' = kv /\ StoreCall /\ Height[b] = TipOf(txn) + 1
              /\ Seen(txn') = StoreBalances(Seen(txn), b, bals)
            BY <2>1, <2>9, StoreStep
        <3>2. upd.kind # "none" /\ upd'.kind # "none" BY <2>1, <3>1 DEF StoreCall, UpdTypes
        <3>3. Working = Seen(txn) /\ Working' = Seen(txn') /\ Seen(kv)' = Seen(kv) BY <3>1, <3>2 DEF Working
        <3>4. Promised!StoreBlock(b, bals)
            BY <2>2, <3>1, <3>3 DEF Promised!StoreBlock, StoreCall, Promised!StoreCall, Working,
                    StoreBalances, Promised!StoreBalances, LastHeight, Promised!LastHeight,
                    EmptyDb, Promised!EmptyDb
        <3> QED BY <3>4 DEF Promised!Next
    <2>10. CASE UNCHANGED vars
        BY <2>10 DEF vars, Promised!vars, EmptyDb
    <2> QED BY <1>2, <2>3, <2>4, <2>5, <2>6, <2>7, <2>8, <2>9, <2>10 DEF Next
<1>3. BadgerInv /\ BadgerInv' /\ [Next]_vars => [Promised!Next]_(Promised!vars)
    BY <1>2
<1> QED BY <1>1, <1>3, AlwaysBadger, PTL DEF Spec, BadgerKeepsContract, Promised!Spec

=============================================================================
