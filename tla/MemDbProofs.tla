----------------------------- MODULE MemDbProofs ------------------------------
(***************************************************************************)
(* The memory store, for any accounts, outputs and blocks, any limit of    *)
(* the slice of a few and Updates of any length.                           *)
(*                                                                         *)
(* First the balances: reads are exact, late failures included.  Then the  *)
(* buckets: an account is in one of four states, and commits add and       *)
(* remove exactly what the journal says.  Last the contract: every step is *)
(* the step of backenddb.DB on what the reads see.                         *)
(***************************************************************************)
EXTENDS MemDb, Iteration, SequenceTheorems

Entry == [height : Nat, balance : Int]

\* A balance history: heights grow strictly, and none is above top.
History(s, top) ==
    /\ s \in Seq(Entry)
    /\ \A i \in DOMAIN s : s[i].height \in 1..top
    /\ \A i, j \in DOMAIN s : i < j => s[i].height < s[j].height

\* The latest entry of the set E at or below height h.
IsLatest(E, h, e) ==
    /\ e \in E /\ e.height <= h
    /\ \A x \in E : x.height <= h => x.height <= e.height

NoneUpTo(E, h) == \A x \in E : ~(x.height <= h)

\* What MemBalance answers from one slice.
Found(s, h) ==
    LET i == SearchHeight(s, h)
    IN  IF i <= Len(s) /\ s[i].height = h THEN s[i].balance
        ELSE IF i = 1 THEN 0 ELSE s[i - 1].balance

-----------------------------------------------------------------------------
(* The binary search.                                                      *)

\* The position sort.Search returns: everything before it is below the height.
Splits(s, h, m) ==
    /\ m \in 1 .. Len(s) + 1
    /\ m <= Len(s) => s[m].height >= h
    /\ \A j \in DOMAIN s : j < m => s[j].height < h

\* The binary search of Balance splits a history at height h.
LEMMA SearchSplits ==
    ASSUME NEW s, NEW top, History(s, top), NEW h \in Nat
    PROVE  Splits(s, h, SearchHeight(s, h))
<1> DEFINE n == Len(s)
           S == {i \in DOMAIN s : s[i].height >= h} \cup {n + 1}
           m == Min(S)
<1>1. n \in Nat /\ DOMAIN s = 1..n /\ \A i \in 1..n : s[i].height \in Nat
    BY DEF History, Entry
<1>2. S \in SUBSET Nat /\ S # {} /\ S \subseteq 1 .. n + 1 BY <1>1
<1> HIDE DEF n
<1>3. m \in S /\ \A k \in S : m <= k
    <2> HIDE DEF S
    <2>1. \E x \in S : \A k \in S : x <= k BY <1>2, LeastNat
    <2> QED BY <2>1 DEF Min
<1>4. SearchHeight(s, h) = m BY DEF SearchHeight, n
<1> HIDE DEF m
<1>5. ASSUME NEW j \in 1..n, j < m PROVE s[j].height < h
    <2>1. j \notin S BY <1>1, <1>2, <1>3, <1>5
    <2>2. ~(s[j].height >= h) BY <1>1, <2>1
    <2> QED BY <1>1, <2>2
<1>6. m <= n => s[m].height >= h
    <2>1. m \in Nat BY <1>2, <1>3
    <2> QED BY <1>1, <1>3, <2>1
<1>7. m \in 1 .. n + 1 BY <1>2, <1>3
<1> QED BY <1>1, <1>4, <1>5, <1>6, <1>7 DEF Splits, n

\* The search finds the latest entry at or below the height, or none.
LEMMA FoundIsLatest ==
    ASSUME NEW s, NEW top, History(s, top), NEW h \in Nat, NEW e, IsLatest(Range(s), h, e)
    PROVE  Found(s, h) = e.balance
<1> DEFINE n == Len(s)
           m == SearchHeight(s, h)
<1>1. /\ n \in Nat /\ DOMAIN s = 1..n /\ \A i \in 1..n : s[i].height \in Nat
      /\ \A i, j \in 1..n : i < j => s[i].height < s[j].height
    <2>1. s \in Seq(Entry) /\ \A i, j \in DOMAIN s : i < j => s[i].height < s[j].height
        BY DEF History
    <2>2. n \in Nat /\ DOMAIN s = 1..n /\ \A i \in 1..n : s[i] \in Entry BY <2>1
    <2>3. \A i \in 1..n : s[i].height \in Nat BY <2>2 DEF Entry
    <2> HIDE DEF n
    <2> QED BY <2>1, <2>2, <2>3
<1>2. /\ m \in 1 .. n + 1
      /\ m <= n => s[m].height >= h
      /\ \A j \in 1..n : j < m => s[j].height < h
    BY <1>1, SearchSplits DEF Splits
<1>3. PICK i \in 1..n : e = s[i] BY <1>1 DEF IsLatest, Range
<1>4. /\ s[i].height <= h
      /\ \A k \in 1..n : s[k].height <= h => s[k].height <= s[i].height
    BY <1>1, <1>3 DEF IsLatest, Range
<1>5. Found(s, h) = IF m <= n /\ s[m].height = h THEN s[m].balance
                    ELSE IF m = 1 THEN 0 ELSE s[m - 1].balance
    BY DEF Found
<1> HIDE DEF m, n
<1>6. CASE m <= n /\ s[m].height = h
    <2>1. m \in 1..n BY <1>2, <1>6
    <2>2. s[m].height <= s[i].height BY <1>1, <1>4, <1>6, <2>1
    <2>3. m = i BY <1>1, <1>4, <1>6, <2>1, <2>2
    <2> QED BY <1>3, <1>5, <1>6, <2>3
<1>7. CASE ~(m <= n /\ s[m].height = h)
    <2>1. i < m
        <3> SUFFICES ASSUME m <= i PROVE FALSE BY <1>2
        <3>1. m \in 1..n /\ s[m].height > h BY <1>1, <1>2, <1>7
        <3>2. s[m].height <= s[i].height
            <4>1. CASE m = i BY <1>1, <4>1
            <4>2. CASE m < i BY <1>1, <3>1, <4>2
            <4> QED BY <3>1, <4>1, <4>2
        <3>3. s[m].height \in Nat /\ s[i].height \in Nat BY <1>1, <3>1
        <3> QED BY <1>4, <3>1, <3>2, <3>3
    <2>2. m - 1 \in 1..n /\ m # 1 BY <1>1, <1>2, <2>1
    <2>3. s[m - 1].height < h BY <1>2, <2>2
    <2>4. s[m - 1].height <= s[i].height BY <1>1, <1>4, <2>2, <2>3
    <2>5. m - 1 = i
        <3> SUFFICES ASSUME m - 1 # i PROVE FALSE OBVIOUS
        <3> DEFINE k == m - 1
        <3>1. k \in 1..n /\ i < k BY <1>2, <2>1, <2>2
        <3>2. s[k].height <= s[i].height BY <2>4
        <3> HIDE DEF k
        <3>3. s[i].height < s[k].height BY <1>1, <3>1
        <3>4. s[i].height \in Nat /\ s[k].height \in Nat BY <1>1, <3>1
        <3> QED BY <3>2, <3>3, <3>4
    <2> QED BY <1>3, <1>5, <1>7, <2>2, <2>5
<1> QED BY <1>6, <1>7

\* Without an entry at or below h the answer is zero.
LEMMA FoundNone ==
    ASSUME NEW s, NEW top, History(s, top), NEW h \in Nat, NoneUpTo(Range(s), h)
    PROVE  Found(s, h) = 0
<1> DEFINE n == Len(s)
           m == SearchHeight(s, h)
<1>1. n \in Nat /\ DOMAIN s = 1..n /\ \A i \in 1..n : s[i].height \in Nat
    BY DEF History, Entry
<1>2. /\ m \in 1 .. n + 1
      /\ \A j \in 1..n : j < m => s[j].height < h
    BY <1>1, SearchSplits DEF Splits
<1>3. \A i \in 1..n : ~(s[i].height <= h) BY <1>1 DEF NoneUpTo, Range
<1>4. Found(s, h) = IF m <= n /\ s[m].height = h THEN s[m].balance
                    ELSE IF m = 1 THEN 0 ELSE s[m - 1].balance
    BY DEF Found
<1> HIDE DEF m, n
<1>5. m = 1
    <2> SUFFICES ASSUME m # 1 PROVE FALSE OBVIOUS
    <2>1. m - 1 \in 1..n /\ m - 1 < m BY <1>1, <1>2
    <2> QED BY <1>1, <1>2, <1>3, <2>1
<1>6. ~(m <= n /\ s[m].height = h)
    <2> SUFFICES ASSUME m <= n, s[m].height = h PROVE FALSE OBVIOUS
    <2>1. m \in 1..n BY <1>2
    <2> QED BY <1>1, <1>3, <2>1
<1> QED BY <1>4, <1>5, <1>6

\* A set of entries has one at or below the height that is the latest, or none.
LEMMA LatestOrNone ==
    ASSUME NEW E \in SUBSET Entry, NEW h \in Nat, ~NoneUpTo(E, h)
    PROVE  \E e : IsLatest(E, h, e)
<1> DEFINE H == {e.height : e \in {x \in E : x.height <= h}}
<1>1. \A e \in E : e.height \in Nat BY DEF Entry
<1>2. H \in SUBSET (0..h) /\ H # {} BY <1>1 DEF NoneUpTo
<1>3. PICK k \in H : \A j \in H : j <= k
    <2> HIDE DEF H
    <2> QED BY <1>2, GreatestNat
<1>4. PICK e \in E : e.height <= h /\ e.height = k BY <1>3
<1>5. \A x \in E : x.height <= h => x.height <= e.height BY <1>3, <1>4
<1> QED BY <1>4, <1>5 DEF IsLatest

-----------------------------------------------------------------------------
(* What the contract answers.                                              *)

\* The entries of an account that reads through the open Update can see.
Entries(a) == Range(balances[a] \o tx.balances[a])

\* The entries of an account are one per height, up to the tip.
OnePerHeight(E, tip) ==
    /\ E \subseteq Entry
    /\ \A e \in E : e.height \in 1..tip
    /\ \A x, y \in E : x.height = y.height => x = y

RecordsAt(k) == {x \in UNION {{b} \X Entries(b) : b \in Accounts} : x[2].height = k}

\* What Seen records at each height.
LEMMA SeenBalances ==
    ASSUME NEW tip \in Nat, tip = MemLastBlock(tx).height
    PROVE  /\ Len(Seen(tx).balances) = tip
           /\ \A k \in 1..tip : Seen(tx).balances[k] =
                 [b \in {x[1] : x \in RecordsAt(k)} |->
                     (CHOOSE x \in RecordsAt(k) : x[1] = b)[2].balance]
<1> DEFINE r(k) == [b \in {x[1] : x \in RecordsAt(k)} |->
                       (CHOOSE x \in RecordsAt(k) : x[1] = b)[2].balance]
           f == Seen(tx).balances
<1>1. f = [k \in 1..tip |-> r(k)] BY DEF Seen, RecordsAt, Entries
<1> HIDE DEF f, r
<1>2. f \in Seq({r(k) : k \in 1..tip}) /\ DOMAIN f = 1..tip BY <1>1
<1> DEFINE T == {r(k) : k \in 1..tip}
<1> HIDE DEF T
<1>3. Len(f) = tip BY <1>2 DEF T
<1>4. \A k \in 1..tip : f[k] = r(k) BY <1>1
<1> QED BY <1>3, <1>4 DEF f, r

\* An entry of the account at height k is what the contract records there.
LEMMA RecordedThere ==
    ASSUME NEW tip \in Nat, NEW a \in Accounts, OnePerHeight(Entries(a), tip), NEW k
    PROVE  /\ a \in {x[1] : x \in RecordsAt(k)} <=> \E e \in Entries(a) : e.height = k
           /\ \A e \in Entries(a) : e.height = k =>
                 (CHOOSE x \in RecordsAt(k) : x[1] = a) = <<a, e>>
<1>1. \A x : x \in RecordsAt(k) <=>
          \E b \in Accounts : \E e \in Entries(b) : x = <<b, e>> /\ e.height = k
    BY DEF RecordsAt
<1>2. ASSUME NEW e \in Entries(a), e.height = k
      PROVE  /\ <<a, e>> \in RecordsAt(k) /\ <<a, e>>[1] = a
             /\ \A x \in RecordsAt(k) : x[1] = a => x = <<a, e>>
    <2>1. <<a, e>> \in RecordsAt(k) BY <1>1, <1>2
    <2>2. ASSUME NEW x \in RecordsAt(k), x[1] = a PROVE x = <<a, e>>
        <3>1. PICK b \in Accounts : \E d \in Entries(b) : x = <<b, d>> /\ d.height = k BY <1>1
        <3>2. PICK d \in Entries(b) : x = <<b, d>> /\ d.height = k BY <3>1
        <3>3. b = a BY <2>2, <3>2
        <3>4. d = e BY <1>2, <3>2, <3>3 DEF OnePerHeight
        <3> QED BY <3>2, <3>3, <3>4
    <2> QED BY <2>1, <2>2
<1>3. a \in {x[1] : x \in RecordsAt(k)} => \E e \in Entries(a) : e.height = k
    <2> SUFFICES ASSUME NEW x \in RecordsAt(k), x[1] = a PROVE \E e \in Entries(a) : e.height = k
        OBVIOUS
    <2>1. PICK b \in Accounts : \E d \in Entries(b) : x = <<b, d>> /\ d.height = k BY <1>1
    <2>2. PICK d \in Entries(b) : x = <<b, d>> /\ d.height = k BY <2>1
    <2>3. b = a BY <2>2
    <2> QED BY <2>2, <2>3
<1>4. (\E e \in Entries(a) : e.height = k) => a \in {x[1] : x \in RecordsAt(k)}
    BY <1>2
<1>5. ASSUME NEW e \in Entries(a), e.height = k
      PROVE  (CHOOSE x \in RecordsAt(k) : x[1] = a) = <<a, e>>
    BY <1>2, <1>5
<1> QED BY <1>3, <1>4, <1>5

\* The contract's answer is the latest entry too.
LEMMA BalanceIsLatestEntry ==
    ASSUME NEW tip \in Nat, tip = MemLastBlock(tx).height, NEW a \in Accounts,
           OnePerHeight(Entries(a), tip), NEW h \in Nat
    PROVE  /\ \A e : IsLatest(Entries(a), h, e) => Balance(Seen(tx), a, h) = e.balance
           /\ NoneUpTo(Entries(a), h) => Balance(Seen(tx), a, h) = 0
<1> DEFINE d == Seen(tx)
           hs == RecordedHeights(d, a, h)
           E == Entries(a)
           Dom(k) == {x[1] : x \in RecordsAt(k)}
           First(k, b) == CHOOSE x \in RecordsAt(k) : x[1] = b
           At(k) == First(k, a)
<1>1. Len(d.balances) = tip BY SeenBalances
<1>2. \A k \in 1..tip : DOMAIN d.balances[k] = Dom(k)
    <2>1. \A k \in 1..tip : d.balances[k] =
             [b \in Dom(k) |-> First(k, b)[2].balance]
        BY SeenBalances
    <2> HIDE DEF Dom, d, First
    <2> QED BY <2>1
<1>3. \A k \in 1..tip : a \in Dom(k) => d.balances[k][a] = At(k)[2].balance
    <2>1. \A k \in 1..tip : d.balances[k] =
             [b \in Dom(k) |-> First(k, b)[2].balance]
        BY SeenBalances
    <2> HIDE DEF Dom, d, First
    <2> SUFFICES ASSUME NEW k \in 1..tip, a \in Dom(k) PROVE d.balances[k][a] = First(k, a)[2].balance
        OBVIOUS
    <2>2. d.balances[k] = [b \in Dom(k) |-> First(k, b)[2].balance] BY <2>1
    <2> QED BY <2>2
<1>4. \A k : a \in Dom(k) <=> \E e \in E : e.height = k BY RecordedThere
<1>5. \A k : \A e \in E : e.height = k => At(k) = <<a, e>> BY RecordedThere
<1>6. Balance(d, a, h) = IF hs = {} THEN 0 ELSE d.balances[Max(hs)][a] BY DEF Balance
<1> HIDE DEF d, Dom, At, First, E
<1>7. hs = {k \in 1..h : k <= tip /\ \E e \in E : e.height = k}
    <2>1. hs = {k \in 1..h : k <= tip /\ a \in DOMAIN d.balances[k]} BY <1>1 DEF RecordedHeights
    <2>2. \A k \in 1..h : k <= tip => (a \in DOMAIN d.balances[k] <=> \E e \in E : e.height = k)
        BY <1>2, <1>4
    <2> QED BY <2>1, <2>2
<1> HIDE DEF hs
<1>8. \A e \in E : e.height \in 1..tip BY DEF OnePerHeight, E
<1>9. ASSUME NEW e, IsLatest(E, h, e) PROVE Balance(d, a, h) = e.balance
    <2> DEFINE k == e.height
    <2>1. e \in E /\ k \in 1..tip /\ k <= h BY <1>8, <1>9 DEF IsLatest
    <2>2. k \in hs BY <1>7, <2>1
    <2>3. \A j \in hs : j <= k BY <1>7, <1>8, <1>9 DEF IsLatest
    <2> HIDE DEF k
    <2>4. Max(hs) = k
        <3>1. \A j \in hs : j \in Int BY <1>7
        <3> QED BY <2>2, <2>3, <3>1 DEF Max
    <2>5. a \in Dom(k) BY <1>4, <2>1 DEF k
    <2>6. d.balances[k][a] = At(k)[2].balance BY <1>3, <2>1, <2>5
    <2>7. At(k) = <<a, e>> BY <1>5, <2>1 DEF k
    <2> QED BY <1>6, <2>2, <2>4, <2>6, <2>7
<1>10. NoneUpTo(E, h) => Balance(d, a, h) = 0
    <2> SUFFICES ASSUME NoneUpTo(E, h) PROVE hs = {} BY <1>6
    <2> QED BY <1>7 DEF NoneUpTo
<1> QED BY <1>9, <1>10 DEF d, E

-----------------------------------------------------------------------------
(* The journal and the tables.                                             *)

Journals == [balances : [Accounts -> Seq(Entry)], updatedBlock : BOOLEAN, blockHeight : Nat,
             blockHash : {tx.blockHash}, processedBlocks : {tx.processedBlocks},
             utxos : {tx.utxos}, delUtxos : {tx.delUtxos}]

MemTypes ==
    /\ last.height \in Nat
    /\ tx \in Journals
    /\ balances \in [Accounts -> Seq(Entry)]
    /\ upd \in [kind : {"none", "connect", "rollback"}, calls : {upd.calls}, tips : BOOLEAN]
    /\ DOMAIN processedBlocks \subseteq Nat \ {0}

\* The only journaled balances are those of the one block a connect stored.
Stored == upd.kind = "connect" /\ upd.tips

\* The journal of a connect Update that has stored its block.
StoredBlock ==
    /\ tx.blockHeight = last.height + 1
    /\ DOMAIN tx.processedBlocks = {tx.blockHeight}
    /\ \A a \in Accounts :
          \/ tx.balances[a] = << >>
          \/ /\ a \in tx.processedBlocks[tx.blockHeight].accounts
             /\ Len(tx.balances[a]) = 1 /\ tx.balances[a][1].height = tx.blockHeight

\* The journal before that, and of a rollback.
NothingStored ==
    /\ \A a \in Accounts : tx.balances[a] = << >>
    /\ DOMAIN tx.processedBlocks = {}
    /\ tx.updatedBlock => upd.kind = "rollback" /\ tx.blockHeight <= last.height

JournalInv ==
    /\ tx.updatedBlock <=> tx.blockHeight # 0
    /\ IF Stored THEN StoredBlock ELSE NothingStored

\* The tip up to which the tables have balances: a rollback takes them out of
\* the tables before it is committed.
TableTip == IF upd.kind = "rollback" THEN MemLastBlock(tx).height ELSE last.height

\* A recorded balance can be found again from the block that recorded it.
HasOwner(a, e) == e.height \in DOMAIN processedBlocks /\ a \in processedBlocks[e.height].accounts

\* Histories end at the tip, and each entry is listed under its block.
TablesInv ==
    \A a \in Accounts :
        /\ History(balances[a], TableTip)
        /\ \A i \in DOMAIN balances[a] : HasOwner(a, balances[a][i])

MemInv == MemTypes /\ JournalInv /\ TablesInv

\* The tips are heights.
LEMMA Tips ==
    ASSUME MemTypes, JournalInv
    PROVE  /\ MemLastBlock(tx).height \in Nat /\ TableTip \in Nat
           /\ TableTip <= last.height /\ TableTip <= MemLastBlock(tx).height
           /\ Stored => /\ MemLastBlock(tx).height = tx.blockHeight
                        /\ TableTip = last.height /\ tx.blockHeight = last.height + 1
           /\ ~Stored => TableTip = MemLastBlock(tx).height
<1>1. /\ last.height \in Nat /\ tx.blockHeight \in Nat /\ tx.updatedBlock \in BOOLEAN
      /\ upd.kind \in {"none", "connect", "rollback"}
    BY DEF MemTypes, Journals
<1>2. MemLastBlock(tx).height = IF tx.updatedBlock THEN tx.blockHeight ELSE last.height
    BY DEF MemLastBlock
<1>3. Stored => tx.updatedBlock /\ tx.blockHeight = last.height + 1 BY <1>1 DEF JournalInv, StoredBlock
<1>4. ~Stored => (tx.updatedBlock => upd.kind = "rollback" /\ tx.blockHeight <= last.height)
    BY DEF JournalInv, NothingStored
<1>5. Stored => upd.kind # "rollback" BY DEF Stored
<1> QED BY <1>1, <1>2, <1>3, <1>4, <1>5 DEF TableTip

\* One more entry, above all others, continues a history.
LEMMA HistoryAppend ==
    ASSUME NEW s, NEW top \in Nat, History(s, top), NEW e \in Entry, e.height = top + 1
    PROVE  History(s \o << e >>, top + 1)
<1> DEFINE n == Len(s)
           r == s \o << e >>
<1>1. /\ s \in Seq(Entry) /\ n \in Nat /\ DOMAIN s = 1..n
      /\ \A i \in 1..n : s[i].height \in 1..top
      /\ \A i, j \in 1..n : i < j => s[i].height < s[j].height
    BY DEF History
<1>2. r \in Seq(Entry) /\ Len(r) = n + 1 /\ DOMAIN r = 1 .. n + 1 BY <1>1
<1>3. r[n + 1] = e /\ \A i \in 1..n : r[i] = s[i] BY <1>1
<1> HIDE DEF n, r
<1>4. \A i \in 1 .. n + 1 : r[i].height \in 1 .. top + 1
    <2> SUFFICES ASSUME NEW i \in 1 .. n + 1 PROVE r[i].height \in 1 .. top + 1 OBVIOUS
    <2>1. CASE i = n + 1 BY <1>3, <2>1
    <2>2. CASE i # n + 1
        <3>1. i \in 1..n BY <1>1, <2>2
        <3> QED BY <1>1, <1>3, <3>1
    <2> QED BY <2>1, <2>2
<1>5. ASSUME NEW i \in 1 .. n + 1, NEW j \in 1 .. n + 1, i < j PROVE r[i].height < r[j].height
    <2>1. i \in 1..n BY <1>1, <1>5
    <2>2. CASE j = n + 1
        <3>1. s[i].height \in 1..top BY <1>1, <2>1
        <3> QED BY <1>3, <2>1, <2>2, <3>1
    <2>3. CASE j # n + 1
        <3>1. j \in 1..n BY <1>1, <2>3
        <3> QED BY <1>1, <1>3, <1>5, <2>1, <3>1
    <2> QED BY <2>2, <2>3
<1> QED BY <1>2, <1>4, <1>5 DEF History, r

\* Without the entry of its top height a history ends below it.
Shortened(r, s, top) ==
    /\ History(r, top)
    /\ \A i \in DOMAIN r : i \in DOMAIN s /\ r[i] = s[i]

\* Dropping the entry of the tip, if there is one, leaves a history below it.
LEMMA HistoryDrop ==
    ASSUME NEW s, NEW h \in Nat \ {0}, History(s, h), NEW r,
           r = IF s # << >> /\ s[Len(s)].height = h THEN SubSeq(s, 1, Len(s) - 1) ELSE s
    PROVE  Shortened(r, s, h - 1)
<1> DEFINE n == Len(s)
<1>1. /\ s \in Seq(Entry) /\ n \in Nat /\ DOMAIN s = 1..n
      /\ \A i \in 1..n : s[i].height \in 1..h
      /\ \A i, j \in 1..n : i < j => s[i].height < s[j].height
    BY DEF History
<1>2. CASE s # << >> /\ s[n].height = h
    <2>1. n >= 1 /\ n - 1 \in Nat BY <1>1, <1>2
    <2>2. r = SubSeq(s, 1, n - 1) BY <1>2
    <2>3. r \in Seq(Entry) /\ Len(r) = n - 1 /\ DOMAIN r = 1 .. n - 1
          /\ \A i \in 1 .. n - 1 : r[i] = s[i]
        <3> DEFINE k == n - 1
        <3>1. k \in Nat /\ k \in Int /\ 1 \in Int /\ r = SubSeq(s, 1, k) /\ \A i \in 1..k : s[i] \in Entry
            BY <1>1, <2>1, <2>2
        <3> HIDE DEF k, n
        <3>2. /\ SubSeq(s, 1, k) \in Seq(Entry)
              /\ Len(SubSeq(s, 1, k)) = IF 1 <= k THEN k - 1 + 1 ELSE 0
              /\ \A i \in 1 .. k - 1 + 1 : SubSeq(s, 1, k)[i] = s[1 + i - 1]
            BY <3>1, SubSeqProperties
        <3>3. r \in Seq(Entry) /\ Len(r) = k BY <3>1, <3>2
        <3>4. DOMAIN r = 1..k BY <3>3
        <3>5. \A i \in 1..k : r[i] = s[i]
            <4> SUFFICES ASSUME NEW i \in 1..k PROVE r[i] = s[i] OBVIOUS
            <4>1. i \in 1 .. k - 1 + 1 /\ 1 + i - 1 = i BY <3>1
            <4>2. SubSeq(s, 1, k)[i] = s[1 + i - 1] BY <3>2, <4>1
            <4> QED BY <3>1, <4>1, <4>2
        <3> QED BY <3>3, <3>4, <3>5 DEF k
    <2> HIDE DEF n
    <2>4. ASSUME NEW i \in 1 .. n - 1 PROVE i \in 1..n /\ r[i].height \in 1 .. h - 1
        <3>1. i \in 1..n /\ n \in 1..n /\ i < n BY <1>1, <2>1
        <3>2. s[i].height < s[n].height /\ s[i].height \in 1..h BY <1>1, <3>1
        <3>3. s[i].height \in 1 .. h - 1 BY <1>2, <3>2
        <3> QED BY <2>3, <3>1, <3>3
    <2> QED BY <1>1, <2>3, <2>4 DEF History, Shortened
<1>3. CASE ~(s # << >> /\ s[n].height = h)
    <2>1. r = s BY <1>3
    <2>2. ASSUME NEW i \in 1..n PROVE s[i].height \in 1 .. h - 1
        <3>1. s # << >> /\ n \in 1..n BY <1>1
        <3>2. s[n].height \in 1..h /\ s[n].height # h /\ s[i].height \in 1..h BY <1>1, <1>3, <3>1
        <3> HIDE DEF n
        <3>3. i = n \/ i < n BY <1>1
        <3>4. s[i].height <= s[n].height BY <1>1, <3>1, <3>2, <3>3
        <3> QED BY <3>2, <3>4
    <2> QED BY <1>1, <2>1, <2>2 DEF History, Shortened
<1> QED BY <1>2, <1>3

\* A history below a height is one below any greater height.
LEMMA HistoryWider ==
    ASSUME NEW s, NEW a \in Nat, NEW b \in Nat, a <= b, History(s, a)
    PROVE  History(s, b)
<1>1. \A i \in DOMAIN s : s[i].height \in 1..b BY DEF History
<1> QED BY <1>1 DEF History

\* The entries after one is appended.
LEMMA RangeOfAppended ==
    ASSUME NEW s \in Seq(Entry), NEW d \in Entry
    PROVE  Range(s \o << d >>) = Range(s) \cup {d}
<1> DEFINE n == Len(s)
           r == s \o << d >>
<1>1. n \in Nat /\ DOMAIN s = 1..n /\ DOMAIN r = 1 .. n + 1 OBVIOUS
<1>2. r[n + 1] = d /\ \A i \in 1..n : r[i] = s[i] OBVIOUS
<1> HIDE DEF n, r
<1>3. 1 .. n + 1 = (1..n) \cup {n + 1} BY <1>1
<1>4. Range(r) = {r[i] : i \in (1..n) \cup {n + 1}} BY <1>1, <1>3 DEF Range
<1>5. Range(s) = {s[i] : i \in 1..n} BY <1>1 DEF Range
<1>6. Range(r) = Range(s) \cup {d} BY <1>2, <1>4, <1>5
<1> QED BY <1>6 DEF r

\* Heights of a history are those of its entries, one each.
LEMMA HistoryOnce ==
    ASSUME NEW s, NEW top \in Nat, History(s, top)
    PROVE  OnePerHeight(Range(s), top)
<1>1. /\ s \in Seq(Entry)
      /\ \A i \in DOMAIN s : s[i].height \in 1..top
      /\ \A i, j \in DOMAIN s : i < j => s[i].height < s[j].height
    BY DEF History
<1>2. DOMAIN s = 1..Len(s) /\ Len(s) \in Nat /\ \A i \in DOMAIN s : s[i] \in Entry BY <1>1
<1>3. Range(s) \subseteq Entry BY <1>2 DEF Range
<1>4. \A e \in Range(s) : e.height \in 1..top BY <1>1 DEF Range
<1>5. ASSUME NEW x \in Range(s), NEW y \in Range(s), x.height = y.height PROVE x = y
    <2>1. PICK i \in DOMAIN s : x = s[i] BY DEF Range
    <2>2. PICK j \in DOMAIN s : y = s[j] BY DEF Range
    <2>3. s[i].height \in Nat /\ s[j].height \in Nat BY <1>1
    <2>4. ~(i < j) /\ ~(j < i) BY <1>1, <1>5, <2>1, <2>2, <2>3
    <2>5. i = j BY <1>2, <2>4
    <2> QED BY <2>1, <2>2, <2>5
<1> QED BY <1>3, <1>4, <1>5 DEF OnePerHeight

\* What the journal holds for an account: nothing, or one entry at the new tip.
LEMMA JournalCases ==
    ASSUME MemInv, NEW a \in Accounts
    PROVE  \/ tx.balances[a] = << >>
           \/ Stored /\ \E e \in Entry : tx.balances[a] = << e >> /\ e.height = tx.blockHeight
<1> DEFINE t == tx.balances[a]
<1>1. t \in Seq(Entry) BY DEF MemInv, MemTypes, Journals
<1>2. CASE ~Stored BY <1>2 DEF MemInv, JournalInv, NothingStored
<1>3. CASE Stored
    <2>1. t = << >> \/ (Len(t) = 1 /\ t[1].height = tx.blockHeight)
        BY <1>3 DEF MemInv, JournalInv, StoredBlock
    <2> HIDE DEF t
    <2>2. Len(t) = 1 => t = << t[1] >> /\ t[1] \in Entry BY <1>1
    <2>3. t = << >> \/ \E e \in Entry : t = << e >> /\ e.height = tx.blockHeight BY <2>1, <2>2
    <2> QED BY <1>3, <2>3 DEF t
<1> QED BY <1>2, <1>3

\* Tables and journal together are one history up to the tip the Update sees.
LEMMA Joined ==
    ASSUME MemInv, NEW a \in Accounts
    PROVE  History(balances[a] \o tx.balances[a], MemLastBlock(tx).height)
<1> DEFINE s == balances[a]
           t == tx.balances[a]
           tip == MemLastBlock(tx).height
<1>1. History(s, TableTip) /\ s \in Seq(Entry) BY DEF MemInv, TablesInv, History
<1>2. /\ tip \in Nat /\ TableTip \in Nat /\ TableTip <= tip
      /\ Stored => tip = tx.blockHeight /\ tx.blockHeight = TableTip + 1
    BY Tips DEF MemInv
<1> HIDE DEF s, tip
<1>3. CASE t = << >>
    <2>1. s \o t = s BY <1>1, <1>3
    <2>2. History(s, tip)
        <3> DEFINE k == TableTip
        <3>1. k \in Nat /\ k <= tip /\ History(s, k) BY <1>1, <1>2
        <3> HIDE DEF k
        <3> QED BY <1>2, <3>1, HistoryWider
    <2> QED BY <2>1, <2>2 DEF s, tip
<1>4. CASE t # << >>
    <2>1. PICK e \in Entry : Stored /\ t = << e >> /\ e.height = tx.blockHeight BY <1>4, JournalCases
    <2> DEFINE k == TableTip
    <2>2. k \in Nat /\ e.height = k + 1 /\ tip = k + 1 /\ History(s, k) BY <1>1, <1>2, <2>1
    <2> HIDE DEF k
    <2>3. History(s \o << e >>, k + 1) BY <2>2, HistoryAppend
    <2> QED BY <2>1, <2>2, <2>3 DEF s, tip
<1> QED BY <1>3, <1>4

-----------------------------------------------------------------------------
(* Reads.                                                                  *)

\* The slice MemBalance searches has the latest entry of all, or none has one.
LEMMA ReadExact ==
    ASSUME MemInv, NEW a \in Accounts, NEW h \in Nat
    PROVE  MemBalance(tx, a, h) = Balance(Seen(tx), a, h)
<1> DEFINE s == balances[a]
           t == tx.balances[a]
           tip == MemLastBlock(tx).height
           E == Entries(a)
<1>1. tip \in Nat /\ TableTip \in Nat /\ (Stored => tip = tx.blockHeight)
    BY Tips DEF MemInv
<1>2. History(s \o t, tip) BY Joined
<1>3. OnePerHeight(E, tip)
    <2> DEFINE r == s \o t
    <2>1. History(r, tip) /\ tip \in Nat /\ E = Range(r) BY <1>1, <1>2 DEF Entries
    <2> HIDE DEF r, tip, E
    <2> QED BY <2>1, HistoryOnce
<1>4. E \in SUBSET Entry BY <1>3 DEF OnePerHeight
<1>5. /\ \A e : IsLatest(E, h, e) => Balance(Seen(tx), a, h) = e.balance
      /\ NoneUpTo(E, h) => Balance(Seen(tx), a, h) = 0
    <2>1. tip = MemLastBlock(tx).height OBVIOUS
    <2> HIDE DEF tip
    <2> QED BY <1>1, <1>3, <2>1, BalanceIsLatestEntry
<1>6. MemBalance(tx, a, h) = IF t = << >> \/ t[1].height > h THEN Found(s, h) ELSE Found(t, h)
    BY DEF MemBalance, Found
<1>7. History(s, TableTip) /\ s \in Seq(Entry) BY DEF MemInv, TablesInv, History
<1>8. E = Range(s \o t) BY DEF Entries
<1> HIDE DEF s, t, tip, E
<1>9. CASE t = << >> \/ t[1].height > h
    <2>1. \A e : e.height <= h => (e \in E <=> e \in Range(s))
        <3>1. CASE t = << >>
            <4>1. s \o t = s BY <1>7, <3>1
            <4> QED BY <1>8, <4>1
        <3>2. CASE t # << >>
            <4>1. PICK d \in Entry : t = << d >> BY <3>2, JournalCases DEF t
            <4>2. d.height > h /\ d.height \in Nat BY <1>9, <3>2, <4>1 DEF Entry
            <4>3. E = Range(s) \cup {d} BY <1>7, <1>8, <4>1, RangeOfAppended
            <4>4. ~(d.height <= h) BY <4>2
            <4> QED BY <4>3, <4>4
        <3> QED BY <3>1, <3>2
    <2>2. CASE NoneUpTo(E, h)
        <3>1. NoneUpTo(Range(s), h) BY <2>1, <2>2 DEF NoneUpTo
        <3> DEFINE k == TableTip
        <3>2. History(s, k) BY <1>7
        <3> HIDE DEF k
        <3>3. Found(s, h) = 0 BY <3>1, <3>2, FoundNone
        <3> QED BY <1>5, <1>6, <1>9, <2>2, <3>3
    <2>3. CASE ~NoneUpTo(E, h)
        <3>1. PICK e : IsLatest(E, h, e) BY <1>4, <2>3, LatestOrNone
        <3>2. IsLatest(Range(s), h, e) BY <2>1, <3>1 DEF IsLatest
        <3> DEFINE k == TableTip
        <3>3. History(s, k) BY <1>7
        <3> HIDE DEF k
        <3>4. Found(s, h) = e.balance BY <3>2, <3>3, FoundIsLatest
        <3> QED BY <1>5, <1>6, <1>9, <3>1, <3>4
    <2> QED BY <2>2, <2>3
<1>10. CASE ~(t = << >> \/ t[1].height > h)
    <2>1. PICK d \in Entry : t = << d >> /\ Stored /\ d.height = tx.blockHeight
        BY <1>10, JournalCases DEF t
    <2>2. d.height \in Nat /\ d.height <= h /\ d.height = tip BY <1>1, <1>10, <2>1 DEF Entry
    <2>3. E = Range(s) \cup {d} BY <1>7, <1>8, <2>1, RangeOfAppended
    <2>4. \A x \in E : x.height <= tip BY <1>1, <1>3 DEF OnePerHeight
    <2>5. IsLatest(E, h, d) BY <2>2, <2>3, <2>4 DEF IsLatest
    <2>6. tip \in Nat /\ tip # 0
        <3>1. d.height \in 1..tip BY <1>3, <2>3 DEF OnePerHeight
        <3> QED BY <1>1, <3>1
    <2>7. History(t, tip)
        <3>1. t \in Seq(Entry) /\ DOMAIN t = 1..1 /\ t[1] = d BY <2>1
        <3>2. \A i \in DOMAIN t : i = 1 BY <3>1
        <3>3. t[1].height \in 1..tip BY <2>2, <2>6, <3>1
        <3> QED BY <3>1, <3>2, <3>3 DEF History
    <2>8. Range(t) = {d} BY <2>1 DEF Range
    <2>9. IsLatest(Range(t), h, d) BY <2>2, <2>8 DEF IsLatest
    <2>10. Found(t, h) = d.balance BY <2>7, <2>9, FoundIsLatest
    <2> QED BY <1>5, <1>6, <1>10, <2>5, <2>10
<1> QED BY <1>9, <1>10

-----------------------------------------------------------------------------
(* Steps.                                                                  *)

\* A new store satisfies the invariant.
LEMMA MemInit == Init => MemInv
<1> SUFFICES ASSUME Init PROVE MemInv OBVIOUS
<1>1. /\ balances = [a \in Accounts |-> << >>] /\ last.height = 0 /\ processedBlocks = << >>
      /\ tx = EmptyTx /\ upd = NoUpdate
    BY DEF Init, NewMemDB
<1>2. /\ tx.balances = [a \in Accounts |-> << >>] /\ tx.updatedBlock = FALSE
      /\ tx.blockHeight = 0 /\ tx.processedBlocks = << >> /\ tx \in Journals
    BY <1>1 DEF EmptyTx, Journals
<1>3. upd \in [kind : {"none", "connect", "rollback"}, calls : {upd.calls}, tips : BOOLEAN]
      /\ upd.kind = "none"
    BY <1>1 DEF NoUpdate
<1>4. DOMAIN processedBlocks = {} /\ DOMAIN tx.processedBlocks = {} BY <1>1, <1>2
<1>5. MemTypes BY <1>1, <1>2, <1>3, <1>4 DEF MemTypes
<1>6. JournalInv BY <1>2, <1>3, <1>4 DEF JournalInv, Stored, NothingStored
<1>7. TablesInv
    <2>1. TableTip = 0 BY <1>1, <1>3 DEF TableTip
    <2>2. \A a \in Accounts : balances[a] = << >> BY <1>1
    <2>3. History(<< >>, 0) BY DEF History
    <2> QED BY <2>1, <2>2, <2>3 DEF TablesInv
<1> QED BY <1>5, <1>6, <1>7 DEF MemInv

\* Before and after an Update the journal is empty and the tables are a history.
LEMMA EmptyJournal ==
    ASSUME tx' = EmptyTx,
           \E k \in {"none", "connect", "rollback"} : upd' = [NoUpdate EXCEPT !.kind = k],
           last'.height \in Nat, balances' \in [Accounts -> Seq(Entry)],
           DOMAIN processedBlocks' \subseteq Nat \ {0},
           \A a \in Accounts :
               /\ History(balances'[a], last'.height)
               /\ \A i \in DOMAIN balances'[a] : HasOwner(a, balances[a][i])'
    PROVE  MemInv'
<1>1. /\ tx'.balances = [a \in Accounts |-> << >>] /\ tx'.updatedBlock = FALSE
      /\ tx'.blockHeight = 0 /\ tx'.processedBlocks = << >> /\ (tx \in Journals)'
    BY DEF EmptyTx, Journals
<1>2. (upd \in [kind : {"none", "connect", "rollback"}, calls : {upd.calls}, tips : BOOLEAN])'
      /\ upd'.tips = FALSE
    BY DEF NoUpdate
<1>3. DOMAIN tx'.processedBlocks = {} BY <1>1
<1>4. MemTypes' BY <1>1, <1>2 DEF MemTypes
<1>5. JournalInv' BY <1>1, <1>2, <1>3 DEF JournalInv, Stored, NothingStored
<1>6. TablesInv'
    <2>1. TableTip' = last'.height BY <1>1 DEF TableTip, MemLastBlock
    <2> QED BY <2>1 DEF TablesInv
<1> QED BY <1>4, <1>5, <1>6 DEF MemInv

\* AddUtxo and DelUtxo leave the balances alone.
LEMMA UtxoSteps ==
    ASSUME MemInv, (tx \in Journals)', UNCHANGED tables,
           tx'.balances = tx.balances, tx'.updatedBlock = tx.updatedBlock,
           tx'.blockHeight = tx.blockHeight, tx'.blockHash = tx.blockHash,
           tx'.processedBlocks = tx.processedBlocks,
           upd' = [upd EXCEPT !.calls = @ + 1]
    PROVE  MemInv'
<1>1. balances' = balances /\ last' = last /\ processedBlocks' = processedBlocks BY DEF tables
<1>2. /\ (upd \in [kind : {"none", "connect", "rollback"}, calls : {upd.calls}, tips : BOOLEAN])'
      /\ upd'.kind = upd.kind /\ upd'.tips = upd.tips
    BY DEF MemInv, MemTypes
<1>3. MemTypes' BY <1>1, <1>2 DEF MemInv, MemTypes
<1>4. JournalInv'
    BY <1>1, <1>2 DEF MemInv, JournalInv, Stored, StoredBlock, NothingStored
<1>5. TableTip' = TableTip BY <1>1, <1>2 DEF TableTip, MemLastBlock
<1>6. TablesInv' BY <1>1, <1>5 DEF MemInv, TablesInv, HasOwner
<1> QED BY <1>3, <1>4, <1>6 DEF MemInv

\* The tables alone are a history up to the committed tip.
LEMMA TablesHistory ==
    ASSUME MemInv
    PROVE  /\ last.height \in Nat /\ balances \in [Accounts -> Seq(Entry)]
           /\ DOMAIN processedBlocks \subseteq Nat \ {0}
           /\ \A a \in Accounts :
                 /\ History(balances[a], last.height)
                 /\ \A i \in DOMAIN balances[a] : HasOwner(a, balances[a][i])
<1>1. TableTip \in Nat /\ TableTip <= last.height /\ last.height \in Nat
    BY Tips DEF MemInv, MemTypes
<1>2. ASSUME NEW a \in Accounts PROVE History(balances[a], last.height)
    <2> DEFINE k == TableTip
               s == balances[a]
               l == last.height
    <2>1. History(s, k) /\ k \in Nat /\ l \in Nat /\ k <= l BY <1>1 DEF MemInv, TablesInv
    <2> HIDE DEF k, s, l
    <2>2. History(s, l) BY <2>1, HistoryWider
    <2> QED BY <2>2 DEF s, l
<1> QED BY <1>1, <1>2 DEF MemInv, MemTypes, TablesInv

\* Beginning an Update, or dropping one, empties the journal.
LEMMA BeginOrAbort ==
    ASSUME MemInv, Begin \/ Abort
    PROVE  MemInv'
<1>1. /\ tx' = EmptyTx /\ UNCHANGED tables
      /\ \E k \in {"none", "connect", "rollback"} : upd' = [NoUpdate EXCEPT !.kind = k]
    <2>1. NoUpdate = [NoUpdate EXCEPT !.kind = "none"] BY DEF NoUpdate
    <2>2. CASE Begin BY <2>2 DEF Begin, BeginCall
    <2>3. CASE Abort BY <2>1, <2>3 DEF Abort, AbortCall
    <2> QED BY <2>2, <2>3
<1>2. balances' = balances /\ last' = last /\ processedBlocks' = processedBlocks BY <1>1 DEF tables
<1>3. \A a \in Accounts :
          /\ History(balances'[a], last'.height)
          /\ \A i \in DOMAIN balances'[a] : HasOwner(a, balances[a][i])'
    BY <1>2, TablesHistory DEF HasOwner
<1>4. /\ last'.height \in Nat /\ balances' \in [Accounts -> Seq(Entry)]
      /\ DOMAIN processedBlocks' \subseteq Nat \ {0}
    BY <1>2, TablesHistory
<1> QED BY <1>1, <1>3, <1>4, EmptyJournal

\* Changing fields of the journal leaves a journal, with the other fields as
\* they were.
LEMMA JournalFields ==
    ASSUME tx \in Journals
    PROVE  tx = [balances |-> tx.balances, updatedBlock |-> tx.updatedBlock,
                 blockHash |-> tx.blockHash, blockHeight |-> tx.blockHeight,
                 processedBlocks |-> tx.processedBlocks, utxos |-> tx.utxos,
                 delUtxos |-> tx.delUtxos]
BY DEF Journals

\* AddUtxo and DelUtxo leave balances and blocks alone.
LEMMA AddOrDel ==
    ASSUME MemInv, NEW a, NEW o, MemAddUtxo(a, o) \/ MemDelUtxo(a, o)
    PROVE  MemInv'
<1>1. PICK u, d : tx' = [tx EXCEPT !.utxos = u, !.delUtxos = d]
    BY DEF MemAddUtxo, MemDelUtxo
<1>2. UNCHANGED tables /\ upd' = [upd EXCEPT !.calls = @ + 1]
    BY DEF MemAddUtxo, MemDelUtxo, UtxoCall
<1>3. tx = [balances |-> tx.balances, updatedBlock |-> tx.updatedBlock,
            blockHash |-> tx.blockHash, blockHeight |-> tx.blockHeight,
            processedBlocks |-> tx.processedBlocks, utxos |-> tx.utxos,
            delUtxos |-> tx.delUtxos]
    BY JournalFields DEF MemInv, MemTypes
<1>4. tx' = [balances |-> tx.balances, updatedBlock |-> tx.updatedBlock,
             blockHash |-> tx.blockHash, blockHeight |-> tx.blockHeight,
             processedBlocks |-> tx.processedBlocks, utxos |-> u, delUtxos |-> d]
    BY <1>1, <1>3
<1>5. /\ tx'.balances = tx.balances /\ tx'.updatedBlock = tx.updatedBlock
      /\ tx'.blockHeight = tx.blockHeight /\ tx'.blockHash = tx.blockHash
      /\ tx'.processedBlocks = tx.processedBlocks
    BY <1>4
<1>6. (tx \in Journals)'
    <2>1. /\ tx.balances \in [Accounts -> Seq(Entry)] /\ tx.updatedBlock \in BOOLEAN
          /\ tx.blockHeight \in Nat
        BY DEF MemInv, MemTypes, Journals
    <2> QED BY <1>4, <2>1 DEF Journals
<1> QED BY <1>2, <1>5, <1>6, UtxoSteps

\* StoreBalances journals one block above the tip.
LEMMA StoreStep ==
    ASSUME MemInv, NEW b \in Blocks \ {Genesis}, NEW bals \in BalanceMaps, MemStoreBalances(b, bals)
    PROVE  MemInv'
<1> DEFINE h == Height[b]
           new(a) == [height |-> h, balance |-> bals[a]]
           B == [a \in Accounts |-> IF a \in DOMAIN bals THEN Append(tx.balances[a], new(a))
                                    ELSE tx.balances[a]]
           P == [k \in DOMAIN tx.processedBlocks \cup {h} |->
                    IF k = h THEN [hash |-> b, accounts |-> DOMAIN bals] ELSE tx.processedBlocks[k]]
<1>1. /\ upd.kind = "connect" /\ ~upd.tips /\ upd' = [upd EXCEPT !.calls = 0, !.tips = TRUE]
      /\ h = MemLastBlock(tx).height + 1 /\ UNCHANGED tables
      /\ tx' = [tx EXCEPT !.balances = B, !.processedBlocks = P,
                          !.blockHash = b, !.blockHeight = h, !.updatedBlock = TRUE]
    BY DEF MemStoreBalances, StoreCall
<1>2. balances' = balances /\ last' = last /\ processedBlocks' = processedBlocks BY <1>1 DEF tables
<1>3. ~Stored BY <1>1 DEF Stored
<1>4. /\ \A a \in Accounts : tx.balances[a] = << >>
      /\ DOMAIN tx.processedBlocks = {} /\ ~tx.updatedBlock
    BY <1>1, <1>3 DEF MemInv, JournalInv, NothingStored
<1>5. last.height \in Nat /\ MemLastBlock(tx).height = last.height
    BY <1>4 DEF MemInv, MemTypes, MemLastBlock
<1>6. h \in Nat /\ h = last.height + 1 /\ h # 0 BY <1>1, <1>5
<1>7. ASSUME NEW a \in Accounts
      PROVE  \/ B[a] = << >>
             \/ a \in DOMAIN bals /\ B[a] \in Seq(Entry) /\ Len(B[a]) = 1 /\ B[a][1].height = h
    <2>1. CASE a \in DOMAIN bals
        <3>1. bals[a] \in Int BY <2>1, UpdatesAssumption DEF IsPartialFcn
        <3>2. new(a) \in Entry /\ new(a).height = h BY <1>6, <3>1 DEF Entry
        <3>3. B[a] = Append(<< >>, new(a)) BY <1>4, <2>1
        <3> HIDE DEF B, new, h
        <3> QED BY <2>1, <3>2, <3>3
    <2>2. CASE a \notin DOMAIN bals BY <1>4, <2>2
    <2> QED BY <2>1, <2>2
<1>8. B \in [Accounts -> Seq(Entry)]
    <2>1. B = [a \in Accounts |-> B[a]] OBVIOUS
    <2> HIDE DEF B, h
    <2>2. << >> \in Seq(Entry) OBVIOUS
    <2>3. \A a \in Accounts : B[a] \in Seq(Entry) BY <1>7, <2>2
    <2> QED BY <2>1, <2>3
<1>9. DOMAIN P = {h} /\ P[h].accounts = DOMAIN bals
    BY <1>4, <1>6
<1> HIDE DEF h, B, P
<1>10. tx' = [balances |-> B, updatedBlock |-> TRUE, blockHash |-> b, blockHeight |-> h,
              processedBlocks |-> P, utxos |-> tx.utxos, delUtxos |-> tx.delUtxos]
    <2>1. tx = [balances |-> tx.balances, updatedBlock |-> tx.updatedBlock,
                blockHash |-> tx.blockHash, blockHeight |-> tx.blockHeight,
                processedBlocks |-> tx.processedBlocks, utxos |-> tx.utxos,
                delUtxos |-> tx.delUtxos]
        BY JournalFields DEF MemInv, MemTypes
    <2> QED BY <1>1, <2>1
<1>11. /\ tx'.balances = B /\ tx'.updatedBlock = TRUE /\ tx'.blockHeight = h
       /\ tx'.processedBlocks = P /\ (tx \in Journals)'
    BY <1>6, <1>8, <1>10 DEF Journals
<1>12. /\ (upd \in [kind : {"none", "connect", "rollback"}, calls : {upd.calls}, tips : BOOLEAN])'
       /\ upd'.kind = "connect" /\ upd'.tips = TRUE
    BY <1>1 DEF MemInv, MemTypes
<1>13. MemTypes' BY <1>2, <1>11, <1>12 DEF MemInv, MemTypes
<1>14. JournalInv'
    <2>1. Stored' BY <1>12 DEF Stored
    <2>2. StoredBlock' BY <1>2, <1>6, <1>7, <1>9, <1>11 DEF StoredBlock
    <2> QED BY <1>6, <1>11, <2>1, <2>2 DEF JournalInv
<1>15. TablesInv'
    <2>1. TableTip' = last.height BY <1>2, <1>12 DEF TableTip
    <2>2. \A a \in Accounts :
             /\ History(balances[a], last.height)
             /\ \A i \in DOMAIN balances[a] : HasOwner(a, balances[a][i])
        BY TablesHistory
    <2> QED BY <1>2, <2>1, <2>2 DEF TablesInv, HasOwner
<1> QED BY <1>13, <1>14, <1>15 DEF MemInv

\* RollbackTip removes the tip and the balances recorded for it.
LEMMA RollbackStep ==
    ASSUME MemInv, MemRollbackTip
    PROVE  MemInv'
<1> DEFINE tip == IF tx.blockHeight = 0 THEN last
                  ELSE [hash |-> tx.blockHash, height |-> tx.blockHeight]
           h == tip.height
           p == processedBlocks[h - 1].hash
           Drops(a) == a \in processedBlocks[h].accounts /\ balances[a] # << >>
                       /\ balances[a][Len(balances[a])].height = h
           B == [a \in Accounts |-> IF Drops(a) THEN SubSeq(balances[a], 1, Len(balances[a]) - 1)
                                    ELSE balances[a]]
           P == Restrict(processedBlocks, DOMAIN processedBlocks \ {h})
<1>1. /\ upd.kind = "rollback" /\ upd' = [upd EXCEPT !.calls = 0, !.tips = TRUE]
      /\ h > 0 /\ last' = last
      /\ IF h \notin DOMAIN processedBlocks THEN UNCHANGED <<balances, processedBlocks, tx>>
         ELSE /\ h - 1 \in DOMAIN processedBlocks
              /\ balances' = B /\ processedBlocks' = P
              /\ tx' = [tx EXCEPT !.blockHash = p, !.blockHeight = h - 1, !.updatedBlock = TRUE]
    BY DEF MemRollbackTip, RollbackCall
<1>a. h = MemLastBlock(tx).height BY DEF MemRollbackTip
<1>2. /\ (upd \in [kind : {"none", "connect", "rollback"}, calls : {upd.calls}, tips : BOOLEAN])'
      /\ upd'.kind = "rollback"
    BY <1>1 DEF MemInv, MemTypes
<1>3. ~Stored /\ ~Stored' BY <1>1, <1>2 DEF Stored
<1>4. NothingStored /\ (tx.updatedBlock <=> tx.blockHeight # 0) BY <1>3 DEF MemInv, JournalInv
<1>5. TableTip = h /\ h \in Nat \ {0} /\ last.height \in Nat /\ h <= last.height
    BY <1>a, <1>1, <1>3, Tips DEF MemInv, MemTypes
<1>6. CASE h \notin DOMAIN processedBlocks
    <2>1. balances' = balances /\ processedBlocks' = processedBlocks /\ tx' = tx BY <1>1, <1>6
    <2>2. MemTypes' BY <1>1, <1>2, <2>1 DEF MemInv, MemTypes, Journals
    <2>3. JournalInv' BY <1>1, <1>2, <1>3, <1>4, <2>1 DEF JournalInv, NothingStored
    <2>4. TableTip' = TableTip BY <1>1, <1>2, <2>1 DEF TableTip, MemLastBlock
    <2>5. TablesInv' BY <2>1, <2>4 DEF MemInv, TablesInv, HasOwner
    <2> QED BY <2>2, <2>3, <2>5 DEF MemInv
<1>7. CASE h \in DOMAIN processedBlocks
    <2>1. balances' = B /\ processedBlocks' = P /\ h - 1 \in DOMAIN processedBlocks
        BY <1>1, <1>7
    <2>2. DOMAIN P = DOMAIN processedBlocks \ {h}
          /\ \A k \in DOMAIN processedBlocks \ {h} : P[k] = processedBlocks[k]
        BY DEF Restrict
    <2>3. h - 1 \in Nat \ {0} BY <2>1 DEF MemInv, MemTypes
    <2>4. ASSUME NEW a \in Accounts
          PROVE  /\ History(B[a], h - 1)
                 /\ \A i \in DOMAIN B[a] : i \in DOMAIN balances[a] /\ B[a][i] = balances[a][i]
        <3> DEFINE s == balances[a]
                   r == B[a]
        <3>1. /\ History(s, h) /\ s \in Seq(Entry)
              /\ \A i \in DOMAIN s : HasOwner(a, s[i])
            BY <1>5 DEF MemInv, TablesInv, History
        <3>2. s # << >> => Len(s) \in DOMAIN s BY <3>1
        <3>3. Drops(a) <=> s # << >> /\ s[Len(s)].height = h BY <3>1, <3>2 DEF HasOwner
        <3>4. r = IF Drops(a) THEN SubSeq(s, 1, Len(s) - 1) ELSE s OBVIOUS
        <3> HIDE DEF s, r, Drops, h, B
        <3>5. r = IF s # << >> /\ s[Len(s)].height = h THEN SubSeq(s, 1, Len(s) - 1) ELSE s
            BY <3>3, <3>4
        <3>6. Shortened(r, s, h - 1) BY <1>5, <3>1, <3>5, HistoryDrop
        <3> QED BY <3>6 DEF Shortened, s, r
    <2>5. B \in [Accounts -> Seq(Entry)]
        <3>1. B = [a \in Accounts |-> B[a]] OBVIOUS
        <3> HIDE DEF B, h
        <3>2. \A a \in Accounts : B[a] \in Seq(Entry) BY <2>4 DEF History
        <3> QED BY <3>1, <3>2
    <2>6. ASSUME NEW a \in Accounts, NEW i \in DOMAIN B[a]
          PROVE  B[a][i].height \in DOMAIN P /\ a \in P[B[a][i].height].accounts
        <3> DEFINE k == balances[a][i].height
        <3>1. B[a][i].height = k /\ i \in DOMAIN balances[a] BY <2>4
        <3>2. k \in DOMAIN processedBlocks /\ a \in processedBlocks[k].accounts
            BY <3>1 DEF MemInv, TablesInv, HasOwner
        <3>3. B[a][i].height \in 1 .. h - 1 BY <2>4 DEF History
        <3>4. k # h BY <1>5, <3>1, <3>3
        <3> HIDE DEF k, P, B
        <3> QED BY <2>2, <3>1, <3>2, <3>4
    <2> HIDE DEF B, P, Drops
    <2>7. tx' = [balances |-> tx.balances, updatedBlock |-> TRUE, blockHash |-> p,
                 blockHeight |-> h - 1, processedBlocks |-> tx.processedBlocks,
                 utxos |-> tx.utxos, delUtxos |-> tx.delUtxos]
        <3>1. tx' = [tx EXCEPT !.blockHash = p, !.blockHeight = h - 1, !.updatedBlock = TRUE]
            BY <1>1, <1>7
        <3>2. tx = [balances |-> tx.balances, updatedBlock |-> tx.updatedBlock,
                    blockHash |-> tx.blockHash, blockHeight |-> tx.blockHeight,
                    processedBlocks |-> tx.processedBlocks, utxos |-> tx.utxos,
                    delUtxos |-> tx.delUtxos]
            BY JournalFields DEF MemInv, MemTypes
        <3> HIDE DEF h, p
        <3> QED BY <3>1, <3>2
    <2> HIDE DEF p, h
    <2>8. /\ tx'.balances = tx.balances /\ tx'.updatedBlock = TRUE /\ tx'.blockHeight = h - 1
          /\ tx'.processedBlocks = tx.processedBlocks
        BY <2>7
    <2>9. (tx \in Journals)'
        <3>1. tx.balances \in [Accounts -> Seq(Entry)] BY DEF MemInv, MemTypes, Journals
        <3> QED BY <2>3, <2>7, <3>1 DEF Journals
    <2>10. DOMAIN P \subseteq Nat \ {0} BY <2>2 DEF MemInv, MemTypes
    <2>11. MemTypes' BY <1>1, <1>2, <1>5, <2>1, <2>5, <2>9, <2>10 DEF MemTypes
    <2>12. JournalInv'
        <3>1. h - 1 <= last.height BY <1>5
        <3>2. NothingStored' BY <1>1, <1>2, <1>4, <2>8, <3>1 DEF NothingStored
        <3> QED BY <1>3, <2>3, <2>8, <3>2 DEF JournalInv
    <2>13. TableTip' = h - 1 BY <1>2, <2>8 DEF TableTip, MemLastBlock
    <2>14. TablesInv' BY <2>1, <2>4, <2>6, <2>13 DEF TablesInv, HasOwner
    <2> QED BY <2>11, <2>12, <2>14 DEF MemInv
<1> QED BY <1>6, <1>7

\* Commit appends the journaled balances to the histories.
LEMMA CommitStep ==
    ASSUME MemInv, Commit
    PROVE  MemInv'
<1> DEFINE B == [a \in Accounts |-> balances[a] \o tx.balances[a]]
           T == tx.processedBlocks
           P == [k \in DOMAIN processedBlocks \cup DOMAIN T |->
                    IF k \in DOMAIN T THEN T[k] ELSE processedBlocks[k]]
<1>1. /\ tx' = EmptyTx /\ upd' = NoUpdate /\ last' = MemLastBlock(tx)
      /\ balances' = B /\ processedBlocks' = P
    BY DEF Commit, CommitCall
<1>2. \E k \in {"none", "connect", "rollback"} : upd' = [NoUpdate EXCEPT !.kind = k]
    <2>1. NoUpdate = [NoUpdate EXCEPT !.kind = "none"] BY DEF NoUpdate
    <2> QED BY <1>1, <2>1
<1>3. last'.height \in Nat BY <1>1, Tips DEF MemInv
<1>4. \A a \in Accounts : B[a] = balances[a] \o tx.balances[a] OBVIOUS
<1>5. \A a \in Accounts : History(B[a], last'.height) BY <1>1, <1>4, Joined
<1>6. B \in [Accounts -> Seq(Entry)]
    <2>1. B = [a \in Accounts |-> B[a]] OBVIOUS
    <2> HIDE DEF B
    <2> QED BY <1>5, <2>1 DEF History
<1>7. DOMAIN T \subseteq Nat \ {0} /\ (DOMAIN T # {} => DOMAIN T = {last.height + 1})
    <2>1. DOMAIN T = {} \/ DOMAIN T = {last.height + 1}
        BY DEF MemInv, JournalInv, StoredBlock, NothingStored
    <2>2. last.height + 1 \in Nat \ {0} BY DEF MemInv, MemTypes
    <2> QED BY <2>1, <2>2
<1>8. DOMAIN P \subseteq Nat \ {0}
    <2>1. DOMAIN P = DOMAIN processedBlocks \cup DOMAIN T OBVIOUS
    <2> QED BY <1>7, <2>1 DEF MemInv, MemTypes
<1>9. ASSUME NEW a \in Accounts, NEW i \in DOMAIN B[a]
      PROVE  B[a][i].height \in DOMAIN P /\ a \in P[B[a][i].height].accounts
    <2> DEFINE e == B[a][i]
               s == balances[a]
               t == tx.balances[a]
    <2>0. s \in Seq(Entry) BY DEF MemInv, MemTypes
    <2>a. ASSUME NEW j \in DOMAIN s PROVE s[j].height \in DOMAIN P /\ a \in P[s[j].height].accounts
        <3> DEFINE k == s[j].height
        <3>1. k \in DOMAIN processedBlocks /\ a \in processedBlocks[k].accounts
            BY DEF MemInv, TablesInv, HasOwner
        <3>2. k \in DOMAIN T => a \in T[k].accounts
            <4>1. k \in 1..last.height BY TablesHistory DEF History
            <4>2. DOMAIN T # {} => DOMAIN T = {last.height + 1} BY <1>7
            <4>3. k # last.height + 1 BY <4>1, TablesHistory
            <4> HIDE DEF T, k
            <4> QED BY <4>2, <4>3
        <3> QED BY <3>1, <3>2
    <2>1. CASE t = << >>
        <3>1. B[a] = s
            <4>1. B[a] = s \o << >> BY <1>4, <2>1
            <4> HIDE DEF B, s
            <4> QED BY <2>0, <4>1
        <3>2. e = s[i] /\ i \in DOMAIN s BY <3>1
        <3> QED BY <3>2, <2>a
    <2>2. CASE t # << >>
        <3>1. PICK d \in Entry : Stored /\ t = << d >> /\ d.height = tx.blockHeight
            BY <2>2, JournalCases
        <3>2. Range(B[a]) = Range(s) \cup {d} BY <1>4, <2>0, <3>1, RangeOfAppended
        <3>3. e \in Range(s) \cup {d} BY <3>2 DEF Range
        <3>4. CASE e = d
            <4>1. a \in T[tx.blockHeight].accounts /\ tx.blockHeight \in DOMAIN T
                BY <2>2, <3>1 DEF MemInv, JournalInv, StoredBlock
            <4> QED BY <3>1, <3>4, <4>1
        <3>5. CASE e \in Range(s)
            <4>1. PICK j \in DOMAIN s : e = s[j] BY <3>5 DEF Range
            <4> QED BY <4>1, <2>a
        <3> QED BY <3>3, <3>4, <3>5
    <2> QED BY <2>1, <2>2
<1> HIDE DEF B, P
<1>10. \A a \in Accounts :
          /\ History(balances'[a], last'.height)
          /\ \A i \in DOMAIN balances'[a] : HasOwner(a, balances[a][i])'
    BY <1>1, <1>5, <1>9 DEF HasOwner
<1> QED BY <1>1, <1>2, <1>3, <1>6, <1>8, <1>10, EmptyJournal

\* Every step keeps the invariant.
LEMMA MemNext == MemInv /\ [Next]_vars => MemInv'
<1> SUFFICES ASSUME MemInv, [Next]_vars PROVE MemInv' OBVIOUS
<1>1. CASE Begin \/ Abort BY <1>1, BeginOrAbort
<1>2. CASE MemRollbackTip BY <1>2, RollbackStep
<1>3. CASE Commit BY <1>3, CommitStep
<1>4. CASE \E c \in Coins : MemAddUtxo(c[1], c[2]) \/ MemDelUtxo(c[1], c[2])
    BY <1>4, AddOrDel
<1>5. CASE \E b \in Blocks \ {Genesis}, bals \in BalanceMaps : MemStoreBalances(b, bals)
    BY <1>5, StoreStep
<1>6. CASE UNCHANGED vars
    <2>1. /\ balances' = balances /\ last' = last /\ processedBlocks' = processedBlocks
          /\ tx' = tx /\ upd' = upd
        BY <1>6 DEF vars
    <2>2. MemTypes' BY <2>1 DEF MemInv, MemTypes, Journals
    <2>3. JournalInv' BY <2>1 DEF MemInv, JournalInv, Stored, StoredBlock, NothingStored
    <2>4. TableTip' = TableTip BY <2>1 DEF TableTip, MemLastBlock
    <2>5. TablesInv' BY <2>1, <2>4 DEF MemInv, TablesInv, HasOwner
    <2> QED BY <2>2, <2>3, <2>5 DEF MemInv
<1> QED BY <1>1, <1>2, <1>3, <1>4, <1>5, <1>6 DEF Next

\* Balance is exact in every state of every Update, for any number of blocks
\* and accounts, though an Update journals new balances and RollbackTip writes
\* through; failures after RollbackTip and re-added outputs included.
THEOREM MemLatestTheorem == Spec => []MemBalanceIsLatest
<1>1. Init => MemInv BY MemInit
<1>2. MemInv /\ [Next]_vars => MemInv' BY MemNext
<1>3. MemInv => MemBalanceIsLatest
    <2> SUFFICES ASSUME MemInv, NEW a \in Accounts, NEW h \in 0..(MemLastBlock(tx).height + 1)
                 PROVE  MemBalance(tx, a, h) = Balance(Seen(tx), a, h)
        BY DEF MemBalanceIsLatest
    <2>1. MemLastBlock(tx).height \in Nat BY Tips DEF MemInv
    <2>2. h \in Nat BY <2>1
    <2> QED BY <2>2, ReadExact
<1> QED BY <1>1, <1>2, <1>3, PTL DEF Spec

-----------------------------------------------------------------------------
(* The buckets.                                                            *)

\* The utxos of the outpoints: an outpoint fixes its amount.
Utxos == {<<o, Amount(o)>> : o \in Outpoints}

\* The states of an account's buckets: none, one utxo, a few, the long tail.
NoUtxos == [single |-> {}, few |-> {}, many |-> {}]
Single(u) == [single |-> {u}, few |-> {}, many |-> {}]
Few(D) == [single |-> {}, few |-> {SetToBag(D)}, many |-> {}]
Many(m) == [single |-> {}, few |-> {}, many |-> {m}]

\* What the slice of a few may hold.
FewSets == {D \in SUBSET Utxos : IsFiniteSet(D) /\ Cardinality(D) < FewUtxoLimit}
BucketStates ==
    {NoUtxos} \cup {Single(u) : u \in Utxos} \cup {Few(D) : D \in FewSets}
    \cup {Many(m) : m \in SUBSET Utxos}

\* What the three buckets hold together.
InBuckets(bk) == bk.single \cup (UNION {BagToSet(b) : b \in bk.few}) \cup (UNION bk.many)

\* Coin c is stored.
Held(c) == <<c[2], Amount(c[2])>> \in InBuckets(buckets[c[1]])

\* An account is in one of the four states; the journal adds known utxos that
\* are not stored, and `before' names exactly the stored ones while an Update
\* is open.
UtxoInv ==
    /\ buckets \in [Accounts -> BucketStates]
    /\ DOMAIN tx.utxos \subseteq Accounts
    /\ \A a \in DOMAIN tx.utxos :
          /\ tx.utxos[a] \subseteq Utxos /\ IsFiniteSet(tx.utxos[a])
          /\ tx.utxos[a] \cap InBuckets(buckets[a]) = {}
    /\ tx.delUtxos \subseteq Coin /\ IsFiniteSet(tx.delUtxos)
    /\ upd.kind # "none" => DOMAIN before.utxos = {c \in Coin : Held(c)}

\* The table of processed blocks has no gap up to the tip the tables stand for;
\* RollbackTip alone writes it, so until then an Update can be dropped.
ContractInv ==
    /\ DOMAIN processedBlocks = 1..TableTip
    /\ upd.kind = "rollback" /\ ~upd.tips => ~tx.updatedBlock
    /\ upd.kind # "none" /\ ~(upd.kind = "rollback" /\ upd.tips) => before = Seen(EmptyTx)

\* A utxo is determined by its outpoint.
LEMMA UtxoShape ==
    /\ \A u \in Utxos : u[1] \in Outpoints /\ u = <<u[1], Amount(u[1])>>
    /\ \A u, v \in Utxos : u[1] = v[1] => u = v
    /\ \A o \in Outpoints : <<o, Amount(o)>> \in Utxos
BY DEF Utxos

\* Assigning to a map keyed by outpoint loses nothing.
LEMMA AssignIsUnion ==
    ASSUME NEW m \in SUBSET Utxos, NEW us \in SUBSET Utxos
    PROVE  Assign(m, us) = m \cup us
<1>1. \A u \in m : u[1] \in Outps(us) => u \in us BY UtxoShape DEF Outps
<1> QED BY <1>1 DEF Assign

\* The length of a slice without duplicates.
LEMMA LengthOnce ==
    ASSUME NEW D, IsFiniteSet(D)
    PROVE  BagCardinality(SetToBag(D)) = Cardinality(D)
<1> DEFINE f == SetToBag(D)
           G == {T \in SUBSET D : SumFunctionOnSet(f, T) = Cardinality(T)}
<1>1. DOMAIN f = D /\ \A x \in D : f[x] = 1 BY DEF SetToBag
<1> HIDE DEF f
<1>2. ASSUME NEW T \in SUBSET D, \A x \in T : T \ {x} \in G PROVE T \in G
    <2>1. IsFiniteSet(T) /\ Cardinality(T) \in Nat BY FS_Subset, FS_CardinalityType
    <2>2. CASE T = {}
        <3>1. SumFunctionOnSet(f, T) = 0 BY <2>2, SumEmpty
        <3>2. Cardinality(T) = 0 BY <2>2, FS_EmptySet
        <3> QED BY <3>1, <3>2
    <2>3. CASE T # {}
        <3> DEFINE x == Taken(T)
        <3>1. x \in T BY <2>3, TakenIn
        <3>2. SumFunctionOnSet(f, T) = f[x] + SumFunctionOnSet(f, T \ {x}) BY <2>1, <2>3, SumFirst
        <3>3. Cardinality(T \ {x}) = Cardinality(T) - 1 BY <2>1, <3>1, FS_RemoveElement
        <3>4. SumFunctionOnSet(f, T \ {x}) = Cardinality(T) - 1 BY <1>2, <3>1, <3>3
        <3>5. f[x] = 1 BY <1>1, <3>1
        <3> HIDE DEF x
        <3>6. SumFunctionOnSet(f, T) = Cardinality(T) BY <2>1, <3>2, <3>4, <3>5
        <3> QED BY <3>6
    <2> QED BY <2>2, <2>3
<1>3. SUBSET D \subseteq G
    <2> HIDE DEF G
    <2> QED BY <1>2, SubsetInduction
<1>4. SumFunctionOnSet(f, D) = Cardinality(D) BY <1>3
<1>5. BagCardinality(f) = SumFunctionOnSet(f, DOMAIN f)
    BY DEF BagCardinality, SumFunctionOnSet, FoldFunctionOnSet, MapThenFoldSet
<1> QED BY <1>1, <1>4, <1>5 DEF f

\* Appending to a slice without duplicates.
LEMMA JoinOnce ==
    ASSUME NEW D, NEW E, D \cap E = {}
    PROVE  SetToBag(D) (+) SetToBag(E) = SetToBag(D \cup E)
BY DEF SetToBag, (+)

\* Removing one entry of a slice without duplicates.
LEMMA TakeOnce ==
    ASSUME NEW D, NEW u \in D
    PROVE  SetToBag(D) (-) SetToBag({u}) = SetToBag(D \ {u})
<1> DEFINE f == SetToBag(D)
           g == SetToBag({u})
           B == [e \in DOMAIN f |-> IF e \in DOMAIN g THEN f[e] - g[e] ELSE f[e]]
<1>1. DOMAIN B = D /\ B[u] = 0 /\ \A x \in D \ {u} : B[x] = 1 BY DEF SetToBag
<1>2. f (-) g = [e \in {d \in DOMAIN B : B[d] > 0} |-> B[e]] BY DEF (-)
<1> HIDE DEF B
<1>3. {d \in DOMAIN B : B[d] > 0} = D \ {u} BY <1>1
<1> QED BY <1>1, <1>2, <1>3 DEF SetToBag

\* What the four states hold.
LEMMA HeldIn ==
    /\ InBuckets(NoUtxos) = {} /\ FewOf(NoUtxos) = SetToBag({})
    /\ \A u : InBuckets(Single(u)) = {u} /\ FewOf(Single(u)) = SetToBag({})
    /\ \A D : InBuckets(Few(D)) = D /\ FewOf(Few(D)) = SetToBag(D)
    /\ \A m : InBuckets(Many(m)) = m /\ FewOf(Many(m)) = SetToBag({})
<1>1. InBuckets(NoUtxos) = {} /\ FewOf(NoUtxos) = SetToBag({}) BY DEF InBuckets, NoUtxos, FewOf, EmptyBag
<1>2. \A u : InBuckets(Single(u)) = {u} /\ FewOf(Single(u)) = SetToBag({})
    BY DEF InBuckets, Single, FewOf, EmptyBag
<1>3. ASSUME NEW D PROVE InBuckets(Few(D)) = D /\ FewOf(Few(D)) = SetToBag(D)
    <2>1. BagToSet(SetToBag(D)) = D BY DEF BagToSet, SetToBag
    <2>2. Few(D).few = {SetToBag(D)} /\ Few(D).single = {} /\ Few(D).many = {} BY DEF Few
    <2>3. (CHOOSE b \in {SetToBag(D)} : TRUE) = SetToBag(D) OBVIOUS
    <2> QED BY <2>1, <2>2, <2>3 DEF InBuckets, FewOf
<1>4. ASSUME NEW m PROVE InBuckets(Many(m)) = m /\ FewOf(Many(m)) = SetToBag({})
    <2>1. Many(m).few = {} /\ Many(m).single = {} /\ Many(m).many = {m} BY DEF Many
    <2> DEFINE bags == UNION {BagToSet(b) : b \in Many(m).few}
               tail == UNION Many(m).many
    <2>2. bags = {} /\ tail = m BY <2>1
    <2>3. InBuckets(Many(m)) = Many(m).single \cup bags \cup tail BY DEF InBuckets
    <2> HIDE DEF bags, tail
    <2>4. InBuckets(Many(m)) = m BY <2>1, <2>2, <2>3
    <2>5. FewOf(Many(m)) = SetToBag({}) BY <2>1 DEF FewOf, EmptyBag
    <2> QED BY <2>4, <2>5
<1> QED BY <1>1, <1>2, <1>3, <1>4

\* The four states, one by one.
LEMMA BucketCases ==
    ASSUME NEW bk \in BucketStates
    PROVE  \/ bk = NoUtxos
           \/ \E u \in Utxos : bk = Single(u)
           \/ \E D \in FewSets : bk = Few(D)
           \/ \E m \in SUBSET Utxos : bk = Many(m)
BY DEF BucketStates

\* AddToBuckets keeps an account in one of the four states and adds exactly us,
\* provided us holds nothing the account has: the slice takes all it is given.
LEMMA AddToOneBucket ==
    ASSUME NEW bk \in BucketStates, NEW us \in SUBSET Utxos, IsFiniteSet(us),
           us \cap InBuckets(bk) = {}
    PROVE  /\ AddToBuckets(bk, us) \in BucketStates
           /\ InBuckets(AddToBuckets(bk, us)) = InBuckets(bk) \cup us
<1> DEFINE N == Cardinality(us)
           new == AddToBuckets(bk, us)
           Good(x, S) == x \in BucketStates /\ InBuckets(x) = S
<1>1. N \in Nat BY FS_CardinalityType
<1>2. FewUtxoLimit \in Nat BY MemDbAssumption
<1>3. ASSUME NEW D \in SUBSET Utxos, IsFiniteSet(D), Cardinality(D) < FewUtxoLimit
      PROVE  Good(Few(D), D)
    BY <1>3, HeldIn DEF BucketStates, FewSets
<1>4. \A m \in SUBSET Utxos : Good(Many(m), m) BY HeldIn DEF BucketStates
<1>5. N = 1 => \E u \in Utxos : us = {u}
    BY FS_Singleton
<1>6. Cardinality({}) = 0 /\ BagCardinality(SetToBag({})) = 0 BY FS_EmptySet, LengthOnce
<1>7. Assign({}, {}) = {} /\ Assign({}, us) = us BY AssignIsUnion
<1>8. ASSUME bk = NoUtxos PROVE Good(new, us)
    <2>1. bk.single = {} /\ bk.few = {} /\ bk.many = {} /\ FewOf(bk) = SetToBag({})
        BY <1>8, HeldIn DEF NoUtxos
    <2>2. CASE N = 1
        <3>1. PICK u \in Utxos : us = {u} BY <1>5, <2>2
        <3>2. new = [bk EXCEPT !.single = us] BY <2>1, <2>2 DEF AddToBuckets
        <3>3. new = Single(u) BY <1>8, <3>1, <3>2 DEF NoUtxos, Single
        <3>4. Good(Single(u), {u}) BY HeldIn DEF BucketStates
        <3> QED BY <1>8, <3>1, <3>3, <3>4, HeldIn
    <2>3. CASE N # 1 /\ N < FewUtxoLimit
        <3>1. N + 0 + 0 < FewUtxoLimit BY <1>1, <2>3
        <3>2. new = [bk EXCEPT !.single = {}, !.few = {SetToBag({}) (+) SetToBag({}) (+) SetToBag(us)}]
            BY <1>6, <2>1, <2>3, <3>1 DEF AddToBuckets
        <3>3. SetToBag({}) (+) SetToBag({}) (+) SetToBag(us) = SetToBag(us)
            <4>1. SetToBag({}) (+) SetToBag({}) = SetToBag({}) BY JoinOnce
            <4>2. SetToBag({}) (+) SetToBag(us) = SetToBag(us) BY JoinOnce
            <4> QED BY <4>1, <4>2
        <3>4. new = Few(us) BY <1>8, <3>2, <3>3 DEF NoUtxos, Few
        <3>5. Good(Few(us), us) BY <1>3, <2>3
        <3> QED BY <1>8, <3>4, <3>5, HeldIn
    <2>4. CASE N # 1 /\ ~(N < FewUtxoLimit)
        <3>1. ~(N + 0 + 0 < FewUtxoLimit) BY <1>1, <2>4
        <3>2. new = [single |-> {}, few |-> {},
                     many |-> {Assign(Assign(Assign(UNION {}, {}), BagToSet(SetToBag({}))), us)}]
            BY <1>6, <2>1, <2>4, <3>1 DEF AddToBuckets
        <3>3. BagToSet(SetToBag({})) = {} /\ UNION {} = {} BY DEF BagToSet, SetToBag
        <3>4. new = Many(us) BY <1>7, <3>2, <3>3 DEF Many
        <3> QED BY <1>4, <1>8, <3>4, HeldIn
    <2> QED BY <2>2, <2>3, <2>4
<1>9. ASSUME NEW x \in Utxos, bk = Single(x) PROVE Good(new, {x} \cup us)
    <2>1. bk.single = {x} /\ bk.few = {} /\ bk.many = {} /\ FewOf(bk) = SetToBag({})
        BY <1>9, HeldIn DEF Single
    <2>2. Cardinality({x}) = 1 /\ bk.single # {} /\ IsFiniteSet({x}) BY <2>1, FS_Singleton
    <2>3. {x} \cap us = {} BY <1>9, HeldIn
    <2>4. IsFiniteSet({x} \cup us) /\ Cardinality({x} \cup us) = N + 1
        <3>1. x \notin us BY <2>3
        <3>2. IsFiniteSet(us \cup {x}) /\ Cardinality(us \cup {x}) = N + 1 BY <3>1, FS_AddElement
        <3>3. us \cup {x} = {x} \cup us OBVIOUS
        <3> QED BY <3>2, <3>3
    <2>5. CASE N + 1 < FewUtxoLimit
        <3>1. N + 0 + 1 < FewUtxoLimit BY <1>1, <2>5
        <3>2. new = [bk EXCEPT !.single = {}, !.few = {SetToBag({}) (+) SetToBag({x}) (+) SetToBag(us)}]
            BY <1>6, <2>1, <2>2, <3>1 DEF AddToBuckets
        <3>3. SetToBag({}) (+) SetToBag({x}) (+) SetToBag(us) = SetToBag({x} \cup us)
            <4>1. SetToBag({}) (+) SetToBag({x}) = SetToBag({x}) BY JoinOnce
            <4>2. SetToBag({x}) (+) SetToBag(us) = SetToBag({x} \cup us) BY <2>3, JoinOnce
            <4> QED BY <4>1, <4>2
        <3>4. new = Few({x} \cup us) BY <1>9, <3>2, <3>3 DEF Single, Few
        <3> QED BY <1>3, <2>4, <2>5, <3>4
    <2>6. CASE ~(N + 1 < FewUtxoLimit)
        <3>1. ~(N + 0 + 1 < FewUtxoLimit) BY <1>1, <2>6
        <3>2. new = [single |-> {}, few |-> {},
                     many |-> {Assign(Assign(Assign(UNION {}, {x}), BagToSet(SetToBag({}))), us)}]
            BY <1>6, <2>1, <2>2, <3>1 DEF AddToBuckets
        <3>3. BagToSet(SetToBag({})) = {} /\ UNION {} = {} BY DEF BagToSet, SetToBag
        <3>4. Assign({}, {x}) = {x} /\ Assign({x}, {}) = {x} /\ Assign({x}, us) = {x} \cup us
            BY AssignIsUnion
        <3>5. new = Many({x} \cup us) BY <3>2, <3>3, <3>4 DEF Many
        <3> QED BY <1>4, <3>5
    <2> QED BY <2>5, <2>6
<1>10. ASSUME NEW D \in FewSets, bk = Few(D) PROVE Good(new, D \cup us)
    <2>1. bk.single = {} /\ bk.few # {} /\ bk.many = {} /\ FewOf(bk) = SetToBag(D)
        BY <1>10, HeldIn DEF Few
    <2>2. D \in SUBSET Utxos /\ IsFiniteSet(D) /\ Cardinality(D) \in Nat BY FS_CardinalityType DEF FewSets
    <2>3. D \cap us = {} BY <1>10, HeldIn
    <2>4. IsFiniteSet(D \cup us) /\ Cardinality(D \cup us) = Cardinality(D) + N
        <3>1. /\ IsFiniteSet(D \cup us)
              /\ Cardinality(D \cup us) = Cardinality(D) + N - Cardinality(D \cap us)
            BY <2>2, FS_Union
        <3>2. Cardinality(D \cap us) = 0 BY <1>6, <2>3
        <3> QED BY <1>1, <2>2, <3>1, <3>2
    <2>5. BagCardinality(SetToBag(D)) = Cardinality(D) BY <2>2, LengthOnce
    <2>6. CASE Cardinality(D) + N < FewUtxoLimit
        <3>1. N + Cardinality(D) + 0 < FewUtxoLimit BY <1>1, <2>2, <2>6
        <3>2. new = [bk EXCEPT !.single = {}, !.few = {SetToBag(D) (+) SetToBag({}) (+) SetToBag(us)}]
            BY <1>6, <2>1, <2>5, <3>1 DEF AddToBuckets
        <3>3. SetToBag(D) (+) SetToBag({}) (+) SetToBag(us) = SetToBag(D \cup us)
            <4>1. SetToBag(D) (+) SetToBag({}) = SetToBag(D) BY JoinOnce
            <4>2. SetToBag(D) (+) SetToBag(us) = SetToBag(D \cup us) BY <2>3, JoinOnce
            <4> QED BY <4>1, <4>2
        <3>4. new = Few(D \cup us) BY <1>10, <3>2, <3>3 DEF Few
        <3>5. Cardinality(D \cup us) < FewUtxoLimit BY <2>4, <2>6
        <3>6. D \cup us \in SUBSET Utxos BY <2>2
        <3> QED BY <1>3, <2>4, <3>4, <3>5, <3>6
    <2>7. CASE ~(Cardinality(D) + N < FewUtxoLimit)
        <3>1. ~(N + Cardinality(D) + 0 < FewUtxoLimit) BY <1>1, <2>2, <2>7
        <3>2. new = [single |-> {}, few |-> {},
                     many |-> {Assign(Assign(Assign(UNION {}, {}), BagToSet(SetToBag(D))), us)}]
            BY <1>6, <2>1, <2>5, <3>1 DEF AddToBuckets
        <3>3. BagToSet(SetToBag(D)) = D /\ UNION {} = {} BY DEF BagToSet, SetToBag
        <3>4. Assign({}, D) = D /\ Assign(D, us) = D \cup us BY <2>2, AssignIsUnion
        <3>5. new = Many(D \cup us) BY <1>7, <3>2, <3>3, <3>4 DEF Many
        <3>6. D \cup us \in SUBSET Utxos BY <2>2
        <3> QED BY <1>4, <3>5, <3>6
    <2> QED BY <2>6, <2>7
<1>11. ASSUME NEW m \in SUBSET Utxos, bk = Many(m) PROVE Good(new, m \cup us)
    <2>1. bk.single = {} /\ bk.few = {} /\ bk.many = {m} /\ bk.many # {} /\ FewOf(bk) = SetToBag({})
        BY <1>11, HeldIn DEF Many
    <2>2. new = [single |-> {}, few |-> {},
                 many |-> {Assign(Assign(Assign(UNION {m}, {}), BagToSet(SetToBag({}))), us)}]
        BY <2>1 DEF AddToBuckets
    <2>3. BagToSet(SetToBag({})) = {} /\ UNION {m} = m BY DEF BagToSet, SetToBag
    <2>4. Assign(m, {}) = m /\ Assign(m, us) = m \cup us BY AssignIsUnion
    <2>5. new = Many(m \cup us) BY <2>2, <2>3, <2>4 DEF Many
    <2> QED BY <1>4, <2>5
<1> HIDE DEF Good
<1>12. Good(new, InBuckets(bk) \cup us)
    <2>0. ASSUME bk = NoUtxos PROVE Good(new, InBuckets(bk) \cup us)
        <3>1. InBuckets(bk) \cup us = us BY <2>0, HeldIn
        <3> QED BY <1>8, <2>0, <3>1
    <2>1. ASSUME NEW x \in Utxos, bk = Single(x) PROVE Good(new, InBuckets(bk) \cup us)
        BY <1>9, <2>1, HeldIn
    <2>2. ASSUME NEW D \in FewSets, bk = Few(D) PROVE Good(new, InBuckets(bk) \cup us)
        BY <1>10, <2>2, HeldIn
    <2>3. ASSUME NEW m \in SUBSET Utxos, bk = Many(m) PROVE Good(new, InBuckets(bk) \cup us)
        BY <1>11, <2>3, HeldIn
    <2> QED BY <2>0, <2>1, <2>2, <2>3, BucketCases
<1> QED BY <1>12 DEF Good

\* What is left of the utxos S without those of the outpoints O.
Without(S, O) == {u \in S : u[1] \notin O}

\* DelFromBuckets keeps the four states and removes exactly the outpoint.
LEMMA DelFromOneBucket ==
    ASSUME NEW bk \in BucketStates, NEW o
    PROVE  /\ DelFromBuckets(bk, o) \in BucketStates
           /\ InBuckets(DelFromBuckets(bk, o)) = Without(InBuckets(bk), {o})
<1> DEFINE new == DelFromBuckets(bk, o)
           Good(x, S) == x \in BucketStates /\ InBuckets(x) = S
<1>1. FewUtxoLimit \in Nat BY MemDbAssumption
<1>2. \A m \in SUBSET Utxos : Good(Many(m), m) BY HeldIn DEF BucketStates
<1>3. Good(NoUtxos, {}) BY HeldIn DEF BucketStates
<1>4. BagToSet(SetToBag({})) = {} BY DEF BagToSet, SetToBag
<1>5. ASSUME bk = NoUtxos PROVE Good(new, Without({}, {o}))
    <2>1. bk.single = {} /\ bk.few = {} /\ bk.many = {} /\ FewOf(bk) = SetToBag({})
        BY <1>5, HeldIn DEF NoUtxos
    <2>2. {u \in BagToSet(FewOf(bk)) : u[1] = o} = {} BY <1>4, <2>1
    <2>3. new = [single |-> {}, few |-> {}, many |-> {}] BY <2>1, <2>2 DEF DelFromBuckets
    <2>4. new = NoUtxos BY <2>3 DEF NoUtxos
    <2>5. Without({}, {o}) = {} BY DEF Without
    <2> QED BY <1>3, <2>4, <2>5
<1>6. ASSUME NEW x \in Utxos, bk = Single(x) PROVE Good(new, Without({x}, {o}))
    <2>1. bk.single = {x} /\ bk.few = {} /\ bk.many = {} /\ FewOf(bk) = SetToBag({})
        BY <1>6, HeldIn DEF Single
    <2>2. {u \in BagToSet(FewOf(bk)) : u[1] = o} = {} BY <1>4, <2>1
    <2>3. new = [single |-> {u \in {x} : u[1] # o}, few |-> {}, many |-> {}]
        BY <2>1, <2>2 DEF DelFromBuckets
    <2>4. CASE x[1] = o
        <3>1. {u \in {x} : u[1] # o} = {} /\ Without({x}, {o}) = {} BY <2>4 DEF Without
        <3>2. new = NoUtxos BY <2>3, <3>1 DEF NoUtxos
        <3> QED BY <1>3, <3>1, <3>2
    <2>5. CASE x[1] # o
        <3>1. {u \in {x} : u[1] # o} = {x} /\ Without({x}, {o}) = {x} BY <2>5 DEF Without
        <3>2. new = Single(x) BY <2>3, <3>1 DEF Single
        <3>3. Good(Single(x), {x}) BY HeldIn DEF BucketStates
        <3> QED BY <3>1, <3>2, <3>3
    <2> QED BY <2>4, <2>5
<1>7. ASSUME NEW D \in FewSets, bk = Few(D) PROVE Good(new, Without(D, {o}))
    <2>1. bk.single = {} /\ bk.few = {SetToBag(D)} /\ bk.many = {} /\ FewOf(bk) = SetToBag(D)
        BY <1>7, HeldIn DEF Few
    <2>2. D \in SUBSET Utxos /\ IsFiniteSet(D) /\ Cardinality(D) \in Nat /\ Cardinality(D) < FewUtxoLimit
        BY FS_CardinalityType DEF FewSets
    <2>3. BagToSet(SetToBag(D)) = D BY DEF BagToSet, SetToBag
    <2> DEFINE found == {u \in D : u[1] = o}
    <2>4. new = [single |-> {}, many |-> {},
                 few |-> IF found = {} THEN {SetToBag(D)}
                         ELSE {SetToBag(D) (-) SetToBag({CHOOSE u \in found : TRUE})}]
        BY <2>1, <2>3 DEF DelFromBuckets
    <2>5. CASE found = {}
        <3>1. new = Few(D) BY <2>4, <2>5 DEF Few
        <3>2. Without(D, {o}) = D BY <2>5 DEF Without
        <3> QED BY <1>7, <3>1, <3>2, HeldIn DEF BucketStates
    <2>6. CASE found # {}
        <3> DEFINE y == CHOOSE u \in found : TRUE
        <3>1. y \in D /\ y[1] = o BY <2>6
        <3>2. new = [single |-> {}, many |-> {}, few |-> {SetToBag(D) (-) SetToBag({y})}]
            BY <2>4, <2>6
        <3> HIDE DEF y, found
        <3>3. new = Few(D \ {y})
            <4>1. SetToBag(D) (-) SetToBag({y}) = SetToBag(D \ {y}) BY <3>1, TakeOnce
            <4> QED BY <3>2, <4>1 DEF Few
        <3>4. Without(D, {o}) = D \ {y} BY <2>2, <3>1, UtxoShape DEF Without
        <3>5. IsFiniteSet(D \ {y}) /\ Cardinality(D \ {y}) = Cardinality(D) - 1
            BY <2>2, <3>1, FS_RemoveElement
        <3>6. Cardinality(D \ {y}) < FewUtxoLimit BY <1>1, <2>2, <3>5
        <3>7. D \ {y} \in FewSets BY <2>2, <3>5, <3>6 DEF FewSets
        <3>8. Good(Few(D \ {y}), D \ {y}) BY <3>7, HeldIn DEF BucketStates
        <3> QED BY <3>3, <3>4, <3>8
    <2> QED BY <2>5, <2>6
<1>8. ASSUME NEW m \in SUBSET Utxos, bk = Many(m) PROVE Good(new, Without(m, {o}))
    <2>1. bk.single = {} /\ bk.few = {} /\ bk.many = {m} /\ FewOf(bk) = SetToBag({})
        BY <1>8, HeldIn DEF Many
    <2>2. {u \in BagToSet(FewOf(bk)) : u[1] = o} = {} BY <1>4, <2>1
    <2>3. {{u \in x : u[1] # o} : x \in {m}} = {Without(m, {o})} BY DEF Without
    <2>4. {u \in {} : u[1] # o} = {} OBVIOUS
    <2>5. new = [single |-> {}, few |-> {}, many |-> {Without(m, {o})}]
        BY <2>1, <2>2, <2>3, <2>4 DEF DelFromBuckets
    <2>6. new = Many(Without(m, {o})) BY <2>5 DEF Many
    <2>7. Without(m, {o}) \in SUBSET Utxos BY DEF Without
    <2> QED BY <1>2, <2>6, <2>7
<1> HIDE DEF Good
<1>9. Good(new, Without(InBuckets(bk), {o}))
    <2>1. ASSUME NEW x \in Utxos, bk = Single(x) PROVE Good(new, Without(InBuckets(bk), {o}))
        BY <1>6, <2>1, HeldIn
    <2>2. ASSUME NEW D \in FewSets, bk = Few(D) PROVE Good(new, Without(InBuckets(bk), {o}))
        BY <1>7, <2>2, HeldIn
    <2>3. ASSUME NEW m \in SUBSET Utxos, bk = Many(m) PROVE Good(new, Without(InBuckets(bk), {o}))
        BY <1>8, <2>3, HeldIn
    <2>4. ASSUME bk = NoUtxos PROVE Good(new, Without(InBuckets(bk), {o})) BY <1>5, <2>4, HeldIn
    <2> QED BY <2>1, <2>2, <2>3, <2>4, BucketCases
<1> QED BY <1>9 DEF Good

\* The deletions of a commit, in any order.
DelAll(bk, O) == FoldSet(LAMBDA o, b : DelFromBuckets(b, o), bk, O)

\* The loop over the outpoints to delete, round by round.
DelSteps(g, bk, O) ==
    \A T \in SUBSET O :
        g[T] = IF T = {} THEN bk ELSE DelFromBuckets(g[T \ {Taken(T)}], Taken(T))

\* The deletions of Commit are such a loop.
LEMMA DelRounds ==
    ASSUME NEW bk \in BucketStates, NEW O, IsFiniteSet(O)
    PROVE  \E g : DelAll(bk, O) = g[O] /\ DelSteps(g, bk, O)
<1> DEFINE V == BucketStates
           F == [o \in O |-> [b \in V |-> DelFromBuckets(b, o)]]
           Eqn(it) == it = [T \in SUBSET O |->
                        IF T = {} THEN bk
                        ELSE DelFromBuckets(it[T \ {CHOOSE x \in T : TRUE}], CHOOSE x \in T : TRUE)]
           g == CHOOSE it : Eqn(it)
<1>1. Loop(F, bk, O, V) BY DelFromOneBucket DEF Loop
<1>2. \A o \in O, b \in V : F[o][b] = DelFromBuckets(b, o) OBVIOUS
<1> HIDE DEF F, V
<1>3. PICK jt : LoopResults(jt, F, bk, O, V) BY <1>1, SetLoopExists
<1>4. Eqn(jt)
    <2> DEFINE R(T) == IF T = {} THEN bk ELSE DelFromBuckets(jt[T \ {Taken(T)}], Taken(T))
    <2>0. jt \in [SUBSET O -> V] /\ \A T \in SUBSET O : jt[T] = LoopRound(F, bk, jt, T)
        BY <1>3 DEF LoopResults
    <2>1. ASSUME NEW T \in SUBSET O PROVE jt[T] = R(T)
        <3>1. CASE T = {} BY <2>0, <3>1 DEF LoopRound
        <3>2. CASE T # {}
            <4>1. Taken(T) \in O /\ T \ {Taken(T)} \in SUBSET O BY <3>2, TakenIn
            <4>2. jt[T \ {Taken(T)}] \in V BY <2>0, <4>1
            <4>3. F[Taken(T)][jt[T \ {Taken(T)}]] = DelFromBuckets(jt[T \ {Taken(T)}], Taken(T))
                BY <1>2, <4>1, <4>2
            <4> QED BY <2>0, <3>2, <4>3 DEF LoopRound
        <3> QED BY <3>1, <3>2
    <2>2. jt = [T \in SUBSET O |-> jt[T]] BY <2>0
    <2>3. jt = [T \in SUBSET O |-> R(T)]
        <3> HIDE DEF R
        <3> QED BY <2>1, <2>2, Zenon
    <2> QED BY <2>3 DEF Taken
<1>5. Eqn(g)
    <2> HIDE DEF Eqn
    <2> QED BY <1>4
<1>6. DelAll(bk, O) = g[O] BY DEF DelAll, FoldSet, MapThenFoldSet
<1> HIDE DEF g
<1>7. \A T \in SUBSET O : g[T] = IF T = {} THEN bk ELSE DelFromBuckets(g[T \ {Taken(T)}], Taken(T))
    BY <1>5 DEF Taken
<1> QED BY <1>6, <1>7 DEF DelSteps

\* All deletions together, whatever order the map iteration gives them.
LEMMA DelAllFromOneBucket ==
    ASSUME NEW bk \in BucketStates, NEW O, IsFiniteSet(O)
    PROVE  /\ DelAll(bk, O) \in BucketStates
           /\ InBuckets(DelAll(bk, O)) = Without(InBuckets(bk), O)
<1>1. PICK g : DelAll(bk, O) = g[O] /\ DelSteps(g, bk, O) BY DelRounds
<1> DEFINE Good(x, T) == x \in BucketStates /\ InBuckets(x) = Without(InBuckets(bk), T)
           G == {T \in SUBSET O : Good(g[T], T)}
<1>2. ASSUME NEW T \in SUBSET O, \A x \in T : T \ {x} \in G PROVE T \in G
    <2>1. CASE T = {}
        <3>1. g[T] = bk BY <1>1, <2>1 DEF DelSteps
        <3>2. Without(InBuckets(bk), {}) = InBuckets(bk) BY DEF Without
        <3> QED BY <2>1, <3>1, <3>2
    <2>2. CASE T # {}
        <3> DEFINE x == Taken(T)
                   U == T \ {x}
        <3>1. x \in T /\ U \in G BY <1>2, <2>2, TakenIn
        <3>2. g[T] = DelFromBuckets(g[U], x) BY <1>1, <2>2 DEF DelSteps
        <3>3. g[U] \in BucketStates /\ InBuckets(g[U]) = Without(InBuckets(bk), U) BY <3>1
        <3> HIDE DEF U, x
        <3>4. g[T] \in BucketStates /\ InBuckets(g[T]) = Without(InBuckets(g[U]), {x})
            BY <3>2, <3>3, DelFromOneBucket
        <3>5. U \cup {x} = T BY <3>1 DEF U
        <3>6. Without(Without(InBuckets(bk), U), {x}) = Without(InBuckets(bk), T)
            BY <3>5 DEF Without
        <3> QED BY <3>3, <3>4, <3>6
    <2> QED BY <2>1, <2>2
<1>3. SUBSET O \subseteq G
    <2> HIDE DEF G
    <2> QED BY <1>2, SubsetInduction
<1>4. Good(g[O], O) BY <1>3
<1> QED BY <1>1, <1>4

\* What account a has in the buckets, in the journal and among the deletions.
Stock(a) == InBuckets(buckets[a])
Added(a) == IF a \in DOMAIN tx.utxos THEN tx.utxos[a] ELSE {}
Deleted(a) == {c[2] : c \in {c \in tx.delUtxos : c[1] = a}}

\* The coins of the accounts' utxos L, and their amounts.
CoinsOf(L) == {c \in Coin : <<c[2], Amount(c[2])>> \in L[c[1]]}
AmountsOf(C) == [c \in C |-> Amount(c[2])]

\* The map of coins as Seen builds it.
CoinFcn(coins) == [c \in {<<x[1], x[2][1]>> : x \in coins} |->
                      (CHOOSE x \in coins : c = <<x[1], x[2][1]>>)[2][2]]
PairsOf(L) == UNION {{a} \X L[a] : a \in Accounts}

\* The table of coins Seen builds, as the amounts of a set of coins.
LEMMA CoinMap ==
    ASSUME NEW L, \A a \in Accounts : L[a] \subseteq Utxos
    PROVE  CoinFcn(PairsOf(L)) = AmountsOf(CoinsOf(L))
<1> DEFINE coins == PairsOf(L)
<1>1. \A x : x \in coins <=> \E a \in Accounts : \E u \in L[a] : x = <<a, u>> BY DEF PairsOf
<1> HIDE DEF coins
<1>2. ASSUME NEW x \in coins
      PROVE  /\ <<x[1], x[2][1]>> \in CoinsOf(L)
             /\ x = <<x[1], <<x[2][1], Amount(x[2][1])>> >>
    <2>0. PICK a \in Accounts : \E u \in L[a] : x = <<a, u>> BY <1>1
    <2>1. PICK u \in L[a] : x = <<a, u>> BY <2>0
    <2>2. u[1] \in Outpoints /\ u = <<u[1], Amount(u[1])>> BY UtxoShape
    <2>3. x[1] = a /\ x[2] = u BY <2>1
    <2>4. <<a, u[1]>> \in Coin BY <2>2 DEF Coin
    <2>5. <<a, u[1]>> \in CoinsOf(L) BY <2>2, <2>4 DEF CoinsOf
    <2> QED BY <2>1, <2>2, <2>3, <2>5
<1>3. ASSUME NEW c \in CoinsOf(L)
      PROVE  /\ <<c[1], <<c[2], Amount(c[2])>> >> \in coins
             /\ c = <<c[1], c[2]>>
    <2>1. c \in Coin /\ <<c[2], Amount(c[2])>> \in L[c[1]] BY DEF CoinsOf
    <2>2. c[1] \in Accounts /\ c = <<c[1], c[2]>> BY <2>1 DEF Coin
    <2> QED BY <1>1, <2>1, <2>2
<1>4. {<<x[1], x[2][1]>> : x \in coins} = CoinsOf(L)
    <2>1. ASSUME NEW c \in CoinsOf(L) PROVE c \in {<<x[1], x[2][1]>> : x \in coins}
        <3> DEFINE y == <<c[1], <<c[2], Amount(c[2])>> >>
        <3>1. y \in coins /\ c = <<y[1], y[2][1]>> BY <1>3
        <3> HIDE DEF y
        <3> QED BY <3>1
    <2> QED BY <1>2, <2>1
<1>5. ASSUME NEW c \in CoinsOf(L)
      PROVE  (CHOOSE x \in coins : c = <<x[1], x[2][1]>>)[2][2] = Amount(c[2])
    <2> DEFINE y == CHOOSE x \in coins : c = <<x[1], x[2][1]>>
               z == <<c[1], <<c[2], Amount(c[2])>> >>
    <2>1. z \in coins /\ c = <<z[1], z[2][1]>> BY <1>3
    <2> HIDE DEF z
    <2>2. y \in coins /\ c = <<y[1], y[2][1]>> BY <2>1
    <2> HIDE DEF y
    <2>3. y = <<y[1], <<y[2][1], Amount(y[2][1])>> >> BY <1>2, <2>2
    <2>4. c[2] = y[2][1] BY <2>2
    <2>5. y[2][2] = Amount(y[2][1]) BY <2>3
    <2> QED BY <2>4, <2>5 DEF y
<1> QED BY <1>4, <1>5 DEF AmountsOf, CoinFcn, coins

\* What is listed, in terms of what is stored and what the Update did.
LEMMA ListedStock ==
    ASSUME UtxoInv, NEW a \in Accounts
    PROVE  MemListUtxos(EmptyTx, a) = Stock(a) /\ Stock(a) \subseteq Utxos
<1>1. buckets[a] \in BucketStates BY DEF UtxoInv
<1>2. Stock(a) \subseteq Utxos
    <2> DEFINE bk == buckets[a]
    <2>1. bk = NoUtxos => InBuckets(bk) \subseteq Utxos BY HeldIn
    <2>2. ASSUME NEW x \in Utxos, bk = Single(x) PROVE InBuckets(bk) \subseteq Utxos BY <2>2, HeldIn
    <2>3. ASSUME NEW D \in FewSets, bk = Few(D) PROVE InBuckets(bk) \subseteq Utxos
        BY <2>3, HeldIn DEF FewSets
    <2>4. ASSUME NEW m \in SUBSET Utxos, bk = Many(m) PROVE InBuckets(bk) \subseteq Utxos
        BY <2>4, HeldIn
    <2> HIDE DEF bk
    <2>5. bk \in BucketStates BY <1>1 DEF bk
    <2> QED BY <2>1, <2>2, <2>3, <2>4, <2>5, BucketCases DEF Stock, bk
<1>3. EmptyTx.utxos = << >> /\ EmptyTx.delUtxos = {} BY DEF EmptyTx
<1>4. a \notin DOMAIN EmptyTx.utxos BY <1>3
<1>5. MemListUtxos(EmptyTx, a) = Assign(Stock(a), {}) BY <1>3, <1>4 DEF MemListUtxos, Stock, InBuckets
<1>6. Assign(Stock(a), {}) = Stock(a) BY <1>2, AssignIsUnion
<1> QED BY <1>2, <1>5, <1>6

\* ListUtxos of an open Update: stored or added, and not deleted.
LEMMA ListedOpen ==
    ASSUME UtxoInv, NEW a \in Accounts
    PROVE  /\ MemListUtxos(tx, a) = Without(Stock(a) \cup Added(a), Deleted(a))
           /\ MemListUtxos(tx, a) \subseteq Utxos
           /\ Added(a) \subseteq Utxos
<1>1. Stock(a) \subseteq Utxos BY ListedStock
<1>2. Added(a) \subseteq Utxos BY DEF UtxoInv, Added
<1>3. MemListUtxos(tx, a) = {u \in Assign(Stock(a), Added(a)) : <<a, u[1]>> \notin tx.delUtxos}
    BY DEF MemListUtxos, Stock, InBuckets, Added
<1>4. Assign(Stock(a), Added(a)) = Stock(a) \cup Added(a) BY <1>1, <1>2, AssignIsUnion
<1>5. \A o : o \in Deleted(a) <=> <<a, o>> \in tx.delUtxos
    <2>1. \A c \in tx.delUtxos : c = <<c[1], c[2]>> BY DEF UtxoInv, Coin
    <2> QED BY <2>1 DEF Deleted
<1>6. MemListUtxos(tx, a) = Without(Stock(a) \cup Added(a), Deleted(a))
    BY <1>3, <1>4, <1>5 DEF Without
<1> QED BY <1>1, <1>2, <1>6 DEF Without

\* The coins the tables show.
LEMMA SeenStock ==
    UtxoInv => Seen(EmptyTx).utxos = AmountsOf({c \in Coin : Held(c)})
<1> SUFFICES ASSUME UtxoInv PROVE Seen(EmptyTx).utxos = AmountsOf({c \in Coin : Held(c)}) OBVIOUS
<1> DEFINE L == [a \in Accounts |-> MemListUtxos(EmptyTx, a)]
<1>1. \A a \in Accounts : L[a] = Stock(a) /\ L[a] \subseteq Utxos BY ListedStock
<1>2. PairsOf(L) = UNION {{a} \X MemListUtxos(EmptyTx, a) : a \in Accounts} BY DEF PairsOf
<1>3. Seen(EmptyTx).utxos = CoinFcn(PairsOf(L))
    <2>1. Seen(EmptyTx).utxos = CoinFcn(UNION {{a} \X MemListUtxos(EmptyTx, a) : a \in Accounts})
        BY DEF Seen, CoinFcn
    <2> HIDE DEF L
    <2> QED BY <1>2, <2>1
<1>4. CoinsOf(L) = {c \in Coin : Held(c)}
    <2>1. \A c \in Coin : c[1] \in Accounts BY DEF Coin
    <2> HIDE DEF L
    <2> QED BY <1>1, <2>1 DEF CoinsOf, Held, Stock
<1> HIDE DEF L
<1>5. Seen(EmptyTx).utxos = AmountsOf(CoinsOf(L)) BY <1>1, <1>3, CoinMap
<1> QED BY <1>4, <1>5

\* The coins the open Update lists.
Listed(c) == <<c[2], Amount(c[2])>> \in Without(Stock(c[1]) \cup Added(c[1]), Deleted(c[1]))

\* The coins an open Update shows.
LEMMA SeenOpen ==
    UtxoInv => Seen(tx).utxos = AmountsOf({c \in Coin : Listed(c)})
<1> SUFFICES ASSUME UtxoInv PROVE Seen(tx).utxos = AmountsOf({c \in Coin : Listed(c)}) OBVIOUS
<1> DEFINE L == [a \in Accounts |-> MemListUtxos(tx, a)]
<1>1. \A a \in Accounts : /\ L[a] = Without(Stock(a) \cup Added(a), Deleted(a))
                          /\ L[a] \subseteq Utxos BY ListedOpen
<1>2. PairsOf(L) = UNION {{a} \X MemListUtxos(tx, a) : a \in Accounts} BY DEF PairsOf
<1>3. Seen(tx).utxos = CoinFcn(PairsOf(L))
    <2>1. Seen(tx).utxos = CoinFcn(UNION {{a} \X MemListUtxos(tx, a) : a \in Accounts})
        BY DEF Seen, CoinFcn
    <2> HIDE DEF L
    <2> QED BY <1>2, <2>1
<1>4. CoinsOf(L) = {c \in Coin : Listed(c)}
    <2>1. \A c \in Coin : c[1] \in Accounts BY DEF Coin
    <2> HIDE DEF L
    <2> QED BY <1>1, <2>1 DEF CoinsOf, Listed
<1> HIDE DEF L
<1>5. Seen(tx).utxos = AmountsOf(CoinsOf(L)) BY <1>1, <1>3, CoinMap
<1> QED BY <1>4, <1>5

\* The same after a step.
LEMMA SeenOpenNext == UtxoInv' => (Seen(tx).utxos = AmountsOf({c \in Coin : Listed(c)}))'
BY SeenOpen, PTL

\* A new store and an empty journal.
LEMMA NewBuckets ==
    ASSUME NEW bs, bs = [a \in Accounts |-> [single |-> {}, few |-> {}, many |-> {}]]
    PROVE  bs \in [Accounts -> BucketStates] /\ \A a \in Accounts : InBuckets(bs[a]) = {}
<1>1. NoUtxos = [single |-> {}, few |-> {}, many |-> {}] BY DEF NoUtxos
<1>2. NoUtxos \in BucketStates BY DEF BucketStates
<1> QED BY <1>1, <1>2, HeldIn

\* An empty journal adds and deletes nothing.
LEMMA EmptyUtxos ==
    /\ DOMAIN EmptyTx.utxos = {} /\ EmptyTx.delUtxos = {} /\ IsFiniteSet(EmptyTx.delUtxos)
<1>1. EmptyTx.utxos = << >> /\ EmptyTx.delUtxos = {} BY DEF EmptyTx
<1> QED BY <1>1, FS_EmptySet

\* A new store satisfies the invariant.
LEMMA UtxoInit == Init => UtxoInv
<1> SUFFICES ASSUME Init PROVE UtxoInv OBVIOUS
<1>1. tx = EmptyTx /\ upd.kind = "none" BY DEF Init, NoUpdate
<1>2. buckets \in [Accounts -> BucketStates] BY NewBuckets DEF Init, NewMemDB
<1> QED BY <1>1, <1>2, EmptyUtxos DEF UtxoInv

\* Calls that touch no utxo.
LEMMA UtxosKept ==
    ASSUME UtxoInv, buckets' = buckets, tx'.utxos = tx.utxos, tx'.delUtxos = tx.delUtxos,
           before' = before, upd'.kind # "none" => upd.kind # "none"
    PROVE  UtxoInv'
BY DEF UtxoInv, Held

\* An empty journal.
LEMMA UtxosBegun ==
    ASSUME buckets' \in [Accounts -> BucketStates], tx' = EmptyTx,
           upd'.kind # "none" => (DOMAIN before.utxos = {c \in Coin : Held(c)})'
    PROVE  UtxoInv'
BY EmptyUtxos DEF UtxoInv

\* Begin remembers what is stored.
LEMMA UtxosBegin ==
    ASSUME UtxoInv, Begin
    PROVE  UtxoInv'
<1>1. buckets' = buckets /\ tx' = EmptyTx /\ before' = Seen(EmptyTx) BY DEF Begin, tables
<1>2. Seen(EmptyTx).utxos = AmountsOf({c \in Coin : Held(c)}) BY SeenStock
<1>3. DOMAIN before'.utxos = {c \in Coin : Held(c)} BY <1>1, <1>2 DEF AmountsOf
<1>4. (DOMAIN before.utxos = {c \in Coin : Held(c)})' BY <1>1, <1>3 DEF Held
<1>5. buckets' \in [Accounts -> BucketStates] BY <1>1 DEF UtxoInv
<1> QED BY <1>1, <1>4, <1>5, UtxosBegun

\* AddUtxo journals an output that is not stored, as it is neither listed nor
\* one of those the Update found.
LEMMA AddedUtxo ==
    ASSUME MemInv, UtxoInv, ~ReAdds, NEW a \in Accounts, NEW o \in Outpoints, MemAddUtxo(a, o)
    PROVE  /\ UtxoInv'
           /\ \A x \in Accounts :
                 /\ Stock(x)' = Stock(x)
                 /\ Added(x)' = IF x = a THEN Added(a) \cup {<<o, Amount(o)>>} ELSE Added(x)
                 /\ Deleted(x)' = IF x = a THEN Deleted(a) \ {o} ELSE Deleted(x)
<1> DEFINE u == <<o, Amount(o)>>
           D == tx.utxos
           old == IF a \in DOMAIN D THEN D[a] ELSE {}
           E == [x \in DOMAIN D \cup {a} |-> IF x # a THEN D[x] ELSE Assign(old, {u})]
<1>1. /\ upd.kind # "none" /\ buckets' = buckets /\ before' = before
      /\ upd' = [upd EXCEPT !.calls = @ + 1]
      /\ <<a, o>> \notin DOMAIN before.utxos
    BY DEF MemAddUtxo, UtxoCall, tables
<1>2. tx = [balances |-> tx.balances, updatedBlock |-> tx.updatedBlock,
            blockHash |-> tx.blockHash, blockHeight |-> tx.blockHeight,
            processedBlocks |-> tx.processedBlocks, utxos |-> tx.utxos,
            delUtxos |-> tx.delUtxos]
    BY JournalFields DEF MemInv, MemTypes
<1>3. tx'.utxos = E /\ tx'.delUtxos = tx.delUtxos \ {<<a, o>>}
    BY <1>2 DEF MemAddUtxo
<1>4. u \in Utxos BY UtxoShape
<1>5. old \subseteq Utxos /\ IsFiniteSet(old) BY FS_EmptySet DEF UtxoInv
<1>6. Assign(old, {u}) = old \cup {u} BY <1>4, <1>5, AssignIsUnion
<1>7. ~Held(<<a, o>>)
    <2>1. <<a, o>> \in Coin BY DEF Coin
    <2> QED BY <1>1, <2>1 DEF UtxoInv
<1>8. u \notin Stock(a) BY <1>7 DEF Held, Stock
<1>9. IsFiniteSet(old \cup {u}) BY <1>5, FS_AddElement
<1>10. DOMAIN E = DOMAIN D \cup {a} /\ E[a] = old \cup {u} /\ \A x \in DOMAIN D : x # a => E[x] = D[x]
    BY <1>6
<1>11. old \cap Stock(a) = {} BY DEF UtxoInv, Stock
<1>12. IsFiniteSet(tx.delUtxos \ {<<a, o>>}) /\ tx.delUtxos \ {<<a, o>>} \subseteq Coin
    BY FS_Subset DEF UtxoInv
<1>13. DOMAIN E \subseteq Accounts BY <1>10 DEF UtxoInv
<1>o. old = Added(a) BY DEF Added
<1> HIDE DEF E, old, u
<1>14. ASSUME NEW x \in DOMAIN E
       PROVE  E[x] \subseteq Utxos /\ IsFiniteSet(E[x]) /\ E[x] \cap Stock(x) = {}
    <2>1. CASE x = a BY <1>4, <1>5, <1>8, <1>9, <1>10, <1>11, <2>1
    <2>2. CASE x # a BY <1>10, <2>2 DEF UtxoInv, Stock
    <2> QED BY <2>1, <2>2
<1>15. upd'.kind = upd.kind BY <1>1 DEF MemInv, MemTypes
<1>16. UtxoInv'
    <2>1. (DOMAIN before.utxos = {c \in Coin : Held(c)})' BY <1>1 DEF UtxoInv, Held
    <2>2. buckets' \in [Accounts -> BucketStates] BY <1>1 DEF UtxoInv
    <2> QED BY <1>1, <1>3, <1>12, <1>13, <1>14, <2>1, <2>2 DEF UtxoInv, Stock
<1>17. ASSUME NEW x \in Accounts PROVE Stock(x)' = Stock(x) BY <1>1 DEF Stock
<1>18. ASSUME NEW x \in Accounts
       PROVE  Added(x)' = IF x = a THEN Added(a) \cup {u} ELSE Added(x)
    BY <1>3, <1>10, <1>o DEF Added
<1>19. ASSUME NEW x \in Accounts
       PROVE  Deleted(x)' = IF x = a THEN Deleted(a) \ {o} ELSE Deleted(x)
    <2>1. \A c \in tx.delUtxos : c = <<c[1], c[2]>> BY DEF UtxoInv, Coin
    <2>2. CASE x = a BY <1>3, <2>1, <2>2 DEF Deleted
    <2>3. CASE x # a BY <1>3, <2>1, <2>3 DEF Deleted
    <2> QED BY <2>2, <2>3
<1> QED BY <1>16, <1>17, <1>18, <1>19 DEF u

\* DelUtxo journals a deletion and drops the addition.
LEMMA DeletedUtxo ==
    ASSUME MemInv, UtxoInv, NEW a \in Accounts, NEW o \in Outpoints, MemDelUtxo(a, o)
    PROVE  /\ UtxoInv'
           /\ \A x \in Accounts :
                 /\ Stock(x)' = Stock(x)
                 /\ Added(x)' = IF x = a THEN Without(Added(a), {o}) ELSE Added(x)
                 /\ Deleted(x)' = IF x = a THEN Deleted(a) \cup {o} ELSE Deleted(x)
<1> DEFINE D == tx.utxos
           E == [x \in DOMAIN D |-> IF x = a THEN {u \in D[a] : u[1] # o} ELSE D[x]]
<1>1. /\ upd.kind # "none" /\ buckets' = buckets /\ before' = before
      /\ upd' = [upd EXCEPT !.calls = @ + 1]
    BY DEF MemDelUtxo, UtxoCall, tables
<1>2. tx = [balances |-> tx.balances, updatedBlock |-> tx.updatedBlock,
            blockHash |-> tx.blockHash, blockHeight |-> tx.blockHeight,
            processedBlocks |-> tx.processedBlocks, utxos |-> tx.utxos,
            delUtxos |-> tx.delUtxos]
    BY JournalFields DEF MemInv, MemTypes
<1>3. tx'.utxos = E /\ tx'.delUtxos = tx.delUtxos \cup {<<a, o>>}
    BY <1>2 DEF MemDelUtxo
<1>4. DOMAIN E = DOMAIN D /\ \A x \in DOMAIN D : E[x] = IF x = a THEN Without(D[a], {o}) ELSE D[x]
    BY DEF Without
<1>5. IsFiniteSet(tx.delUtxos \cup {<<a, o>>}) /\ tx.delUtxos \cup {<<a, o>>} \subseteq Coin
    <2>1. <<a, o>> \in Coin BY DEF Coin
    <2>2. IsFiniteSet(tx.delUtxos \cup {<<a, o>>}) BY FS_AddElement DEF UtxoInv
    <2> QED BY <2>1, <2>2 DEF UtxoInv
<1> HIDE DEF E
<1>6. ASSUME NEW x \in DOMAIN D
      PROVE  E[x] \subseteq Utxos /\ IsFiniteSet(E[x]) /\ E[x] \cap Stock(x) = {}
    <2>1. E[x] \subseteq D[x] BY <1>4 DEF Without
    <2>2. D[x] \subseteq Utxos /\ IsFiniteSet(D[x]) /\ D[x] \cap Stock(x) = {} BY DEF UtxoInv, Stock
    <2> QED BY <2>1, <2>2, FS_Subset
<1>7. upd'.kind = upd.kind BY <1>1 DEF MemInv, MemTypes
<1>8. UtxoInv'
    <2>1. (DOMAIN before.utxos = {c \in Coin : Held(c)})' BY <1>1 DEF UtxoInv, Held
    <2>2. buckets' \in [Accounts -> BucketStates] BY <1>1 DEF UtxoInv
    <2>3. DOMAIN E \subseteq Accounts BY <1>4 DEF UtxoInv
    <2> QED BY <1>1, <1>3, <1>4, <1>5, <1>6, <2>1, <2>2, <2>3 DEF UtxoInv, Stock
<1>9. ASSUME NEW x \in Accounts PROVE Stock(x)' = Stock(x) BY <1>1 DEF Stock
<1>10. ASSUME NEW x \in Accounts
       PROVE  Added(x)' = IF x = a THEN Without(Added(a), {o}) ELSE Added(x)
    <2>1. Without({}, {o}) = {} BY DEF Without
    <2> QED BY <1>3, <1>4, <2>1 DEF Added
<1>11. ASSUME NEW x \in Accounts
       PROVE  Deleted(x)' = IF x = a THEN Deleted(a) \cup {o} ELSE Deleted(x)
    <2> DEFINE p == <<a, o>>
               W == tx.delUtxos \cup {p}
    <2>p. p[1] = a /\ p[2] = o OBVIOUS
    <2> HIDE DEF p
    <2>a. \A y : (\E c \in W : c[1] = x /\ c[2] = y)
                 <=> (\E c \in tx.delUtxos : c[1] = x /\ c[2] = y) \/ (x = a /\ y = o)
        BY <2>p
    <2>b. \A y : y \in Deleted(x) <=> \E c \in tx.delUtxos : c[1] = x /\ c[2] = y BY DEF Deleted
    <2>c. Deleted(x)' = {c[2] : c \in {c \in W : c[1] = x}} BY <1>3 DEF Deleted, p
    <2>d. \A y : y \in Deleted(x)' <=> \E c \in W : c[1] = x /\ c[2] = y BY <2>c
    <2> HIDE DEF W
    <2>1. CASE x = a BY <2>a, <2>b, <2>d, <2>1
    <2>2. CASE x # a BY <2>a, <2>b, <2>d, <2>2
    <2> QED BY <2>1, <2>2
<1> QED BY <1>8, <1>9, <1>10, <1>11

\* What a commit stores for an account.
LEMMA CommittedUtxos ==
    ASSUME UtxoInv, Commit
    PROVE  /\ UtxoInv'
           /\ \A a \in Accounts : Stock(a)' = Without(Stock(a) \cup Added(a), Deleted(a))
<1> DEFINE base(a) == IF a \in DOMAIN tx.utxos THEN AddToBuckets(buckets[a], tx.utxos[a])
                      ELSE buckets[a]
<1>1. /\ buckets' = [a \in Accounts |-> DelAll(base(a), Deleted(a))]
      /\ tx' = EmptyTx /\ upd' = NoUpdate
    BY DEF Commit, CommitCall, DelAll, Deleted
<1>2. ASSUME NEW a \in Accounts
      PROVE  base(a) \in BucketStates /\ InBuckets(base(a)) = Stock(a) \cup Added(a)
    <2>1. buckets[a] \in BucketStates BY DEF UtxoInv
    <2>2. CASE a \in DOMAIN tx.utxos
        <3> DEFINE us == tx.utxos[a]
                   bk == buckets[a]
        <3>1. us \in SUBSET Utxos /\ IsFiniteSet(us) /\ us \cap InBuckets(bk) = {}
            BY <2>2 DEF UtxoInv
        <3>2. bk \in BucketStates BY <2>1
        <3> HIDE DEF us, bk
        <3>3. /\ AddToBuckets(bk, us) \in BucketStates
              /\ InBuckets(AddToBuckets(bk, us)) = InBuckets(bk) \cup us
            BY <3>1, <3>2, AddToOneBucket
        <3> QED BY <2>2, <3>3 DEF us, bk, Stock, Added
    <2>3. CASE a \notin DOMAIN tx.utxos BY <2>1, <2>3 DEF Stock, Added
    <2> QED BY <2>2, <2>3
<1>3. ASSUME NEW a \in Accounts PROVE IsFiniteSet(Deleted(a))
    <2> DEFINE C == {c \in tx.delUtxos : c[1] = a}
    <2>1. IsFiniteSet(C) BY FS_Subset DEF UtxoInv
    <2> HIDE DEF C
    <2> DEFINE f == [c \in C |-> c[2]]
    <2>2. IsFiniteSet({f[c] : c \in C})
        <3>1. f \in Surjection(C, {f[c] : c \in C}) BY DEF Surjection
        <3> HIDE DEF f
        <3> QED BY <2>1, <3>1, FS_Surjection
    <2>3. {f[c] : c \in C} = {c[2] : c \in C} OBVIOUS
    <2> QED BY <2>2, <2>3 DEF C, Deleted
<1> HIDE DEF base
<1>4. ASSUME NEW a \in Accounts
      PROVE  /\ DelAll(base(a), Deleted(a)) \in BucketStates
             /\ InBuckets(DelAll(base(a), Deleted(a))) = Without(Stock(a) \cup Added(a), Deleted(a))
    <2>1. base(a) \in BucketStates /\ InBuckets(base(a)) = Stock(a) \cup Added(a) BY <1>2
    <2>2. IsFiniteSet(Deleted(a)) BY <1>3
    <2> QED BY <2>1, <2>2, DelAllFromOneBucket
<1>5. buckets' \in [Accounts -> BucketStates] BY <1>1, <1>4
<1>6. UtxoInv'
    <2>1. upd'.kind = "none" BY <1>1 DEF NoUpdate
    <2> QED BY <1>1, <1>5, <2>1, UtxosBegun
<1>7. ASSUME NEW a \in Accounts PROVE Stock(a)' = Without(Stock(a) \cup Added(a), Deleted(a))
    <2>1. buckets'[a] = DelAll(base(a), Deleted(a)) BY <1>1
    <2>2. Stock(a)' = InBuckets(buckets'[a]) BY DEF Stock, InBuckets
    <2> QED BY <1>4, <2>1, <2>2
<1> QED BY <1>6, <1>7

\* StoreBalances leaves the outputs alone.
LEMMA StoreKeepsUtxos ==
    ASSUME MemInv, NEW b, NEW bals, MemStoreBalances(b, bals)
    PROVE  /\ buckets' = buckets /\ before' = before /\ upd.kind # "none"
           /\ tx'.utxos = tx.utxos /\ tx'.delUtxos = tx.delUtxos
<1>1. tx = [balances |-> tx.balances, updatedBlock |-> tx.updatedBlock,
            blockHash |-> tx.blockHash, blockHeight |-> tx.blockHeight,
            processedBlocks |-> tx.processedBlocks, utxos |-> tx.utxos,
            delUtxos |-> tx.delUtxos]
    BY JournalFields DEF MemInv, MemTypes
<1>2. PICK B, P, h : tx' = [tx EXCEPT !.balances = B, !.processedBlocks = P,
                                     !.blockHash = b, !.blockHeight = h, !.updatedBlock = TRUE]
    BY DEF MemStoreBalances
<1>3. buckets' = buckets /\ before' = before /\ upd.kind # "none"
    BY DEF MemStoreBalances, StoreCall, tables
<1> QED BY <1>1, <1>2, <1>3

\* RollbackTip leaves the outputs alone.
LEMMA RollbackKeepsUtxos ==
    ASSUME MemInv, MemRollbackTip
    PROVE  /\ buckets' = buckets /\ before' = before /\ upd.kind # "none"
           /\ tx'.utxos = tx.utxos /\ tx'.delUtxos = tx.delUtxos
<1>1. tx = [balances |-> tx.balances, updatedBlock |-> tx.updatedBlock,
            blockHash |-> tx.blockHash, blockHeight |-> tx.blockHeight,
            processedBlocks |-> tx.processedBlocks, utxos |-> tx.utxos,
            delUtxos |-> tx.delUtxos]
    BY JournalFields DEF MemInv, MemTypes
<1>2. tx' = tx \/ \E p, h : tx' = [tx EXCEPT !.blockHash = p, !.blockHeight = h, !.updatedBlock = TRUE]
    BY DEF MemRollbackTip
<1>3. buckets' = buckets /\ before' = before /\ upd.kind # "none"
    BY DEF MemRollbackTip, RollbackCall
<1>4. ASSUME NEW p, NEW h, tx' = [tx EXCEPT !.blockHash = p, !.blockHeight = h, !.updatedBlock = TRUE]
      PROVE  tx'.utxos = tx.utxos /\ tx'.delUtxos = tx.delUtxos
    BY <1>1, <1>4
<1> QED BY <1>2, <1>3, <1>4

\* Every step keeps the invariant.
LEMMA UtxoNext ==
    ASSUME ~ReAdds, MemInv, UtxoInv, [Next]_vars
    PROVE  UtxoInv'
<1>1. CASE Begin BY <1>1, UtxosBegin
<1>2. CASE MemRollbackTip BY <1>2, RollbackKeepsUtxos, UtxosKept
<1>3. CASE Commit BY <1>3, CommittedUtxos
<1>4. CASE Abort
    <2>1. buckets' = buckets /\ tx' = EmptyTx /\ upd'.kind = "none"
        BY <1>4 DEF Abort, AbortCall, NoUpdate, tables
    <2>2. buckets' \in [Accounts -> BucketStates] BY <2>1 DEF UtxoInv
    <2> QED BY <2>1, <2>2, UtxosBegun
<1>5. ASSUME NEW c \in Coins, MemAddUtxo(c[1], c[2]) \/ MemDelUtxo(c[1], c[2]) PROVE UtxoInv'
    <2>1. c[1] \in Accounts /\ c[2] \in Outpoints BY UpdatesAssumption DEF Coin
    <2> QED BY <1>5, <2>1, AddedUtxo, DeletedUtxo
<1>6. ASSUME NEW b \in Blocks \ {Genesis}, NEW bals \in BalanceMaps, MemStoreBalances(b, bals)
      PROVE  UtxoInv'
    BY <1>6, StoreKeepsUtxos, UtxosKept
<1>7. CASE UNCHANGED vars
    <2>1. buckets' = buckets /\ tx' = tx /\ before' = before /\ upd' = upd BY <1>7 DEF vars
    <2> QED BY <2>1, UtxosKept
<1> QED BY <1>1, <1>2, <1>3, <1>4, <1>5, <1>6, <1>7 DEF Next

\* While no Update adds an output again that it deleted, an account has a single
\* utxo, a few below the limit and none twice, or many and only those: for any
\* accounts and outputs, any limit, and Updates of any length (the bucket
\* bookkeeping at the end of memdb's Update).
THEOREM BucketTheorem == ~ReAdds => (Spec => []OneBucket)
<1> SUFFICES ASSUME ~ReAdds PROVE Spec => []OneBucket OBVIOUS
<1>1. Init => MemInv /\ UtxoInv BY MemInit, UtxoInit
<1>2. MemInv /\ UtxoInv /\ [Next]_vars => (MemInv /\ UtxoInv)' BY MemNext, UtxoNext
<1>3. UtxoInv => OneBucket
    <2> SUFFICES ASSUME UtxoInv, NEW a \in Accounts
                 PROVE  LET bk == buckets[a]
                        IN  /\ bk.many # {} => bk.single = {} /\ bk.few = {}
                            /\ BagCardinality(FewOf(bk)) < FewUtxoLimit
                            /\ \A u \in BagToSet(FewOf(bk)) : FewOf(bk)[u] = 1
        BY DEF OneBucket
    <2> DEFINE bk == buckets[a]
               Good(x) == /\ x.many # {} => x.single = {} /\ x.few = {}
                          /\ BagCardinality(FewOf(x)) < FewUtxoLimit
                          /\ \A u \in BagToSet(FewOf(x)) : FewOf(x)[u] = 1
    <2>1. bk \in BucketStates BY DEF UtxoInv
    <2>2. ASSUME NEW D, IsFiniteSet(D), Cardinality(D) < FewUtxoLimit
          PROVE  /\ BagCardinality(SetToBag(D)) < FewUtxoLimit
                 /\ \A u \in BagToSet(SetToBag(D)) : SetToBag(D)[u] = 1
        <3>1. BagCardinality(SetToBag(D)) < FewUtxoLimit BY <2>2, LengthOnce
        <3> QED BY <3>1 DEF BagToSet, SetToBag
    <2>3. IsFiniteSet({}) /\ Cardinality({}) < FewUtxoLimit
        BY MemDbAssumption, FS_EmptySet
    <2>4. Good(NoUtxos) BY <2>2, <2>3, HeldIn DEF NoUtxos
    <2>5. ASSUME NEW u PROVE Good(Single(u))
        <3>1. Single(u).many = {} /\ FewOf(Single(u)) = SetToBag({}) BY HeldIn DEF Single
        <3>2. /\ BagCardinality(SetToBag({})) < FewUtxoLimit
              /\ \A x \in BagToSet(SetToBag({})) : SetToBag({})[x] = 1
            BY <2>2, <2>3
        <3> QED BY <3>1, <3>2
    <2>6. ASSUME NEW D \in FewSets PROVE Good(Few(D))
        <3>1. IsFiniteSet(D) /\ Cardinality(D) < FewUtxoLimit BY DEF FewSets
        <3> QED BY <2>2, <3>1, HeldIn DEF Few
    <2>7. ASSUME NEW m PROVE Good(Many(m))
        <3>1. Many(m).single = {} /\ Many(m).few = {} BY DEF Many
        <3> QED BY <2>2, <2>3, <3>1, HeldIn
    <2>8. Good(bk)
        <3> HIDE DEF Good, bk
        <3> QED BY <2>1, <2>4, <2>5, <2>6, <2>7, BucketCases
    <2> QED BY <2>8
<1> QED BY <1>1, <1>2, <1>3, PTL DEF Spec

-----------------------------------------------------------------------------
(* The refinement: what an open Update sees, field by field.               *)

\* The balances recorded by the entries R of one height.
RecordOf(R) == [b \in {x[1] : x \in R} |-> (CHOOSE x \in R : x[1] = b)[2].balance]
RecordsIn(E, k) == {x \in UNION {{b} \X E[b] : b \in Accounts} : x[2].height = k}

\* The height, the hashes and the records an open Update shows.
TipSeen == MemLastBlock(tx).height
Hashes == [h \in 1..TipSeen |-> ProcessedBlockHash(tx, h)]
AllEntries == [b \in Accounts |-> Entries(b)]
Records == [h \in 1..TipSeen |-> RecordOf(RecordsIn(AllEntries, h))]

\* Seen, field by field.
LEMMA SeenFields ==
    Seen(tx) = [processed |-> Hashes, balances |-> Records, utxos |-> Seen(tx).utxos]
<1>1. Seen(tx) = [processed |-> Seen(tx).processed, balances |-> Seen(tx).balances,
                  utxos |-> Seen(tx).utxos]
    BY DEF Seen
<1>2. Seen(tx).processed = Hashes BY DEF Seen, Hashes, TipSeen
<1> DEFINE E == AllEntries
           r(h) == {x \in UNION {{a} \X Range(balances[a] \o tx.balances[a]) : a \in Accounts} : x[2].height = h}
<1>3. Seen(tx).balances = [h \in 1..TipSeen |-> RecordOf(r(h))]
    BY DEF Seen, RecordOf, TipSeen
<1>4. \A a \in Accounts : E[a] = Range(balances[a] \o tx.balances[a]) BY DEF AllEntries, Entries
<1> HIDE DEF E
<1>5. \A h : RecordsIn(E, h) = r(h) BY <1>4 DEF RecordsIn
<1> HIDE DEF r
<1>6. Records = [h \in 1..TipSeen |-> RecordOf(r(h))] BY <1>5 DEF Records, E
<1> QED BY <1>1, <1>2, <1>3, <1>6

\* The same after a step.
LEMMA SeenFieldsNext ==
    (Seen(tx) = [processed |-> Hashes, balances |-> Records, utxos |-> Seen(tx).utxos])'
BY SeenFields, PTL

\* What the tables alone show.
StockFields ==
    /\ Seen(EmptyTx).processed = [h \in 1..last.height |->
           IF h \in DOMAIN processedBlocks THEN processedBlocks[h].hash ELSE NoBlock]
    /\ Seen(EmptyTx).balances = [h \in 1..last.height |->
           RecordOf(RecordsIn([b \in Accounts |-> Range(balances[b] \o << >>)], h))]
    /\ Seen(EmptyTx) = [processed |-> Seen(EmptyTx).processed,
                        balances |-> Seen(EmptyTx).balances, utxos |-> Seen(EmptyTx).utxos]

\* A reader without a journal sees the tables.
LEMMA SeenTables == StockFields
<1>1. /\ EmptyTx.updatedBlock = FALSE /\ DOMAIN EmptyTx.processedBlocks = {}
      /\ \A a \in Accounts : EmptyTx.balances[a] = << >>
    BY DEF EmptyTx
<1>2. MemLastBlock(EmptyTx) = last BY <1>1 DEF MemLastBlock
<1>3. \A h : ProcessedBlockHash(EmptyTx, h) =
                 IF h \in DOMAIN processedBlocks THEN processedBlocks[h].hash ELSE NoBlock
    BY <1>1 DEF ProcessedBlockHash
<1>4. Seen(EmptyTx).processed = [h \in 1..last.height |-> ProcessedBlockHash(EmptyTx, h)]
    BY <1>2 DEF Seen
<1> DEFINE E == [b \in Accounts |-> Range(balances[b] \o << >>)]
           r(h) == {x \in UNION {{a} \X Range(balances[a] \o EmptyTx.balances[a]) : a \in Accounts} :
                        x[2].height = h}
<1>5. Seen(EmptyTx).balances = [h \in 1..last.height |-> RecordOf(r(h))]
    BY <1>2 DEF Seen, RecordOf
<1>6. \A a \in Accounts : E[a] = Range(balances[a] \o EmptyTx.balances[a]) BY <1>1
<1> HIDE DEF E
<1>7. \A h : RecordsIn(E, h) = r(h) BY <1>6 DEF RecordsIn
<1> HIDE DEF r
<1>8. Seen(EmptyTx).balances = [h \in 1..last.height |-> RecordOf(RecordsIn(E, h))] BY <1>5, <1>7
<1>9. Seen(EmptyTx) = [processed |-> Seen(EmptyTx).processed,
                       balances |-> Seen(EmptyTx).balances, utxos |-> Seen(EmptyTx).utxos]
    BY DEF Seen
<1> QED BY <1>3, <1>4, <1>8, <1>9 DEF StockFields, E

\* The same after a step.
LEMMA SeenTablesNext == StockFields'
BY SeenTables, PTL

\* Steps that change neither the tables nor the journaled tip, block and balances.
LEMMA SameBlocks ==
    ASSUME MemInv, UNCHANGED tables, tx'.balances = tx.balances,
           tx'.updatedBlock = tx.updatedBlock, tx'.blockHeight = tx.blockHeight,
           tx'.blockHash = tx.blockHash, tx'.processedBlocks = tx.processedBlocks
    PROVE  Hashes' = Hashes /\ Records' = Records /\ TipSeen' = TipSeen
<1>1. balances' = balances /\ last' = last /\ processedBlocks' = processedBlocks BY DEF tables
<1>2. TipSeen' = TipSeen BY <1>1 DEF TipSeen, MemLastBlock
<1>3. Hashes' = Hashes BY <1>1, <1>2 DEF Hashes, ProcessedBlockHash
<1>4. AllEntries' = AllEntries BY <1>1 DEF AllEntries, Entries
<1>5. Records' = Records BY <1>2, <1>4 DEF Records
<1> QED BY <1>2, <1>3, <1>5

\* A database with other coins.
LEMMA UtxoField ==
    ASSUME NEW d, NEW p, NEW b, NEW u, NEW v, d = [processed |-> p, balances |-> b, utxos |-> u]
    PROVE  /\ d.utxos = u
           /\ [d EXCEPT !.utxos = v] = [processed |-> p, balances |-> b, utxos |-> v]
OBVIOUS

\* A coin more.
LEMMA AmountsAdd ==
    ASSUME NEW C, NEW D, NEW c, D = C \cup {c}
    PROVE  AmountsOf(D) = AddUtxo(AmountsOf(C), c, Amount(c[2]))
BY DEF AmountsOf, AddUtxo

\* A coin less.
LEMMA AmountsDel ==
    ASSUME NEW C, NEW D, NEW c, D = C \ {c}
    PROVE  AmountsOf(D) = DelUtxo(AmountsOf(C), c)
BY DEF AmountsOf, DelUtxo

\* AddUtxo and DelUtxo touch the outputs of the journal only.
LEMMA JournalSame ==
    ASSUME MemInv, NEW a, NEW o, MemAddUtxo(a, o) \/ MemDelUtxo(a, o)
    PROVE  /\ UNCHANGED tables /\ UNCHANGED before /\ tx'.balances = tx.balances
           /\ tx'.updatedBlock = tx.updatedBlock /\ tx'.blockHeight = tx.blockHeight
           /\ tx'.blockHash = tx.blockHash /\ tx'.processedBlocks = tx.processedBlocks
           /\ UtxoCall(TipSeen)
<1>1. tx = [balances |-> tx.balances, updatedBlock |-> tx.updatedBlock,
            blockHash |-> tx.blockHash, blockHeight |-> tx.blockHeight,
            processedBlocks |-> tx.processedBlocks, utxos |-> tx.utxos,
            delUtxos |-> tx.delUtxos]
    BY JournalFields DEF MemInv, MemTypes
<1>2. UNCHANGED tables /\ UNCHANGED before /\ UtxoCall(TipSeen)
    BY DEF MemAddUtxo, MemDelUtxo, TipSeen
<1>3. CASE MemAddUtxo(a, o)
    <2>1. PICK E, D : tx' = [tx EXCEPT !.utxos = E, !.delUtxos = D] BY <1>3 DEF MemAddUtxo
    <2> QED BY <1>1, <1>2, <2>1
<1>4. CASE MemDelUtxo(a, o)
    <2>1. PICK E, D : tx' = [tx EXCEPT !.utxos = E, !.delUtxos = D] BY <1>4 DEF MemDelUtxo
    <2> QED BY <1>1, <1>2, <2>1
<1> QED BY <1>3, <1>4


\* AddUtxo changes what the Update sees as the contract says.
LEMMA AddSeen ==
    ASSUME MemInv, UtxoInv, ~ReAdds, NEW a \in Accounts, NEW o \in Outpoints, MemAddUtxo(a, o)
    PROVE  Seen(tx)' = [Seen(tx) EXCEPT !.utxos = AddUtxo(@, <<a, o>>, Amount(o))]
<1> DEFINE p == <<a, o>>
           u == <<o, Amount(o)>>
           C == {c \in Coin : Listed(c)}
           D == {c \in Coin : Listed(c)'}
<1>1. /\ UtxoInv'
      /\ \A x \in Accounts :
            /\ Stock(x)' = Stock(x)
            /\ Added(x)' = IF x = a THEN Added(a) \cup {u} ELSE Added(x)
            /\ Deleted(x)' = IF x = a THEN Deleted(a) \ {o} ELSE Deleted(x)
    BY AddedUtxo
<1>2. Hashes' = Hashes /\ Records' = Records BY JournalSame, SameBlocks
<1>3. p \in Coin /\ p[1] = a /\ p[2] = o BY DEF Coin
<1>4. ASSUME NEW c \in Coin PROVE Listed(c)' <=> Listed(c) \/ c = p
    <2>1. c[1] \in Accounts /\ c[2] \in Outpoints /\ c = <<c[1], c[2]>> BY DEF Coin
    <2> DEFINE v == <<c[2], Amount(c[2])>>
    <2>2. v[1] = c[2] OBVIOUS
    <2>3. Listed(c) <=> (v \in Stock(c[1]) \/ v \in Added(c[1])) /\ c[2] \notin Deleted(c[1])
        BY <2>2 DEF Listed, Without
    <2>4. Listed(c)' <=> (v \in Stock(c[1])' \/ v \in Added(c[1])') /\ c[2] \notin Deleted(c[1])'
        BY <2>2 DEF Listed, Without
    <2>5. CASE c[1] # a
        <3>1. c # p BY <1>3, <2>5
        <3> QED BY <1>1, <2>1, <2>3, <2>4, <2>5, <3>1
    <2>6. CASE c[1] = a /\ c[2] # o
        <3>1. c # p /\ v # u BY <1>3, <2>6
        <3> HIDE DEF v, u
        <3> QED BY <1>1, <2>1, <2>3, <2>4, <2>6, <3>1
    <2>7. CASE c[1] = a /\ c[2] = o
        <3>1. c = p /\ v = u BY <2>1, <2>7
        <3> HIDE DEF v, u
        <3> QED BY <1>1, <2>1, <2>3, <2>4, <2>7, <3>1
    <2> QED BY <2>5, <2>6, <2>7
<1>5. D = C \cup {p} BY <1>3, <1>4
<1>6. Seen(tx).utxos = AmountsOf(C) BY SeenOpen
<1>7. Seen(tx)'.utxos = AmountsOf(D) BY <1>1, SeenOpenNext DEF AmountsOf
<1> HIDE DEF C, D, p
<1>8. Seen(tx)'.utxos = AddUtxo(Seen(tx).utxos, p, Amount(o)) BY <1>3, <1>5, <1>6, <1>7, AmountsAdd
<1> DEFINE d == Seen(tx)
           e == Seen(tx)'
<1>9. d = [processed |-> Hashes, balances |-> Records, utxos |-> d.utxos] BY SeenFields
<1>10. e = [processed |-> Hashes, balances |-> Records, utxos |-> e.utxos] BY <1>2, SeenFieldsNext
<1> HIDE DEF d, e
<1>11. [d EXCEPT !.utxos = AddUtxo(d.utxos, p, Amount(o))] = e
    BY <1>8, <1>9, <1>10, UtxoField DEF d, e
<1> QED BY <1>11 DEF d, e, p

\* DelUtxo changes what the Update sees as the contract says.
LEMMA DelSeen ==
    ASSUME MemInv, UtxoInv, NEW a \in Accounts, NEW o \in Outpoints, MemDelUtxo(a, o)
    PROVE  Seen(tx)' = [Seen(tx) EXCEPT !.utxos = DelUtxo(@, <<a, o>>)]
<1> DEFINE p == <<a, o>>
           C == {c \in Coin : Listed(c)}
           D == {c \in Coin : Listed(c)'}
<1>1. /\ UtxoInv'
      /\ \A x \in Accounts :
            /\ Stock(x)' = Stock(x)
            /\ Added(x)' = IF x = a THEN Without(Added(a), {o}) ELSE Added(x)
            /\ Deleted(x)' = IF x = a THEN Deleted(a) \cup {o} ELSE Deleted(x)
    BY DeletedUtxo
<1>2. Hashes' = Hashes /\ Records' = Records BY JournalSame, SameBlocks
<1>3. p \in Coin /\ p[1] = a /\ p[2] = o BY DEF Coin
<1>4. ASSUME NEW c \in Coin PROVE Listed(c)' <=> Listed(c) /\ c # p
    <2>1. c[1] \in Accounts /\ c[2] \in Outpoints /\ c = <<c[1], c[2]>> BY DEF Coin
    <2> DEFINE v == <<c[2], Amount(c[2])>>
    <2>2. v[1] = c[2] OBVIOUS
    <2>3. Listed(c) <=> (v \in Stock(c[1]) \/ v \in Added(c[1])) /\ c[2] \notin Deleted(c[1])
        BY <2>2 DEF Listed, Without
    <2>4. Listed(c)' <=> (v \in Stock(c[1])' \/ v \in Added(c[1])') /\ c[2] \notin Deleted(c[1])'
        BY <2>2 DEF Listed, Without
    <2>8. v \in Without(Added(a), {o}) <=> v \in Added(a) /\ c[2] # o BY <2>2 DEF Without
    <2>5. CASE c[1] # a
        <3>1. c # p BY <1>3, <2>5
        <3> QED BY <1>1, <2>1, <2>3, <2>4, <2>5, <3>1
    <2>6. CASE c[1] = a /\ c[2] # o
        <3>1. c # p BY <1>3, <2>6
        <3> HIDE DEF v
        <3> QED BY <1>1, <2>1, <2>3, <2>4, <2>6, <2>8, <3>1
    <2>7. CASE c[1] = a /\ c[2] = o
        <3>1. c = p BY <2>1, <2>7
        <3> HIDE DEF v
        <3> QED BY <1>1, <2>1, <2>3, <2>4, <2>7, <3>1
    <2> QED BY <2>5, <2>6, <2>7
<1>5. D = C \ {p} BY <1>3, <1>4
<1>6. Seen(tx).utxos = AmountsOf(C) BY SeenOpen
<1>7. Seen(tx)'.utxos = AmountsOf(D) BY <1>1, SeenOpenNext DEF AmountsOf
<1> HIDE DEF C, D, p
<1>8. Seen(tx)'.utxos = DelUtxo(Seen(tx).utxos, p) BY <1>5, <1>6, <1>7, AmountsDel
<1> DEFINE d == Seen(tx)
           e == Seen(tx)'
<1>9. d = [processed |-> Hashes, balances |-> Records, utxos |-> d.utxos] BY SeenFields
<1>10. e = [processed |-> Hashes, balances |-> Records, utxos |-> e.utxos] BY <1>2, SeenFieldsNext
<1> HIDE DEF d, e
<1>11. [d EXCEPT !.utxos = DelUtxo(d.utxos, p)] = e
    BY <1>8, <1>9, <1>10, UtxoField DEF d, e
<1> QED BY <1>11 DEF d, e, p

\* The entries of height k.
At(R, k) == {e \in R : e.height = k}

\* A record depends on the entries of its height only.
LEMMA SameRecordsIn ==
    ASSUME NEW E, NEW F, NEW k, \A x \in Accounts : At(E[x], k) = At(F[x], k)
    PROVE  RecordsIn(E, k) = RecordsIn(F, k)
<1>1. ASSUME NEW G, NEW y
      PROVE  y \in RecordsIn(G, k) <=>
                \E x \in Accounts : \E e \in At(G[x], k) : y = <<x, e>>
    <2>1. y \in UNION {{x} \X G[x] : x \in Accounts} <=>
             \E x \in Accounts : \E e \in G[x] : y = <<x, e>>
        <3> DEFINE f(x) == {x} \X G[x]
        <3>1. \A x : y \in f(x) <=> \E e \in G[x] : y = <<x, e>> OBVIOUS
        <3> HIDE DEF f
        <3>2. y \in UNION {f(x) : x \in Accounts} <=> \E x \in Accounts : y \in f(x) BY Zenon
        <3> QED BY <3>1, <3>2 DEF f
    <2>2. \A x, e : <<x, e>>[2] = e OBVIOUS
    <2>3. y \in RecordsIn(G, k) <=> y \in UNION {{x} \X G[x] : x \in Accounts} /\ y[2].height = k
        BY DEF RecordsIn
    <2> QED BY <2>1, <2>2, <2>3 DEF At
<1>2. \A y : y \in RecordsIn(E, k) <=> y \in RecordsIn(F, k) BY <1>1
<1> QED BY <1>2

\* The records of a height at which exactly the accounts of bals have an entry.
LEMMA RecordIs ==
    ASSUME NEW E, NEW k, NEW bals, IsPartialFcn(bals, Accounts, Int),
           \A x \in Accounts : At(E[x], k) =
               IF x \in DOMAIN bals THEN {[height |-> k, balance |-> bals[x]]} ELSE {}
    PROVE  RecordOf(RecordsIn(E, k)) = bals
<1> DEFINE e(x) == [height |-> k, balance |-> bals[x]]
           R == RecordsIn(E, k)
<1>1. ASSUME NEW y PROVE y \in R <=> \E x \in DOMAIN bals : y = <<x, e(x)>>
    <2>1. y \in UNION {{x} \X E[x] : x \in Accounts} <=>
             \E x \in Accounts : \E z \in E[x] : y = <<x, z>>
        <3> DEFINE f(x) == {x} \X E[x]
        <3>1. \A x : y \in f(x) <=> \E z \in E[x] : y = <<x, z>> OBVIOUS
        <3> HIDE DEF f
        <3>2. y \in UNION {f(x) : x \in Accounts} <=> \E x \in Accounts : y \in f(x) BY Zenon
        <3> QED BY <3>1, <3>2 DEF f
    <2>2. \A x, z : <<x, z>>[2] = z OBVIOUS
    <2>3. y \in R <=> y \in UNION {{x} \X E[x] : x \in Accounts} /\ y[2].height = k
        BY DEF RecordsIn
    <2>4. y \in R <=> \E x \in Accounts : \E z \in At(E[x], k) : y = <<x, z>>
        BY <2>1, <2>2, <2>3 DEF At
    <2>5. DOMAIN bals \subseteq Accounts BY DEF IsPartialFcn
    <2>6. \A x \in Accounts : \A z : z \in At(E[x], k) <=> x \in DOMAIN bals /\ z = e(x) OBVIOUS
    <2> HIDE DEF e, R
    <2> QED BY <2>4, <2>5, <2>6
<1>2. \A x : e(x).balance = bals[x] OBVIOUS
<1> HIDE DEF e, R
<1>3. {y[1] : y \in R} = DOMAIN bals
    <2> DEFINE f(x) == <<x, e(x)>>
    <2>1. \A x : f(x)[1] = x OBVIOUS
    <2>2. \A y : y \in R <=> \E x \in DOMAIN bals : y = f(x) BY <1>1
    <2> HIDE DEF f
    <2>3. \A x \in DOMAIN bals : f(x) \in R /\ f(x)[1] = x BY <2>1, <2>2
    <2>4. \A y \in R : y[1] \in DOMAIN bals BY <2>1, <2>2
    <2>5. ASSUME NEW x \in DOMAIN bals PROVE x \in {y[1] : y \in R} BY <2>3
    <2> QED BY <2>4, <2>5
<1>4. ASSUME NEW x \in DOMAIN bals PROVE (CHOOSE y \in R : y[1] = x)[2].balance = bals[x]
    <2> DEFINE w == CHOOSE y \in R : y[1] = x
    <2>0. \A z : <<z, e(z)>>[1] = z /\ <<z, e(z)>>[2] = e(z) OBVIOUS
    <2>1. \E y \in R : y[1] = x BY <1>1, <2>0
    <2>2. w \in R /\ w[1] = x BY <2>1
    <2> HIDE DEF w
    <2>3. w[2] = e(x) BY <1>1, <2>0, <2>2
    <2> QED BY <1>2, <2>3 DEF w
<1>5. RecordOf(R) = [x \in DOMAIN bals |-> bals[x]] BY <1>3, <1>4 DEF RecordOf
<1>6. bals = [x \in DOMAIN bals |-> bals[x]] BY DEF IsPartialFcn
<1> QED BY <1>5, <1>6 DEF R

\* A table of the first n heights.
IsTable(p, n) == p = [l \in 1..n |-> p[l]]

\* One block more is StoreBalances of the contract.
LEMMA SeenGrows ==
    ASSUME NEW n \in Nat, NEW pm, NEW bm, NEW pe, NEW be, NEW u, NEW d, NEW e,
           d = [processed |-> pm, balances |-> bm, utxos |-> u],
           e = [processed |-> pe, balances |-> be, utxos |-> u],
           IsTable(pm, n), IsTable(bm, n), IsTable(pe, n + 1), IsTable(be, n + 1),
           \A l \in 1..n : pe[l] = pm[l] /\ be[l] = bm[l]
    PROVE  e = StoreBalances(d, pe[n + 1], be[n + 1])
<1> DEFINE P == {pe[l] : l \in 1..(n + 1)}
           B == {be[l] : l \in 1..(n + 1)}
<1>1. \A l \in 1..n : l \in 1..(n + 1) OBVIOUS
<1>2. pm \in [1..n -> P] /\ pe \in [1..(n + 1) -> P]
    <2>1. \A l \in 1..(n + 1) : pe[l] \in P OBVIOUS
    <2>2. \A l \in 1..n : pm[l] \in P BY <1>1, <2>1
    <2> HIDE DEF P
    <2> QED BY <2>1, <2>2 DEF IsTable
<1>3. bm \in [1..n -> B] /\ be \in [1..(n + 1) -> B]
    <2>1. \A l \in 1..(n + 1) : be[l] \in B OBVIOUS
    <2>2. \A l \in 1..n : bm[l] \in B BY <1>1, <2>1
    <2> HIDE DEF B
    <2> QED BY <2>1, <2>2 DEF IsTable
<1> HIDE DEF P, B
<1>4. pe = Append(pm, pe[n + 1]) BY <1>2, TableGrows
<1>5. be = Append(bm, be[n + 1]) BY <1>3, TableGrows
<1>6. d.processed = pm /\ d.balances = bm OBVIOUS
<1>7. StoreBalances(d, pe[n + 1], be[n + 1])
        = [d EXCEPT !.processed = Append(pm, pe[n + 1]), !.balances = Append(bm, be[n + 1])]
    BY <1>6 DEF StoreBalances
<1>8. StoreBalances(d, pe[n + 1], be[n + 1]) = [d EXCEPT !.processed = pe, !.balances = be]
    BY <1>4, <1>5, <1>7
<1> QED BY <1>8, TwoFields

\* One block less is RollbackTip of the contract.
LEMMA SeenShrinks ==
    ASSUME NEW n \in Nat \ {0}, NEW pm, NEW bm, NEW pe, NEW be, NEW u, NEW d, NEW e,
           d = [processed |-> pm, balances |-> bm, utxos |-> u],
           e = [processed |-> pe, balances |-> be, utxos |-> u],
           IsTable(pm, n), IsTable(bm, n), IsTable(pe, n - 1), IsTable(be, n - 1),
           \A l \in 1..(n - 1) : pe[l] = pm[l] /\ be[l] = bm[l]
    PROVE  e = RollbackTip(d) /\ LastHeight(d) = n
<1> DEFINE P == {pm[l] : l \in 1..n}
           B == {bm[l] : l \in 1..n}
<1>1. \A l \in 1..(n - 1) : l \in 1..n OBVIOUS
<1>2. pm \in [1..n -> P] /\ pe \in [1..(n - 1) -> P]
    <2>1. \A l \in 1..n : pm[l] \in P OBVIOUS
    <2>2. \A l \in 1..(n - 1) : pe[l] \in P BY <1>1, <2>1
    <2> HIDE DEF P
    <2> QED BY <2>1, <2>2 DEF IsTable
<1>3. bm \in [1..n -> B] /\ be \in [1..(n - 1) -> B]
    <2>1. \A l \in 1..n : bm[l] \in B OBVIOUS
    <2>2. \A l \in 1..(n - 1) : be[l] \in B BY <1>1, <2>1
    <2> HIDE DEF B
    <2> QED BY <2>1, <2>2 DEF IsTable
<1> HIDE DEF P, B
<1>4. Len(pm) = n /\ pe = SubSeq(pm, 1, n - 1) BY <1>2, TableShrinks
<1>5. Len(bm) = n /\ be = SubSeq(bm, 1, n - 1) BY <1>3, TableShrinks
<1>6. d.processed = pm /\ d.balances = bm OBVIOUS
<1>7. RollbackTip(d) = [d EXCEPT !.processed = SubSeq(pm, 1, n - 1), !.balances = SubSeq(bm, 1, n - 1)]
    BY <1>4, <1>5, <1>6 DEF RollbackTip
<1>8. RollbackTip(d) = [d EXCEPT !.processed = pe, !.balances = be] BY <1>4, <1>5, <1>7
<1>9. LastHeight(d) = n BY <1>4, <1>6 DEF LastHeight
<1> QED BY <1>8, <1>9, TwoFields

\* An empty journal adds no entry.
LEMMA RangeOfNone ==
    ASSUME NEW s \in Seq(Entry)
    PROVE  Range(s \o << >>) = Range(s)
<1>1. s \o << >> = s OBVIOUS
<1> QED BY <1>1

\* StoreBalances: a block longer, with these balances.
LEMMA StoreSeen ==
    ASSUME MemInv, MemInv', UtxoInv, UtxoInv', NEW b \in Blocks \ {Genesis}, NEW bals \in BalanceMaps,
           MemStoreBalances(b, bals)
    PROVE  /\ Seen(tx)' = StoreBalances(Seen(tx), b, bals)
           /\ Height[b] = TipSeen + 1 /\ StoreCall /\ UNCHANGED tables /\ UNCHANGED before
<1> DEFINE n == TipSeen
           h == Height[b]
           new(a) == [height |-> h, balance |-> bals[a]]
           B == [a \in Accounts |-> IF a \in DOMAIN bals THEN Append(tx.balances[a], new(a))
                                    ELSE tx.balances[a]]
           P == [k \in DOMAIN tx.processedBlocks \cup {h} |->
                    IF k = h THEN [hash |-> b, accounts |-> DOMAIN bals] ELSE tx.processedBlocks[k]]
<1>1. /\ StoreCall /\ upd.kind = "connect" /\ ~upd.tips
      /\ h = n + 1 /\ UNCHANGED tables /\ UNCHANGED before
      /\ tx' = [tx EXCEPT !.balances = B, !.processedBlocks = P,
                          !.blockHash = b, !.blockHeight = h, !.updatedBlock = TRUE]
    BY DEF MemStoreBalances, StoreCall, TipSeen
<1>2. balances' = balances /\ last' = last /\ processedBlocks' = processedBlocks BY <1>1 DEF tables
<1>3. ~Stored BY <1>1 DEF Stored
<1>4. /\ \A a \in Accounts : tx.balances[a] = << >>
      /\ DOMAIN tx.processedBlocks = {} /\ ~tx.updatedBlock
    BY <1>1, <1>3 DEF MemInv, JournalInv, NothingStored
<1>5. n = last.height /\ n \in Nat BY <1>4 DEF MemInv, MemTypes, MemLastBlock, TipSeen
<1>6. tx = [balances |-> tx.balances, updatedBlock |-> tx.updatedBlock,
            blockHash |-> tx.blockHash, blockHeight |-> tx.blockHeight,
            processedBlocks |-> tx.processedBlocks, utxos |-> tx.utxos,
            delUtxos |-> tx.delUtxos]
    BY JournalFields DEF MemInv, MemTypes
<1>7. DOMAIN P = {h} /\ P[h].hash = b BY <1>4
<1>8. \A a \in Accounts : B[a] = IF a \in DOMAIN bals THEN Append(<< >>, new(a)) ELSE << >>
    BY <1>4
<1>b. bals \in [DOMAIN bals -> Int] /\ DOMAIN bals \subseteq Accounts /\ IsPartialFcn(bals, Accounts, Int)
    BY UpdatesAssumption DEF IsPartialFcn
<1>9. \A a \in DOMAIN bals : new(a) \in Entry BY <1>1, <1>5, <1>b DEF Entry
<1>n. \A a : new(a).height = h OBVIOUS
<1> HIDE DEF B, P, h, n
<1>10. /\ tx'.balances = B /\ tx'.updatedBlock = TRUE /\ tx'.blockHeight = h /\ tx'.blockHash = b
       /\ tx'.processedBlocks = P /\ tx'.utxos = tx.utxos /\ tx'.delUtxos = tx.delUtxos
    BY <1>1, <1>6
<1>11. TipSeen' = n + 1 BY <1>1, <1>10 DEF TipSeen, MemLastBlock
<1>12. TipSeen = n BY DEF n
<1>13. \A l \in 1..n : l # h /\ l \in 1..(n + 1) BY <1>1, <1>5
<1>14. \A l \in 1..n : Hashes'[l] = Hashes[l]
    <2>1. ASSUME NEW l \in 1..n PROVE ProcessedBlockHash(tx, l)' = ProcessedBlockHash(tx, l)
        BY <1>2, <1>4, <1>7, <1>10, <1>13 DEF ProcessedBlockHash
    <2> QED BY <1>11, <1>12, <1>13, <2>1 DEF Hashes
<1>15. Hashes'[n + 1] = b
    <2>1. ProcessedBlockHash(tx, h)' = b BY <1>7, <1>10 DEF ProcessedBlockHash
    <2>2. h \in 1..(n + 1) BY <1>1, <1>5
    <2> QED BY <1>1, <1>11, <2>1, <2>2 DEF Hashes
<1>16. ASSUME NEW a \in Accounts
       PROVE  /\ balances[a] \in Seq(Entry) /\ Entries(a) = Range(balances[a])
              /\ \A x \in Range(balances[a]) : x.height \in 1..n
    <2>1. balances[a] \in Seq(Entry) BY DEF MemInv, MemTypes
    <2>2. Entries(a) = Range(balances[a]) BY <1>4, <2>1, RangeOfNone DEF Entries
    <2>3. History(balances[a], n) BY <1>5, TablesHistory
    <2>4. OnePerHeight(Range(balances[a]), n) BY <1>5, <2>3, HistoryOnce
    <2> QED BY <2>1, <2>2, <2>4 DEF OnePerHeight
<1>17. ASSUME NEW a \in Accounts
       PROVE  Entries(a)' = IF a \in DOMAIN bals THEN Entries(a) \cup {new(a)} ELSE Entries(a)
    <2> HIDE DEF new
    <2>1. Entries(a)' = Range(balances[a] \o B[a]) BY <1>2, <1>10 DEF Entries
    <2>2. CASE a \in DOMAIN bals
        <3>1. B[a] = << new(a) >>
            <4>1. B[a] = Append(<< >>, new(a)) BY <1>8, <2>2
            <4>2. Append(<< >>, new(a)) = << new(a) >> OBVIOUS
            <4> QED BY <4>1, <4>2
        <3> QED BY <1>9, <1>16, <2>1, <2>2, <3>1, RangeOfAppended
    <2>3. CASE a \notin DOMAIN bals
        <3>1. B[a] = << >> BY <1>8, <2>3
        <3> QED BY <1>16, <2>1, <2>3, <3>1, RangeOfNone
    <2> QED BY <2>2, <2>3
<1>18. \A a \in Accounts : AllEntries[a] = Entries(a) /\ AllEntries'[a] = Entries(a)'
    BY DEF AllEntries
<1> DEFINE E == AllEntries
           F == AllEntries'
<1>19. ASSUME NEW l \in 1..n PROVE Records'[l] = Records[l]
    <2>1. ASSUME NEW a \in Accounts PROVE At(E[a], l) = At(F[a], l)
        <3>1. E[a] = Entries(a) /\ F[a] = IF a \in DOMAIN bals THEN Entries(a) \cup {new(a)} ELSE Entries(a)
            BY <1>17, <1>18
        <3> HIDE DEF E, F, new
        <3> QED BY <1>n, <1>13, <3>1 DEF At
    <2> HIDE DEF E, F
    <2>2. RecordsIn(E, l) = RecordsIn(F, l) BY <2>1, SameRecordsIn
    <2> QED BY <1>11, <1>12, <1>13, <2>2 DEF Records, E, F
<1>20. Records'[n + 1] = bals
    <2>1. ASSUME NEW a \in Accounts
          PROVE  At(F[a], h) = IF a \in DOMAIN bals THEN {new(a)} ELSE {}
        <3>1. F[a] = IF a \in DOMAIN bals THEN Entries(a) \cup {new(a)} ELSE Entries(a)
            BY <1>17, <1>18
        <3>2. \A x \in Entries(a) : x.height # h BY <1>13, <1>16
        <3> HIDE DEF F, new
        <3> QED BY <1>n, <3>1, <3>2 DEF At
    <2> HIDE DEF F
    <2>2. RecordOf(RecordsIn(F, h)) = bals BY <1>b, <2>1, RecordIs
    <2>3. n + 1 \in 1..(n + 1) BY <1>5
    <2> QED BY <1>1, <1>11, <2>2, <2>3 DEF Records, F
<1>21. Seen(tx)'.utxos = Seen(tx).utxos
    <2>1. buckets' = buckets BY <1>1 DEF tables
    <2>2. \A c \in Coin : Listed(c)' <=> Listed(c)
        BY <1>10, <2>1 DEF Listed, Stock, Added, Deleted
    <2> QED BY <2>2, SeenOpen, SeenOpenNext DEF AmountsOf
<1>22. /\ IsTable(Hashes, n) /\ IsTable(Records, n)
       /\ IsTable(Hashes', n + 1) /\ IsTable(Records', n + 1)
    BY <1>11, <1>12 DEF IsTable, Hashes, Records
<1> DEFINE d == Seen(tx)
           e == Seen(tx)'
<1>23. d = [processed |-> Hashes, balances |-> Records, utxos |-> d.utxos] BY SeenFields
<1>24. e = [processed |-> Hashes', balances |-> Records', utxos |-> d.utxos] BY <1>21, SeenFieldsNext
<1> HIDE DEF d, e
<1>25. e = StoreBalances(d, Hashes'[n + 1], Records'[n + 1])
    BY <1>5, <1>14, <1>19, <1>22, <1>23, <1>24, SeenGrows
<1> QED BY <1>1, <1>15, <1>20, <1>25 DEF d, e, n, h

\* What is left of a history when an entry at the top height is dropped.
LEMMA DropRange ==
    ASSUME NEW s, NEW h \in Nat \ {0}, History(s, h), NEW r,
           r = IF s # << >> /\ s[Len(s)].height = h THEN SubSeq(s, 1, Len(s) - 1) ELSE s,
           NEW l \in 1..(h - 1)
    PROVE  At(Range(r), l) = At(Range(s), l)
<1>1. s \in Seq(Entry) /\ Len(s) \in Nat BY DEF History
<1>2. l # h OBVIOUS
<1>3. CASE s # << >> /\ s[Len(s)].height = h
    <2> DEFINE m == Len(s)
    <2>1. r = SubSeq(s, 1, m - 1) /\ m \in 1..m BY <1>1, <1>3
    <2>2. DOMAIN r = 1..(m - 1) /\ DOMAIN s = 1..m /\ \A i \in 1..(m - 1) : r[i] = s[i] /\ i \in 1..m
        BY <1>1, <2>1
    <2>3. \A i \in 1..m : i \in 1..(m - 1) \/ i = m BY <1>1
    <2>4. s[m].height = h BY <1>3
    <2> HIDE DEF m
    <2>5. Range(r) = {r[i] : i \in 1..(m - 1)} /\ Range(s) = {s[i] : i \in 1..m} BY <2>2 DEF Range
    <2>6. ASSUME NEW e PROVE e \in At(Range(r), l) => e \in At(Range(s), l)
        BY <2>2, <2>5 DEF At
    <2>7. ASSUME NEW e PROVE e \in At(Range(s), l) => e \in At(Range(r), l)
        BY <1>2, <2>2, <2>3, <2>4, <2>5 DEF At
    <2> QED BY <2>6, <2>7
<1>4. CASE ~(s # << >> /\ s[Len(s)].height = h) BY <1>4
<1> QED BY <1>3, <1>4

\* RollbackTip finds the tip in the table, and the block below it.
Rolled(h) ==
    /\ RollbackCall /\ UNCHANGED <<last, buckets, before>>
    /\ TipSeen = h /\ TableTip = h /\ h \in Nat \ {0} /\ h > 1
    /\ h - 1 \in DOMAIN processedBlocks
    /\ DOMAIN processedBlocks' = DOMAIN processedBlocks \ {h}
    /\ \A k \in DOMAIN processedBlocks' : processedBlocks'[k] = processedBlocks[k]
    /\ tx'.balances = tx.balances /\ tx'.updatedBlock = TRUE /\ tx'.blockHeight = h - 1
    /\ tx'.processedBlocks = tx.processedBlocks
    /\ tx'.utxos = tx.utxos /\ tx'.delUtxos = tx.delUtxos
    /\ \A a \in Accounts : balances'[a] =
          IF balances[a] # << >> /\ balances[a][Len(balances[a])].height = h
          THEN SubSeq(balances[a], 1, Len(balances[a]) - 1) ELSE balances[a]

\* The tip is in the table, as the table has no gap, so RollbackTip drops it.
LEMMA RolledBack ==
    ASSUME MemInv, DOMAIN processedBlocks = 1..TableTip, MemRollbackTip
    PROVE  NothingStored /\ Rolled(TipSeen)
<1> DEFINE tip == IF tx.blockHeight = 0 THEN last
                  ELSE [hash |-> tx.blockHash, height |-> tx.blockHeight]
           h == tip.height
           p == processedBlocks[h - 1].hash
           Drops(a) == a \in processedBlocks[h].accounts /\ balances[a] # << >>
                       /\ balances[a][Len(balances[a])].height = h
           B == [a \in Accounts |-> IF Drops(a) THEN SubSeq(balances[a], 1, Len(balances[a]) - 1)
                                    ELSE balances[a]]
           P == Restrict(processedBlocks, DOMAIN processedBlocks \ {h})
<1>1. /\ upd.kind = "rollback" /\ RollbackCall /\ UNCHANGED <<last, buckets, before>>
      /\ h > 0
      /\ IF h \notin DOMAIN processedBlocks THEN UNCHANGED <<balances, processedBlocks, tx>>
         ELSE /\ h - 1 \in DOMAIN processedBlocks
              /\ balances' = B /\ processedBlocks' = P
              /\ tx' = [tx EXCEPT !.blockHash = p, !.blockHeight = h - 1, !.updatedBlock = TRUE]
    BY DEF MemRollbackTip, RollbackCall
<1>2. h = TipSeen BY DEF MemRollbackTip, TipSeen
<1>3. ~Stored BY <1>1 DEF Stored
<1>4. NothingStored BY <1>3 DEF MemInv, JournalInv
<1>5. TableTip = h /\ h \in Nat \ {0} BY <1>1, <1>2, <1>3, Tips DEF MemInv, TipSeen
<1>6. h \in DOMAIN processedBlocks BY <1>5
<1>7. /\ h - 1 \in DOMAIN processedBlocks /\ balances' = B /\ processedBlocks' = P
      /\ tx' = [tx EXCEPT !.blockHash = p, !.blockHeight = h - 1, !.updatedBlock = TRUE]
    BY <1>1, <1>6
<1>8. h > 1 BY <1>5, <1>7 DEF MemInv, MemTypes
<1>9. DOMAIN P = DOMAIN processedBlocks \ {h}
      /\ \A k \in DOMAIN processedBlocks \ {h} : P[k] = processedBlocks[k]
    BY DEF Restrict
<1>10. ASSUME NEW a \in Accounts
       PROVE  B[a] = IF balances[a] # << >> /\ balances[a][Len(balances[a])].height = h
                     THEN SubSeq(balances[a], 1, Len(balances[a]) - 1) ELSE balances[a]
    <2> DEFINE s == balances[a]
    <2>1. /\ History(s, h) /\ s \in Seq(Entry)
          /\ \A i \in DOMAIN s : HasOwner(a, s[i])
        BY <1>5 DEF MemInv, TablesInv, History
    <2>2. s # << >> => Len(s) \in DOMAIN s BY <2>1
    <2>3. Drops(a) <=> s # << >> /\ s[Len(s)].height = h BY <2>1, <2>2 DEF HasOwner
    <2>4. B[a] = IF Drops(a) THEN SubSeq(s, 1, Len(s) - 1) ELSE s OBVIOUS
    <2> HIDE DEF s, Drops, h, B
    <2> QED BY <2>3, <2>4 DEF s
<1> HIDE DEF B, P, Drops, h, p
<1>11. tx = [balances |-> tx.balances, updatedBlock |-> tx.updatedBlock,
             blockHash |-> tx.blockHash, blockHeight |-> tx.blockHeight,
             processedBlocks |-> tx.processedBlocks, utxos |-> tx.utxos,
             delUtxos |-> tx.delUtxos]
    BY JournalFields DEF MemInv, MemTypes
<1>12. /\ tx'.balances = tx.balances /\ tx'.updatedBlock = TRUE /\ tx'.blockHeight = h - 1
       /\ tx'.processedBlocks = tx.processedBlocks
       /\ tx'.utxos = tx.utxos /\ tx'.delUtxos = tx.delUtxos
    BY <1>7, <1>11
<1>13. Rolled(h) BY <1>1, <1>2, <1>5, <1>7, <1>8, <1>9, <1>10, <1>12 DEF Rolled
<1> QED BY <1>2, <1>4, <1>13

\* RollbackTip: a block shorter, although the tables are written at once.
LEMMA RollbackSeen ==
    ASSUME MemInv, UtxoInv, UtxoInv', DOMAIN processedBlocks = 1..TableTip, MemRollbackTip
    PROVE  /\ Seen(tx)' = RollbackTip(Seen(tx)) /\ CanRollbackTip(Seen(tx))
           /\ RollbackCall /\ UNCHANGED before
           /\ TableTip' = TipSeen - 1 /\ DOMAIN processedBlocks' = 1..(TipSeen - 1)
<1> DEFINE h == TipSeen
<1>1. NothingStored /\ Rolled(h) BY RolledBack
<1>2. /\ RollbackCall /\ UNCHANGED <<last, buckets, before>>
      /\ TipSeen = h /\ TableTip = h /\ h \in Nat \ {0} /\ h > 1
    BY <1>1 DEF Rolled
<1>3. upd.kind = "rollback" /\ upd'.kind = "rollback"
    BY <1>2 DEF RollbackCall, MemInv, MemTypes
<1>4. TipSeen' = h - 1 /\ TableTip' = h - 1
    BY <1>1, <1>3 DEF Rolled, TipSeen, MemLastBlock, TableTip
<1>5. DOMAIN processedBlocks = 1..h /\ DOMAIN processedBlocks' = 1..(h - 1)
    <2>1. (1..h) \ {h} = 1..(h - 1) BY <1>2
    <2> QED BY <1>1, <1>2, <2>1 DEF Rolled
<1>6. DOMAIN tx.processedBlocks = {} /\ \A a \in Accounts : tx.balances[a] = << >>
    BY <1>1 DEF NothingStored
<1> HIDE DEF h
<1>7. \A l \in 1..(h - 1) : l \in 1..h BY <1>2
<1>8. \A l \in 1..(h - 1) : Hashes'[l] = Hashes[l]
    <2>1. ASSUME NEW l \in 1..(h - 1) PROVE ProcessedBlockHash(tx, l)' = ProcessedBlockHash(tx, l)
        BY <1>1, <1>5, <1>6, <1>7 DEF ProcessedBlockHash, Rolled
    <2> QED BY <1>2, <1>4, <1>7, <2>1 DEF Hashes
<1> DEFINE E == AllEntries
           F == AllEntries'
<1>9. ASSUME NEW l \in 1..(h - 1) PROVE Records'[l] = Records[l]
    <2>1. ASSUME NEW a \in Accounts PROVE At(E[a], l) = At(F[a], l)
        <3> DEFINE s == balances[a]
                   r == balances'[a]
        <3>1. r = IF s # << >> /\ s[Len(s)].height = h THEN SubSeq(s, 1, Len(s) - 1) ELSE s
            BY <1>1 DEF Rolled
        <3>2. History(s, h) BY <1>2 DEF MemInv, TablesInv
        <3>3. tx.balances[a] = << >> /\ tx'.balances[a] = << >> BY <1>1, <1>6 DEF Rolled
        <3>4. E[a] = Range(s \o << >>) /\ F[a] = Range(r \o << >>) BY <3>3 DEF AllEntries, Entries
        <3> HIDE DEF E, F, s, r
        <3>5. At(Range(r), l) = At(Range(s), l) BY <1>2, <3>1, <3>2, DropRange
        <3>6. Shortened(r, s, h - 1) BY <1>2, <3>1, <3>2, HistoryDrop
        <3>7. r \in Seq(Entry) /\ s \in Seq(Entry) BY <3>2, <3>6 DEF History, Shortened
        <3> QED BY <3>4, <3>5, <3>7, RangeOfNone
    <2> HIDE DEF E, F
    <2>2. RecordsIn(E, l) = RecordsIn(F, l) BY <2>1, SameRecordsIn
    <2> QED BY <1>2, <1>4, <1>7, <2>2 DEF Records, E, F
<1>10. Seen(tx)'.utxos = Seen(tx).utxos
    <2>1. buckets' = buckets BY <1>2
    <2>2. \A c \in Coin : Listed(c)' <=> Listed(c)
        BY <1>1, <2>1 DEF Listed, Stock, Added, Deleted, Rolled
    <2> QED BY <2>2, SeenOpen, SeenOpenNext DEF AmountsOf
<1>11. /\ IsTable(Hashes, h) /\ IsTable(Records, h)
       /\ IsTable(Hashes', h - 1) /\ IsTable(Records', h - 1)
    BY <1>2, <1>4 DEF IsTable, Hashes, Records
<1> DEFINE d == Seen(tx)
           e == Seen(tx)'
<1>12. d = [processed |-> Hashes, balances |-> Records, utxos |-> d.utxos] BY SeenFields
<1>13. e = [processed |-> Hashes', balances |-> Records', utxos |-> d.utxos] BY <1>10, SeenFieldsNext
<1> HIDE DEF d, e
<1>14. e = RollbackTip(d) /\ LastHeight(d) = h
    BY <1>2, <1>8, <1>9, <1>11, <1>12, <1>13, SeenShrinks
<1>15. CanRollbackTip(d) BY <1>2, <1>14 DEF CanRollbackTip
<1> QED BY <1>2, <1>4, <1>5, <1>14, <1>15 DEF d, e, h

\* The tip an Update sees is the length of its chain.
LEMMA LastSeen ==
    ASSUME MemInv
    PROVE  LastHeight(Seen(tx)) = TipSeen
<1>1. TipSeen \in Nat BY Tips DEF MemInv, TipSeen
<1>2. Seen(tx).processed = Hashes BY SeenFields
<1>3. Len(Hashes) = TipSeen BY <1>1 DEF Hashes
<1> QED BY <1>2, <1>3 DEF LastHeight

\* The coins the tables show after a step.
LEMMA SeenStockNext == UtxoInv' => (Seen(EmptyTx).utxos = AmountsOf({c \in Coin : Held(c)}))'
BY SeenStock, PTL

\* A new journal shows what the tables hold.
LEMMA SeenBegun ==
    ASSUME tx' = EmptyTx, UNCHANGED tables
    PROVE  Seen(tx)' = Seen(EmptyTx) /\ Seen(EmptyTx)' = Seen(EmptyTx)
<1>1. /\ balances' = balances /\ last' = last /\ processedBlocks' = processedBlocks
      /\ buckets' = buckets
    BY DEF tables
<1> QED BY <1>1 DEF Seen, MemLastBlock, ProcessedBlockHash, MemListUtxos

\* What the tables show changes with the tables only.
LEMMA SameStock ==
    ASSUME UNCHANGED tables
    PROVE  Seen(EmptyTx)' = Seen(EmptyTx)
<1>1. /\ balances' = balances /\ last' = last /\ processedBlocks' = processedBlocks
      /\ buckets' = buckets
    BY DEF tables
<1> QED BY <1>1 DEF Seen, MemLastBlock, ProcessedBlockHash, MemListUtxos

\* Merging the journal into the tables: they then show what the Update saw.
LEMMA CommitSeen ==
    ASSUME MemInv, UtxoInv, Commit
    PROVE  Seen(EmptyTx)' = Seen(tx)
<1>1. /\ balances' = [a \in Accounts |-> balances[a] \o tx.balances[a]]
      /\ processedBlocks' = [h \in DOMAIN processedBlocks \cup DOMAIN tx.processedBlocks |->
            IF h \in DOMAIN tx.processedBlocks THEN tx.processedBlocks[h] ELSE processedBlocks[h]]
      /\ last'.height = TipSeen
    BY DEF Commit, TipSeen
<1> DEFINE d == Seen(tx)
           e == Seen(EmptyTx)'
           G == [b \in Accounts |-> Range(balances'[b] \o << >>)]
<1>2. StockFields' BY SeenTablesNext
<1>3. e.processed = [h \in 1..TipSeen |->
                         IF h \in DOMAIN processedBlocks' THEN processedBlocks'[h].hash ELSE NoBlock]
    BY <1>1, <1>2 DEF StockFields
<1>4. e.balances = [h \in 1..TipSeen |-> RecordOf(RecordsIn(G, h))]
    BY <1>1, <1>2 DEF StockFields
<1>5. e = [processed |-> e.processed, balances |-> e.balances, utxos |-> e.utxos]
    BY <1>2 DEF StockFields
<1>6. e.processed = Hashes
    <2>1. \A h : (IF h \in DOMAIN processedBlocks' THEN processedBlocks'[h].hash ELSE NoBlock)
                     = ProcessedBlockHash(tx, h)
        BY <1>1 DEF ProcessedBlockHash
    <2> QED BY <1>3, <2>1 DEF Hashes
<1>7. e.balances = Records
    <2>1. ASSUME NEW a \in Accounts PROVE G[a] = AllEntries[a]
        <3> DEFINE s == balances[a] \o tx.balances[a]
        <3>1. s \in Seq(Entry) BY Joined DEF History
        <3>2. balances'[a] = s BY <1>1
        <3>3. G[a] = Range(s \o << >>) BY <3>2
        <3>4. AllEntries[a] = Range(s) BY DEF AllEntries, Entries
        <3> HIDE DEF s, G
        <3> QED BY <3>1, <3>3, <3>4, RangeOfNone
    <2>2. G = AllEntries BY <2>1 DEF AllEntries
    <2> QED BY <1>4, <2>2 DEF Records
<1>8. e.utxos = d.utxos
    <2>1. UtxoInv' /\ \A a \in Accounts : Stock(a)' = Without(Stock(a) \cup Added(a), Deleted(a))
        BY CommittedUtxos
    <2>2. ASSUME NEW c \in Coin PROVE Held(c)' <=> Listed(c)
        <3>1. c[1] \in Accounts BY DEF Coin
        <3>2. Held(c)' <=> <<c[2], Amount(c[2])>> \in Stock(c[1])' BY DEF Held, Stock
        <3> QED BY <2>1, <3>1, <3>2 DEF Listed
    <2>3. e.utxos = AmountsOf({c \in Coin : Held(c)'}) BY <2>1, SeenStockNext DEF AmountsOf
    <2>4. d.utxos = AmountsOf({c \in Coin : Listed(c)}) BY SeenOpen
    <2>5. {c \in Coin : Held(c)'} = {c \in Coin : Listed(c)} BY <2>2
    <2> QED BY <2>3, <2>4, <2>5
<1>9. d = [processed |-> Hashes, balances |-> Records, utxos |-> d.utxos] BY SeenFields
<1> HIDE DEF d, e
<1>10. e = d BY <1>5, <1>6, <1>7, <1>8, <1>9
<1> QED BY <1>10 DEF d, e

\* A new store shows an empty database.
LEMMA SeenNew ==
    ASSUME Init, UtxoInv
    PROVE  Seen(EmptyTx) = EmptyDb
<1>1. /\ last.height = 0 /\ 1..0 = {} /\ \A a \in Accounts : buckets[a] = NoUtxos
    BY DEF Init, NewMemDB, NoUtxos
<1>2. Seen(EmptyTx).processed = << >> /\ Seen(EmptyTx).balances = << >>
    BY <1>1, SeenTables DEF StockFields
<1>3. {c \in Coin : Held(c)} = {}
    <2>1. ASSUME NEW c \in Coin PROVE ~Held(c)
        <3>1. buckets[c[1]] = NoUtxos BY <1>1 DEF Coin
        <3>2. InBuckets(NoUtxos) = {} BY DEF InBuckets, NoUtxos
        <3> QED BY <3>1, <3>2 DEF Held
    <2> QED BY <2>1
<1>4. Seen(EmptyTx).utxos = << >>
    <2>1. Seen(EmptyTx).utxos = AmountsOf({}) BY <1>3, SeenStock
    <2>2. AmountsOf({}) = << >> BY DEF AmountsOf
    <2> QED BY <2>1, <2>2
<1> QED BY <1>2, <1>4, SeenTables DEF StockFields, EmptyDb

\* The invariant holds of a new store.
LEMMA ContractInit == Init => ContractInv
<1> SUFFICES ASSUME Init PROVE ContractInv OBVIOUS
<1>1. upd.kind = "none" BY DEF Init, NoUpdate
<1>2. DOMAIN processedBlocks = {} /\ last.height = 0 BY DEF Init, NewMemDB
<1>3. TableTip = 0 BY <1>1, <1>2 DEF TableTip
<1>4. 1..0 = {} OBVIOUS
<1> QED BY <1>1, <1>2, <1>3, <1>4 DEF ContractInv

\* An Update begins or fails with the tables as they are between Updates.
LEMMA ContractBegun ==
    ASSUME MemInv, ContractInv, ~LateAborts, Begin \/ Abort
    PROVE  /\ DOMAIN processedBlocks' = 1..TableTip'
           /\ ~tx'.updatedBlock /\ Seen(EmptyTx)' = Seen(EmptyTx) /\ Seen(tx)' = Seen(EmptyTx)
<1>1. tx' = EmptyTx /\ UNCHANGED tables BY DEF Begin, Abort
<1>2. ~tx'.updatedBlock BY <1>1 DEF EmptyTx
<1>3. last' = last /\ processedBlocks' = processedBlocks BY <1>1 DEF tables
<1>4. upd.kind = "rollback" => ~upd.tips BY DEF Begin, BeginCall, Abort, AbortCall
<1>5. TableTip = last.height
    <2>1. CASE upd.kind = "rollback"
        <3>1. ~tx.updatedBlock BY <1>4, <2>1 DEF ContractInv
        <3> QED BY <2>1, <3>1 DEF TableTip, MemLastBlock
    <2>2. CASE upd.kind # "rollback" BY <2>2 DEF TableTip
    <2> QED BY <2>1, <2>2
<1>6. TableTip' = last.height BY <1>2, <1>3 DEF TableTip, MemLastBlock
<1> QED BY <1>1, <1>2, <1>3, <1>5, <1>6, SeenBegun DEF ContractInv

\* Every step keeps the invariant, as long as no Update fails late.
LEMMA ContractNext ==
    ASSUME ~ReAdds, ~LateAborts, MemInv, MemInv', UtxoInv, UtxoInv', ContractInv, [Next]_vars
    PROVE  ContractInv'
<1>1. CASE Begin
    <2>1. before' = Seen(EmptyTx) BY <1>1 DEF Begin
    <2> QED BY <1>1, <2>1, ContractBegun DEF ContractInv
<1>2. CASE Abort
    <2>1. upd'.kind = "none" BY <1>2 DEF Abort, AbortCall, NoUpdate
    <2> QED BY <1>2, <2>1, ContractBegun DEF ContractInv
<1>3. CASE Commit
    <2>1. upd'.kind = "none" /\ last'.height = TipSeen
        BY <1>3 DEF Commit, CommitCall, NoUpdate, TipSeen
    <2>2. TableTip' = TipSeen BY <2>1 DEF TableTip
    <2>3. DOMAIN processedBlocks' = DOMAIN processedBlocks \cup DOMAIN tx.processedBlocks
        BY <1>3 DEF Commit
    <2>4. DOMAIN processedBlocks = 1..TableTip BY DEF ContractInv
    <2>5. CASE Stored
        <3>1. DOMAIN tx.processedBlocks = {tx.blockHeight} BY <2>5 DEF MemInv, JournalInv, StoredBlock
        <3>2. TipSeen = tx.blockHeight /\ tx.blockHeight = TableTip + 1 /\ TableTip \in Nat
            BY <2>5, Tips DEF MemInv, TipSeen
        <3>3. 1..(TableTip + 1) = (1..TableTip) \cup {TableTip + 1} BY <3>2
        <3>4. DOMAIN processedBlocks' = 1..TipSeen BY <2>3, <2>4, <3>1, <3>2, <3>3
        <3> QED BY <2>1, <2>2, <3>4 DEF ContractInv
    <2>6. CASE ~Stored
        <3>1. DOMAIN tx.processedBlocks = {} BY <2>6 DEF MemInv, JournalInv, NothingStored
        <3>2. TipSeen = TableTip BY <2>6, Tips DEF MemInv, TipSeen
        <3> QED BY <2>1, <2>2, <2>3, <2>4, <3>1, <3>2 DEF ContractInv
    <2> QED BY <2>5, <2>6
<1>4. CASE MemRollbackTip
    <2>1. TableTip' = TipSeen - 1 /\ DOMAIN processedBlocks' = 1..(TipSeen - 1) /\ RollbackCall
        BY <1>4, RollbackSeen DEF ContractInv
    <2>2. upd'.kind = "rollback" /\ upd'.tips BY <2>1 DEF RollbackCall, MemInv, MemTypes
    <2> QED BY <2>1, <2>2 DEF ContractInv
<1>5. ASSUME NEW c \in Coins, MemAddUtxo(c[1], c[2]) \/ MemDelUtxo(c[1], c[2]) PROVE ContractInv'
    <2>1. /\ UNCHANGED tables /\ UNCHANGED before /\ UtxoCall(TipSeen)
          /\ tx'.updatedBlock = tx.updatedBlock /\ tx'.blockHeight = tx.blockHeight
        BY <1>5, JournalSame
    <2>2. upd' = [upd EXCEPT !.calls = @ + 1] BY <2>1 DEF UtxoCall
    <2>3. upd'.kind = upd.kind /\ upd'.tips = upd.tips BY <2>2 DEF MemInv, MemTypes
    <2>4. last' = last /\ processedBlocks' = processedBlocks BY <2>1 DEF tables
    <2>5. TableTip' = TableTip BY <2>1, <2>3, <2>4 DEF TableTip, MemLastBlock
    <2>6. Seen(EmptyTx)' = Seen(EmptyTx) BY <2>1, SameStock
    <2> QED BY <2>1, <2>3, <2>4, <2>5, <2>6 DEF ContractInv
<1>6. ASSUME NEW b \in Blocks \ {Genesis}, NEW bals \in BalanceMaps, MemStoreBalances(b, bals)
      PROVE  ContractInv'
    <2>1. UNCHANGED tables /\ UNCHANGED before /\ StoreCall BY <1>6, StoreSeen
    <2>2. upd.kind = "connect" /\ ~upd.tips /\ upd'.kind = "connect"
        BY <2>1 DEF StoreCall, MemInv, MemTypes
    <2>3. last' = last /\ processedBlocks' = processedBlocks BY <2>1 DEF tables
    <2>4. TableTip' = TableTip BY <2>2, <2>3 DEF TableTip
    <2>5. Seen(EmptyTx)' = Seen(EmptyTx) BY <2>1, SameStock
    <2> QED BY <2>1, <2>2, <2>3, <2>4, <2>5 DEF ContractInv
<1>7. CASE UNCHANGED vars
    <2>1. /\ UNCHANGED tables /\ tx' = tx /\ upd' = upd /\ before' = before
          /\ last' = last /\ processedBlocks' = processedBlocks
        BY <1>7 DEF vars, tables
    <2>2. TableTip' = TableTip BY <2>1 DEF TableTip, MemLastBlock
    <2>3. Seen(EmptyTx)' = Seen(EmptyTx) BY <2>1, SameStock
    <2> QED BY <2>1, <2>2, <2>3 DEF ContractInv
<1> QED BY <1>1, <1>2, <1>3, <1>4, <1>5, <1>6, <1>7 DEF Next

\* The committed database and the copy an open Update works on.
Shown == IF upd.kind = "none" THEN Seen(EmptyTx) ELSE before
Working == IF upd.kind = "none" THEN EmptyDb ELSE Seen(tx)

\* Every step is a step of the contract.
LEMMA ContractSteps ==
    ASSUME ~ReAdds, ~LateAborts, MemInv, MemInv', UtxoInv, UtxoInv', ContractInv, ContractInv', [Next]_vars
    PROVE  [Promised!Next]_(Promised!vars)
<1>1. LastHeight(Seen(tx)) = TipSeen BY LastSeen
<1>2. CASE Begin
    <2>1. upd.kind = "none" /\ upd'.kind # "none" BY <1>2 DEF Begin, BeginCall, NoUpdate
    <2>2. before' = Seen(EmptyTx) /\ Seen(tx)' = Seen(EmptyTx) BY <1>2, ContractBegun DEF Begin
    <2>3. Shown = Seen(EmptyTx) /\ Shown' = before' /\ Working' = Seen(tx)'
        BY <2>1 DEF Shown, Working
    <2>4. Promised!Begin
        BY <1>2, <2>2, <2>3 DEF Begin, Promised!Begin, BeginCall, Promised!BeginCall, NoUpdate,
                Promised!NoUpdate, Shown, Working, EmptyDb, Promised!EmptyDb
    <2> QED BY <2>4 DEF Promised!Next
<1>3. CASE Commit
    <2>1. upd.kind # "none" /\ upd'.kind = "none" BY <1>3 DEF Commit, CommitCall, NoUpdate
    <2>2. Seen(EmptyTx)' = Seen(tx) BY <1>3, CommitSeen
    <2>3. Shown' = Seen(EmptyTx)' /\ Working = Seen(tx) /\ Working' = EmptyDb
        BY <2>1 DEF Shown, Working
    <2>4. Promised!Commit
        BY <1>3, <2>2, <2>3 DEF Commit, Promised!Commit, CommitCall, Promised!CommitCall, NoUpdate,
                Promised!NoUpdate, Shown, Working, EmptyDb, Promised!EmptyDb
    <2> QED BY <2>4 DEF Promised!Next
<1>4. CASE Abort
    <2>1. /\ upd.kind # "none" /\ upd'.kind = "none"
          /\ ~(upd.kind = "rollback" /\ upd.tips)
        BY <1>4 DEF Abort, AbortCall, NoUpdate
    <2>2. before = Seen(EmptyTx) BY <2>1 DEF ContractInv
    <2>3. Seen(EmptyTx)' = Seen(EmptyTx) BY <1>4, ContractBegun
    <2>4. Shown = before /\ Shown' = Seen(EmptyTx)' /\ Working' = EmptyDb
        BY <2>1 DEF Shown, Working
    <2>5. Promised!Abort
        BY <1>4, <2>2, <2>3, <2>4 DEF Abort, Promised!Abort, AbortCall, Promised!AbortCall, NoUpdate,
                Promised!NoUpdate, Shown, Working, EmptyDb, Promised!EmptyDb
    <2> QED BY <2>5 DEF Promised!Next
<1>5. CASE MemRollbackTip
    <2>1. /\ Seen(tx)' = RollbackTip(Seen(tx)) /\ CanRollbackTip(Seen(tx))
          /\ RollbackCall /\ before' = before
        BY <1>5, RollbackSeen DEF ContractInv
    <2>2. upd.kind # "none" /\ upd'.kind # "none" BY <2>1 DEF RollbackCall, MemInv, MemTypes
    <2>3. Shown' = Shown /\ Working = Seen(tx) /\ Working' = Seen(tx)'
        BY <2>1, <2>2 DEF Shown, Working
    <2>4. Promised!DropTip
        BY <2>1, <2>3 DEF Promised!DropTip, RollbackCall, Promised!RollbackCall, Shown, Working,
                RollbackTip, Promised!RollbackTip, CanRollbackTip, Promised!CanRollbackTip,
                LastHeight, Promised!LastHeight, EmptyDb, Promised!EmptyDb
    <2> QED BY <2>4 DEF Promised!Next
<1>6. ASSUME NEW c \in Coins, MemAddUtxo(c[1], c[2]) PROVE Promised!Next
    <2>0. c[1] \in Accounts /\ c[2] \in Outpoints /\ c = <<c[1], c[2]>>
        BY UpdatesAssumption DEF Coin
    <2>1. /\ Seen(tx)' = [Seen(tx) EXCEPT !.utxos = AddUtxo(@, c, Amount(c[2]))]
          /\ UtxoCall(TipSeen) /\ before' = before
        BY <1>6, <2>0, AddSeen, JournalSame
    <2>2. upd.kind # "none" /\ upd'.kind # "none" BY <2>1 DEF UtxoCall, MemInv, MemTypes
    <2>3. Shown' = Shown /\ Working = Seen(tx) /\ Working' = Seen(tx)'
        BY <2>1, <2>2 DEF Shown, Working
    <2>4. Promised!Add(c)
        BY <1>1, <2>1, <2>3 DEF Promised!Add, UtxoCall, Promised!UtxoCall, Shown, Working,
                AddUtxo, Promised!AddUtxo, LastHeight, Promised!LastHeight, EmptyDb, Promised!EmptyDb
    <2> QED BY <2>4 DEF Promised!Next
<1>7. ASSUME NEW c \in Coins, MemDelUtxo(c[1], c[2]) PROVE Promised!Next
    <2>0. c[1] \in Accounts /\ c[2] \in Outpoints /\ c = <<c[1], c[2]>>
        BY UpdatesAssumption DEF Coin
    <2>1. /\ Seen(tx)' = [Seen(tx) EXCEPT !.utxos = DelUtxo(@, c)]
          /\ UtxoCall(TipSeen) /\ before' = before
        BY <1>7, <2>0, DelSeen, JournalSame
    <2>2. upd.kind # "none" /\ upd'.kind # "none" BY <2>1 DEF UtxoCall, MemInv, MemTypes
    <2>3. Shown' = Shown /\ Working = Seen(tx) /\ Working' = Seen(tx)'
        BY <2>1, <2>2 DEF Shown, Working
    <2>4. Promised!Del(c)
        BY <1>1, <2>1, <2>3 DEF Promised!Del, UtxoCall, Promised!UtxoCall, Shown, Working,
                DelUtxo, Promised!DelUtxo, LastHeight, Promised!LastHeight, EmptyDb, Promised!EmptyDb
    <2> QED BY <2>4 DEF Promised!Next
<1>8. ASSUME NEW b \in Blocks \ {Genesis}, NEW bals \in BalanceMaps, MemStoreBalances(b, bals)
      PROVE  Promised!Next
    <2>1. /\ Seen(tx)' = StoreBalances(Seen(tx), b, bals)
          /\ Height[b] = TipSeen + 1 /\ StoreCall /\ before' = before
        BY <1>8, StoreSeen
    <2>2. upd.kind # "none" /\ upd'.kind # "none" BY <2>1 DEF StoreCall, MemInv, MemTypes
    <2>3. Shown' = Shown /\ Working = Seen(tx) /\ Working' = Seen(tx)'
        BY <2>1, <2>2 DEF Shown, Working
    <2>4. Promised!StoreBlock(b, bals)
        BY <1>1, <2>1, <2>3 DEF Promised!StoreBlock, StoreCall, Promised!StoreCall, Shown, Working,
                StoreBalances, Promised!StoreBalances, LastHeight, Promised!LastHeight,
                EmptyDb, Promised!EmptyDb
    <2> QED BY <2>4 DEF Promised!Next
<1>9. CASE UNCHANGED vars
    <2>1. /\ UNCHANGED tables /\ tx' = tx /\ upd' = upd /\ before' = before
          /\ balances' = balances /\ last' = last /\ processedBlocks' = processedBlocks
          /\ buckets' = buckets
        BY <1>9 DEF vars, tables
    <2>2. Seen(EmptyTx)' = Seen(EmptyTx) BY <2>1, SameStock
    <2>3. Seen(tx)' = Seen(tx)
        BY <2>1 DEF Seen, MemLastBlock, ProcessedBlockHash, MemListUtxos
    <2>4. Shown' = Shown /\ Working' = Working BY <2>1, <2>2, <2>3 DEF Shown, Working
    <2> QED BY <2>1, <2>4 DEF Promised!vars, Shown, Working, EmptyDb, Promised!EmptyDb
<1> QED BY <1>2, <1>3, <1>4, <1>5, <1>6, <1>7, <1>8, <1>9 DEF Next

\* The memory store implements the contract of backenddb.DB, as long as no Update
\* adds an output again that it deleted and none fails after RollbackTip: with
\* either, the code departs from it (MCMemDbReAdd.cfg, MCMemDbFail.cfg).
THEOREM MemContractTheorem == ~ReAdds /\ ~LateAborts => (Spec => MemKeepsContract)
<1> SUFFICES ASSUME ~ReAdds, ~LateAborts PROVE Spec => MemKeepsContract OBVIOUS
<1>1. Init => Promised!Init
    <2> SUFFICES ASSUME Init PROVE Promised!Init OBVIOUS
    <2>1. Seen(EmptyTx) = EmptyDb /\ upd = NoUpdate BY UtxoInit, SeenNew DEF Init
    <2> QED BY <2>1 DEF Promised!Init, Promised!EmptyDb, EmptyDb, Promised!NoUpdate, NoUpdate
<1>2. UtxoInv /\ MemInv /\ [Next]_vars => UtxoInv' BY UtxoNext
<1>3. /\ MemInv /\ MemInv' /\ UtxoInv /\ UtxoInv' /\ ContractInv /\ [Next]_vars => ContractInv'
    BY ContractNext
<1>4. /\ MemInv /\ MemInv' /\ UtxoInv /\ UtxoInv' /\ ContractInv /\ ContractInv' /\ [Next]_vars
      => [Promised!Next]_(Promised!vars)
    BY ContractSteps
<1>5. Init => MemInv /\ UtxoInv /\ ContractInv BY MemInit, UtxoInit, ContractInit
<1>6. MemInv /\ [Next]_vars => MemInv' BY MemNext
<1> QED BY <1>1, <1>2, <1>3, <1>4, <1>5, <1>6, PTL DEF Spec, MemKeepsContract, Promised!Spec

=============================================================================
