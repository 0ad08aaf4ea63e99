---------------------------- MODULE LedgerProofs -----------------------------
(***************************************************************************)
(* That the database records the ledger of the processed chain, for every  *)
(* chain that obeys consensus, and what the account endpoints answer.      *)
(***************************************************************************)
EXTENDS SyncProofs, AccountApi, FiniteSetTheorems

-----------------------------------------------------------------------------
(* Connecting and rolling back, one coin at a time.                        *)

\* Two sets of unspent outputs agree on a coin.
SameAt(u, v, c) ==
    (c \in DOMAIN u <=> c \in DOMAIN v) /\ (c \in DOMAIN u => u[c] = v[c])

\* From step m on, no step of a loop changes the coin.
LEMMA SettledFrom ==
    ASSUME NEW n \in Nat, NEW f, NEW m \in 0..n, NEW c,
           \A k \in 1..n : k > m => SameAt(f[k], f[k - 1], c)
    PROVE  SameAt(f[n], f[m], c)
<1> DEFINE G == {k \in 0..n : k >= m => SameAt(f[k], f[m], c)}
<1>1. 0 \in G
    <2>1. m = 0 => SameAt(f[0], f[m], c) BY DEF SameAt
    <2> QED BY <2>1
<1>2. ASSUME NEW k \in 1..n, k - 1 \in G PROVE k \in G
    <2>1. CASE k > m
        <3>1. SameAt(f[k - 1], f[m], c) BY <1>2, <2>1
        <3>2. SameAt(f[k], f[k - 1], c) BY <2>1
        <3>3. SameAt(f[k], f[m], c) BY <3>1, <3>2 DEF SameAt
        <3> QED BY <3>3
    <2>2. CASE k = m
        <3>1. SameAt(f[k], f[m], c) BY <2>2 DEF SameAt
        <3> QED BY <3>1
    <2>3. CASE k < m BY <2>3
    <2> QED BY <2>1, <2>2, <2>3
<1>3. n \in G
    <2> HIDE DEF G
    <2>1. 0..n \subseteq G BY <1>1, <1>2, FiniteInduction
    <2> QED BY <2>1
<1> QED BY <1>3

\* What one operation does to a coin.
LEMMA ApplyOpAt ==
    ASSUME NEW u, NEW op, NEW c
    PROVE  /\ CoinOf(op) # c => SameAt(ApplyOp(u, op), u, c) /\ SameAt(UnapplyOp(u, op), u, c)
           /\ CoinOf(op) = c /\ Creates(op) =>
                /\ c \in DOMAIN ApplyOp(u, op) /\ ApplyOp(u, op)[c] = op.amt
                /\ c \notin DOMAIN UnapplyOp(u, op)
           /\ CoinOf(op) = c /\ ~Creates(op) =>
                /\ c \notin DOMAIN ApplyOp(u, op)
                /\ c \in DOMAIN UnapplyOp(u, op) /\ UnapplyOp(u, op)[c] = -op.amt
<1> HIDE DEF Creates
<1> QED BY DEF CoinOf, SameAt, ApplyOp, UnapplyOp, AddUtxo, DelUtxo

\* An operation of the block touches the coin, and no other does.
OnlyAt(ops, i, c) ==
    i \in DOMAIN ops /\ CoinOf(ops[i]) = c /\ \A j \in DOMAIN ops : CoinOf(ops[j]) = c => j = i

UntouchedBy(ops, c) == \A i \in DOMAIN ops : CoinOf(ops[i]) # c

\* A coin no operation touches is left alone, in both directions.
LEMMA UntouchedCoin ==
    ASSUME NEW ops \in Seq(Op), NEW u \in Utxos, NEW c, UntouchedBy(ops, c)
    PROVE  SameAt(UtxosConnected(u, ops), u, c) /\ SameAt(UtxosRolledBack(u, ops), u, c)
<1> DEFINE n == Len(ops)
<1>1. n \in Nat /\ DOMAIN ops = 1..n /\ 0 \in 0..n OBVIOUS
<1>2. PICK f \in [0..n -> Utxos] :
          /\ f[0] = u /\ \A i \in 1..n : f[i] = ApplyOp(f[i - 1], ops[i])
          /\ UtxosConnected(u, ops) = f[n]
    BY UtxosConnectedFold
<1>3. PICK g \in [0..n -> Utxos] :
          /\ g[0] = u /\ \A i \in 1..n : g[i] = UnapplyOp(g[i - 1], ops[i])
          /\ UtxosRolledBack(u, ops) = g[n]
    BY UtxosRolledBackFold
<1> HIDE DEF n
<1>4. \A k \in 1..n : CoinOf(ops[k]) # c BY <1>1 DEF UntouchedBy
<1>5. \A k \in 1..n : SameAt(f[k], f[k - 1], c) BY <1>2, <1>4, ApplyOpAt
<1>6. \A k \in 1..n : SameAt(g[k], g[k - 1], c) BY <1>3, <1>4, ApplyOpAt
<1>7. SameAt(f[n], f[0], c) BY <1>1, <1>5, SettledFrom
<1>8. SameAt(g[n], g[0], c) BY <1>1, <1>6, SettledFrom
<1> QED BY <1>2, <1>3, <1>7, <1>8

\* A coin one operation touches ends up as that operation leaves it.
LEMMA TouchedCoin ==
    ASSUME NEW ops \in Seq(Op), NEW u \in Utxos, NEW c, NEW i, OnlyAt(ops, i, c)
    PROVE  IF Creates(ops[i])
           THEN /\ c \in DOMAIN UtxosConnected(u, ops) /\ UtxosConnected(u, ops)[c] = ops[i].amt
                /\ c \notin DOMAIN UtxosRolledBack(u, ops)
           ELSE /\ c \notin DOMAIN UtxosConnected(u, ops)
                /\ c \in DOMAIN UtxosRolledBack(u, ops) /\ UtxosRolledBack(u, ops)[c] = -ops[i].amt
<1> DEFINE n == Len(ops)
<1>1. n \in Nat /\ DOMAIN ops = 1..n OBVIOUS
<1>2. PICK f \in [0..n -> Utxos] :
          /\ f[0] = u /\ \A k \in 1..n : f[k] = ApplyOp(f[k - 1], ops[k])
          /\ UtxosConnected(u, ops) = f[n]
    BY UtxosConnectedFold
<1>3. PICK g \in [0..n -> Utxos] :
          /\ g[0] = u /\ \A k \in 1..n : g[k] = UnapplyOp(g[k - 1], ops[k])
          /\ UtxosRolledBack(u, ops) = g[n]
    BY UtxosRolledBackFold
<1> HIDE DEF n
<1>4. i \in 1..n /\ i \in 0..n /\ CoinOf(ops[i]) = c /\ \A k \in 1..n : k > i => CoinOf(ops[k]) # c
    BY <1>1 DEF OnlyAt
<1>5. \A k \in 1..n : k > i => SameAt(f[k], f[k - 1], c) BY <1>2, <1>4, ApplyOpAt
<1>6. \A k \in 1..n : k > i => SameAt(g[k], g[k - 1], c) BY <1>3, <1>4, ApplyOpAt
<1>7. SameAt(f[n], f[i], c) BY <1>1, <1>4, <1>5, SettledFrom
<1>8. SameAt(g[n], g[i], c) BY <1>1, <1>4, <1>6, SettledFrom
<1>9. f[i] = ApplyOp(f[i - 1], ops[i]) /\ g[i] = UnapplyOp(g[i - 1], ops[i]) BY <1>2, <1>3, <1>4
<1> DEFINE op == ops[i]
           x == f[i - 1]
           y == g[i - 1]
<1> HIDE DEF op, x, y
<1>10. f[i] = ApplyOp(x, op) /\ g[i] = UnapplyOp(y, op) /\ CoinOf(op) = c BY <1>4, <1>9 DEF op, x, y
<1>11. CASE Creates(op)
    <2>1. c \in DOMAIN f[i] /\ f[i][c] = op.amt /\ c \notin DOMAIN g[i] BY <1>10, <1>11, ApplyOpAt
    <2> QED BY <1>2, <1>3, <1>7, <1>8, <1>11, <2>1 DEF SameAt, op
<1>12. CASE ~Creates(op)
    <2>1. c \notin DOMAIN f[i] /\ c \in DOMAIN g[i] /\ g[i][c] = -op.amt BY <1>10, <1>12, ApplyOpAt
    <2> QED BY <1>2, <1>3, <1>7, <1>8, <1>12, <2>1 DEF SameAt, op
<1> QED BY <1>11, <1>12

-----------------------------------------------------------------------------
(* From one block to the whole run.                                        *)

\* A block changes a coin of the ledger at most once, the way its operations do.
CoinStep(b, c) ==
    LET ops == Ops(b, Parent[b])
        u == UnspentAt[Parent[b]]
        v == UnspentAt[b]
    IN  \/ UntouchedBy(ops, c) /\ SameAt(u, v, c)
        \/ \E i : /\ OnlyAt(ops, i, c)
                  /\ IF Creates(ops[i])
                     THEN c \notin DOMAIN u /\ c \in DOMAIN v /\ v[c] = ops[i].amt
                     ELSE c \in DOMAIN u /\ c \notin DOMAIN v /\ u[c] = -ops[i].amt

\* The coin is recorded as the ledger of the last processed block has it.
Agrees(d, c) == SameAt(d.utxos, UnspentAt[LastProcessedBlock(d)], c)

\* Connecting the block changes the coin as it changes the ledger.
LEMMA ConnectedCoin ==
    ASSUME NEW b \in Blocks \ {Genesis}, NEW w \in Utxos, NEW c, CoinStep(b, c),
           SameAt(w, UnspentAt[Parent[b]], c)
    PROVE  SameAt(UtxosConnected(w, Ops(b, Parent[b])), UnspentAt[b], c)
<1> DEFINE ops == Ops(b, Parent[b])
           u == UnspentAt[Parent[b]]
           v == UnspentAt[b]
           r == UtxosConnected(w, ops)
<1>1. ops \in Seq(Op) BY SyncAssumption, BlockTreeAssumption
<1>2. \/ UntouchedBy(ops, c) /\ SameAt(u, v, c)
      \/ \E i : /\ OnlyAt(ops, i, c)
                /\ IF Creates(ops[i])
                   THEN c \notin DOMAIN u /\ c \in DOMAIN v /\ v[c] = ops[i].amt
                   ELSE c \in DOMAIN u /\ c \notin DOMAIN v /\ u[c] = -ops[i].amt
    BY DEF CoinStep
<1> HIDE DEF u, v, ops
<1>3. CASE UntouchedBy(ops, c) /\ SameAt(u, v, c)
    <2>1. SameAt(r, w, c) BY <1>1, <1>3, UntouchedCoin
    <2> QED BY <1>3, <2>1 DEF SameAt, u, v, ops
<1>4. ASSUME NEW i, OnlyAt(ops, i, c),
             IF Creates(ops[i]) THEN c \in DOMAIN v /\ v[c] = ops[i].amt ELSE c \notin DOMAIN v
      PROVE  SameAt(r, v, c)
    <2>1. IF Creates(ops[i]) THEN c \in DOMAIN r /\ r[c] = ops[i].amt ELSE c \notin DOMAIN r
        BY <1>1, <1>4, TouchedCoin
    <2> HIDE DEF r
    <2> QED BY <1>4, <2>1 DEF SameAt
<1> HIDE DEF r
<1> QED BY <1>2, <1>3, <1>4 DEF r, v, ops

\* Connecting a block moves the coin as the chain does.
LEMMA ConnectAgrees ==
    ASSUME NEW d \in DbRecord, NEW b \in Blocks \ {Genesis}, NEW prev, NEW c,
           Linked(d), ExtendsTip(d, b), Ops(b, prev) \in Seq(Op),
           Ops(b, prev) = Ops(b, Parent[b]), CoinStep(b, c), Agrees(d, c)
    PROVE  Agrees(ConnectBlock(d, b, prev), c)
<1> DEFINE e == ConnectBlock(d, b, prev)
<1>1. LastProcessedBlock(e) = b BY ConnectBlockLemma
<1>2. d.utxos \in Utxos /\ LastProcessedBlock(d) = Parent[b] BY DEF DbRecord, ExtendsTip
<1>3. e.utxos = UtxosConnected(d.utxos, Ops(b, Parent[b]))
    BY DEF ConnectBlock, StoreBalances, DbRecord
<1>4. SameAt(d.utxos, UnspentAt[Parent[b]], c) BY <1>2 DEF Agrees
<1>5. SameAt(e.utxos, UnspentAt[b], c) BY <1>2, <1>3, <1>4, ConnectedCoin
<1> QED BY <1>1, <1>5 DEF Agrees

\* Undoing the tip moves the coin back.
LEMMA UndoAgrees ==
    ASSUME NEW d \in DbRecord, NEW c, Linked(d), CanRollbackTip(d), Agrees(d, c),
           \A b \in Blocks \ {Genesis} : CoinStep(b, c)
    PROVE  Agrees(UndoTip(d), c)
<1> DEFINE b == LastProcessedBlock(d)
           e == UndoTip(d)
           ops == Ops(b, Parent[b])
           u == UnspentAt[Parent[b]]
           v == UnspentAt[b]
           w == d.utxos
           r == UtxosRolledBack(w, ops)
<1>1. b \in Blocks \ {Genesis}
    BY LastProcessedType DEF CanRollbackTip, LastHeight, DbRecord
<1>2. LastProcessedBlock(e) = Parent[b] BY UndoTipLemma
<1>3. e.utxos = r BY DEF UndoTip, RollbackTip, DbRecord
<1>4. w \in Utxos /\ ops \in Seq(Op) /\ SameAt(w, v, c)
    BY <1>1, SyncAssumption DEF DbRecord, Agrees
<1>5. CoinStep(b, c) BY <1>1
<1>6. \/ UntouchedBy(ops, c) /\ SameAt(u, v, c)
      \/ \E i : /\ OnlyAt(ops, i, c)
                /\ IF Creates(ops[i])
                   THEN c \notin DOMAIN u /\ c \in DOMAIN v /\ v[c] = ops[i].amt
                   ELSE c \in DOMAIN u /\ c \notin DOMAIN v /\ u[c] = -ops[i].amt
    BY <1>5 DEF CoinStep
<1>7. SameAt(r, u, c) => Agrees(e, c) BY <1>2, <1>3 DEF Agrees
<1> HIDE DEF b, e, ops, u, v, w
<1>8. CASE UntouchedBy(ops, c) /\ SameAt(u, v, c)
    <2>1. SameAt(r, w, c) BY <1>4, <1>8, UntouchedCoin
    <2>2. SameAt(r, u, c) BY <1>4, <1>8, <2>1 DEF SameAt
    <2> QED BY <1>7, <2>2 DEF e
<1>9. ASSUME NEW i, OnlyAt(ops, i, c),
             IF Creates(ops[i]) THEN c \notin DOMAIN u ELSE c \in DOMAIN u /\ u[c] = -ops[i].amt
      PROVE  SameAt(r, u, c)
    <2>1. IF Creates(ops[i]) THEN c \notin DOMAIN r ELSE c \in DOMAIN r /\ r[c] = -ops[i].amt
        BY <1>4, <1>9, TouchedCoin
    <2> HIDE DEF r
    <2> QED BY <1>9, <2>1 DEF SameAt
<1> HIDE DEF r
<1> QED BY <1>6, <1>7, <1>8, <1>9 DEF e

-----------------------------------------------------------------------------
(* The transactions in force.                                              *)

\* The transactions in force: stake trees, and regular trees that were approved.
LEMMA AppliedMember ==
    ASSUME NEW b, NEW t
    PROVE  t \in AppliedTxs(b) <=>
              \/ \E c \in Ancestors[b] : t \in Range(Stake[c])
              \/ \E c \in InForce(b) : t \in Range(Regular[c])
<1>1. t \in StakeTxs(b) <=> \E c \in Ancestors[b] : t \in Range(Stake[c])
    BY Zenon DEF StakeTxs
<1>2. t \in RegularTxs(b) <=> \E c \in InForce(b) : t \in Range(Regular[c])
    BY Zenon DEF RegularTxs
<1> QED BY <1>1, <1>2 DEF AppliedTxs

\* Which blocks are in force above a parent.
LEMMA InForceStep ==
    ASSUME NEW b \in Blocks \ {Genesis}
    PROVE  /\ b \in InForce(b)
           /\ \A c : (c \in InForce(b)) <=>
                c = b \/ (c \in InForce(Parent[b]) /\ ~(c = Parent[b] /\ ~Approves[b]))
<1> DEFINE p == Parent[b]
           A == Ancestors[p]
<1>1. p \in Blocks /\ Height[b] = Height[p] + 1 /\ Height[p] \in Nat
    BY BlockTreeAssumption
<1>2. Ancestors[b] = {b} \cup A BY AncestorsDef
<1>3. \A c \in A : c \in Blocks /\ Height[c] <= Height[p] BY <1>1, AncestorsBelow
<1>4. b \notin A
    <2> SUFFICES ASSUME b \in A PROVE FALSE OBVIOUS
    <2>1. Height[b] <= Height[p] BY <1>3
    <2> QED BY <1>1, <2>1
<1>5. ASSUME NEW d \in Ancestors[b] \ {Genesis}, Parent[d] = b PROVE FALSE
    <2>1. d \in Blocks /\ Height[d] <= Height[b] BY AncestorsBelow
    <2>2. Height[d] = Height[b] + 1 BY <1>5, <2>1, BlockTreeAssumption
    <2>3. Height[b] \in Nat BY BlockTreeAssumption
    <2> QED BY <2>1, <2>2, <2>3
<1>6. b \in InForce(b) BY <1>2, <1>5 DEF InForce
<1>7. ASSUME NEW c, c # b
      PROVE  (c \in InForce(b)) <=> (c \in InForce(p)) /\ ~(c = p /\ ~Approves[b])
    <2>1. c \in Ancestors[b] <=> c \in A BY <1>2, <1>7
    <2>2. (\E d \in Ancestors[b] \ {Genesis} : Parent[d] = c /\ ~Approves[d])
          <=> \/ \E d \in A \ {Genesis} : Parent[d] = c /\ ~Approves[d]
              \/ c = p /\ ~Approves[b]
        BY <1>2
    <2> QED BY <2>1, <2>2 DEF InForce
<1> QED BY <1>6, <1>7

\* Regular and stake transactions are told apart by their type.
LEMMA TreesDiffer ==
    ASSUME NEW b \in Blocks
    PROVE  /\ Range(Regular[b]) \subseteq Tx /\ Range(Stake[b]) \subseteq Tx
           /\ \A t \in Range(Regular[b]) : TxType[t] = "regular"
           /\ \A t \in Range(Stake[b]) : TxType[t] # "regular"
<1>1. CASE b = Genesis
    <2>1. Range(Regular[b]) = {} /\ Range(Stake[b]) = {}
        BY <1>1, ConsensusAssumption DEF Range
    <2> QED BY <2>1
<1>2. CASE b # Genesis
    <2>1. WellPlaced(b) BY <1>2, ConsensusAssumption
    <2> QED BY <2>1 DEF WellPlaced, Range
<1> QED BY <1>1, <1>2

\* A regular transaction is in force in one block of the chain only: it may be
\* mined again, but not while it is in force.
MinedOnce(b) ==
    \A c, e \in Blocks : c \in InForce(b) /\ e \in InForce(b)
        /\ Range(Regular[c]) \cap Range(Regular[e]) # {} => c = e

\* No transaction is mined twice on a branch.
LEMMA AlwaysMinedOnce == \A b \in Blocks : MinedOnce(b)
<1> DEFINE G == {b \in Blocks : MinedOnce(b)}
<1>1. Genesis \in G
    <2>1. Genesis \in Blocks BY BlockTreeAssumption
    <2>2. Ancestors[Genesis] = {Genesis} BY <2>1, AncestorsDef
    <2>3. MinedOnce(Genesis) BY <2>2 DEF MinedOnce, InForce
    <2> QED BY <2>1, <2>3
<1>2. ASSUME NEW b \in Blocks \ {Genesis}, Parent[b] \in G PROVE b \in G
    <2> DEFINE p == Parent[b]
    <2>1. p \in Blocks /\ MinedOnce(p) BY <1>2
    <2>2. ASSUME NEW c \in Blocks, c \in InForce(b), c # b, NEW t \in Range(Regular[c]),
                 t \in Range(Regular[b])
          PROVE  FALSE
        <3>1. c \in InForce(p) /\ ~(c = p /\ ~Approves[b]) BY <2>2, InForceStep
        <3>2. t \in AppliedTxs(p) BY <2>2, <3>1, AppliedMember
        <3>3. t \in Mined(b) BY <2>2 DEF Mined
        <3>4. Mined(b) \cap Below(b) = {} BY ConsensusAssumption
        <3>5. t \in Reversed(b) BY <3>2, <3>3, <3>4 DEF Below
        <3>6. ~Approves[b] /\ t \in Range(Regular[p]) BY <3>5 DEF Reversed
        <3>7. p # Genesis BY <3>6, BlockTreeAssumption
        <3>8. p \in InForce(p) BY <2>1, <3>7, InForceStep
        <3>9. c = p BY <2>1, <2>2, <3>1, <3>6, <3>8 DEF MinedOnce
        <3> QED BY <3>1, <3>6, <3>9
    <2>3. ASSUME NEW c \in Blocks, NEW e \in Blocks, c \in InForce(b), e \in InForce(b),
                 NEW t \in Range(Regular[c]), t \in Range(Regular[e])
          PROVE  c = e
        <3>1. CASE c = b \/ e = b BY <2>2, <2>3, <3>1
        <3>2. CASE c # b /\ e # b
            <4>1. c \in InForce(p) /\ e \in InForce(p) BY <2>3, <3>2, InForceStep
            <4> QED BY <2>1, <2>3, <4>1 DEF MinedOnce
        <3> QED BY <3>1, <3>2
    <2>4. MinedOnce(b) BY <2>3 DEF MinedOnce
    <2> QED BY <2>4
<1>3. Blocks \subseteq G
    <2> HIDE DEF G
    <2> QED BY <1>1, <1>2, BlockInduction
<1> QED BY <1>3

\* A block reverses what it disapproves and adds what it mines.
LEMMA AppliedStep ==
    ASSUME NEW b \in Blocks \ {Genesis}
    PROVE  AppliedTxs(b) = Below(b) \cup Mined(b)
<1> DEFINE p == Parent[b]
<1>1. p \in Blocks BY BlockTreeAssumption
<1>2. Ancestors[b] = {b} \cup Ancestors[p] BY AncestorsDef
<1>3. \A c \in Ancestors[p] : c \in Blocks BY <1>1, AncestorsBelow
<1>4. ~Approves[b] => p \in InForce(p)
    <2>1. ~Approves[b] => p # Genesis BY BlockTreeAssumption
    <2> QED BY <1>1, <2>1, InForceStep
<1>5. ASSUME NEW t \in AppliedTxs(b), t \notin Mined(b) PROVE t \in Below(b)
    <2>1. CASE \E c \in Ancestors[b] : t \in Range(Stake[c])
        <3>1. PICK c \in Ancestors[p] : t \in Range(Stake[c]) BY <1>2, <1>5, <2>1 DEF Mined
        <3>2. t \in AppliedTxs(p) BY <3>1, AppliedMember
        <3>3. t \notin Range(Regular[p]) BY <1>1, <1>3, <3>1, TreesDiffer
        <3> QED BY <3>2, <3>3 DEF Below, Reversed
    <2>2. CASE \E c \in InForce(b) : t \in Range(Regular[c])
        <3>1. PICK c \in InForce(b) : t \in Range(Regular[c]) BY <2>2
        <3>2. c # b BY <1>5, <3>1 DEF Mined
        <3>3. c \in InForce(p) /\ ~(c = p /\ ~Approves[b]) BY <3>1, <3>2, InForceStep
        <3>4. t \in AppliedTxs(p) BY <3>1, <3>3, AppliedMember
        <3>5. ASSUME ~Approves[b], t \in Range(Regular[p]) PROVE FALSE
            <4>1. c \in Blocks BY <1>3, <3>3 DEF InForce
            <4>2. MinedOnce(p) BY <1>1, AlwaysMinedOnce
            <4>3. c = p BY <1>1, <1>4, <3>1, <3>3, <3>5, <4>1, <4>2 DEF MinedOnce
            <4> QED BY <3>3, <3>5, <4>3
        <3> QED BY <3>4, <3>5 DEF Below, Reversed
    <2> QED BY <1>5, <2>1, <2>2, AppliedMember
<1>6. ASSUME NEW t \in Mined(b) PROVE t \in AppliedTxs(b)
    <2>1. b \in InForce(b) /\ b \in Ancestors[b] BY <1>2, InForceStep
    <2> QED BY <1>6, <2>1, AppliedMember DEF Mined
<1>7. ASSUME NEW t \in Below(b) PROVE t \in AppliedTxs(b)
    <2>1. t \in AppliedTxs(p) /\ t \notin Reversed(b) BY <1>7 DEF Below
    <2>2. CASE \E c \in Ancestors[p] : t \in Range(Stake[c])
        BY <1>2, <2>2, AppliedMember
    <2>3. CASE \E c \in InForce(p) : t \in Range(Regular[c])
        <3>1. PICK c \in InForce(p) : t \in Range(Regular[c]) BY <2>3
        <3>2. ~(c = p /\ ~Approves[b]) BY <2>1, <3>1 DEF Reversed
        <3>3. c \in InForce(b) BY <3>1, <3>2, InForceStep
        <3> QED BY <3>1, <3>3, AppliedMember
    <2> QED BY <2>1, <2>2, <2>3, AppliedMember
<1> QED BY <1>5, <1>6, <1>7

\* A parent's transactions are those left below its child and those reversed.
LEMMA AppliedParent ==
    ASSUME NEW b \in Blocks \ {Genesis}
    PROVE  AppliedTxs(Parent[b]) = Below(b) \cup Reversed(b)
<1> DEFINE p == Parent[b]
<1>1. Reversed(b) \subseteq AppliedTxs(p)
    <2>1. CASE Approves[b] BY <2>1 DEF Reversed
    <2>2. CASE ~Approves[b]
        <3>1. p \in Blocks \ {Genesis} BY <2>2, BlockTreeAssumption
        <3>2. p \in InForce(p) BY <3>1, InForceStep
        <3> QED BY <2>2, <3>2, AppliedMember DEF Reversed
    <2> QED BY <2>1, <2>2
<1> QED BY <1>1 DEF Below

\* Nothing is applied at genesis.
LEMMA AppliedGenesis == AppliedTxs(Genesis) = {}
<1>1. Genesis \in Blocks BY BlockTreeAssumption
<1>2. Ancestors[Genesis] = {Genesis} BY <1>1, AncestorsDef
<1>3. Range(Regular[Genesis]) = {} /\ Range(Stake[Genesis]) = {}
    BY ConsensusAssumption DEF Range
<1>4. \A t : t \notin AppliedTxs(Genesis) BY <1>2, <1>3, AppliedMember DEF InForce
<1> QED BY <1>4

-----------------------------------------------------------------------------
(* The operations of a transaction.                                        *)

\* The transaction is at index idx of a tree of b.
Placed(b, tree, tx, idx) ==
    \/ tree = "regular" /\ idx \in DOMAIN Regular[b] /\ tx = Regular[b][idx]
    \/ tree = "stake" /\ idx \in DOMAIN Stake[b] /\ tx = Stake[b][idx]

\* What the code looks at in a transaction of a block: an input is skipped, is
\* that of a treasury spend, or spends an output whose account is known.
InputFacts(tree, tx, idx) ==
    \A i \in DOMAIN TxIns[tx] : LET o == TxIns[tx][i].outp IN
        /\ o[1] \notin Tx <=> SkipsInput(tree, tx, idx, i) \/ TxType[tx] = "tspend"
        /\ TxType[tx] = "tspend" => ~SkipsInput(tree, tx, idx, i)
        /\ o[1] \in Tx => o[2] \in DOMAIN TxOuts[o[1]] /\ OutAccount(o[1], o[2]) = PrevOutput(o).acct

\* What the place of a transaction in a block says about its type.
LEMMA PlacedFacts ==
    ASSUME NEW b \in Blocks \ {Genesis}, NEW tree, NEW tx, NEW idx, Placed(b, tree, tx, idx)
    PROVE  /\ tx \in Tx /\ tx \in Mined(b)
           /\ InputFacts(tree, tx, idx)
           /\ IsStakeType(tree, tx, "tspend") <=> TxType[tx] = "tspend"
           /\ IsTBase(tree, tx, idx) \/ IsStakeType(tree, tx, "tadd")
              <=> TxType[tx] \in {"tadd", "treasurybase"}
           /\ TxType[tx] = "tspend" => Len(TxIns[tx]) = 1
<1>1. WellPlaced(b) /\ Consistent(AppliedTxs(b)) BY ConsensusAssumption
<1>2. tx \in Tx /\ tx \in Mined(b)
    BY <1>1 DEF WellPlaced, Placed, Mined, Range
<1>3. tx \in AppliedTxs(b) BY <1>2, AppliedStep
<1>4. \A i \in DOMAIN TxIns[tx] : TxIns[tx][i].outp[1] \in Tx =>
          /\ TxIns[tx][i].outp[2] \in DOMAIN TxOuts[TxIns[tx][i].outp[1]]
          /\ OutAccount(TxIns[tx][i].outp[1], TxIns[tx][i].outp[2]) = PrevOutput(TxIns[tx][i].outp).acct
    BY <1>1, <1>3 DEF Consistent
<1>5. CASE tree = "regular" /\ idx \in DOMAIN Regular[b] /\ tx = Regular[b][idx]
    <2>1. /\ TxType[tx] = "regular" /\ tree = "regular"
          /\ \A i \in DOMAIN TxIns[tx] : TxIns[tx][i].outp[1] \notin Tx <=> idx = 1 /\ i = 1
        BY <1>1, <1>5 DEF WellPlaced
    <2>2. \A i : SkipsInput(tree, tx, idx, i) <=> idx = 1 /\ i = 1
        BY <2>1 DEF SkipsInput, IsCoinbase, IsTBase
    <2>3. InputFacts(tree, tx, idx) BY <1>4, <2>1, <2>2 DEF InputFacts
    <2> QED BY <1>2, <2>1, <2>3 DEF IsStakeType, IsTBase
<1>6. CASE tree = "stake" /\ idx \in DOMAIN Stake[b] /\ tx = Stake[b][idx]
    <2>1. /\ TxType[tx] # "regular" /\ tree = "stake" /\ (TxType[tx] = "treasurybase" => idx = 1)
          /\ TxType[tx] = "tspend" => Len(TxIns[tx]) = 1
          /\ \A i \in DOMAIN TxIns[tx] : TxIns[tx][i].outp[1] \notin Tx
                <=> i = 1 /\ TxType[tx] \in {"vote", "treasurybase", "tspend"}
        BY <1>1, <1>6 DEF WellPlaced
    <2>2. \A i : SkipsInput(tree, tx, idx, i) <=> i = 1 /\ TxType[tx] \in {"vote", "treasurybase"}
        BY <2>1 DEF SkipsInput, IsCoinbase, IsTBase
    <2>3. TxType[tx] = "tspend" => \A i \in DOMAIN TxIns[tx] : i = 1
        <3>1. TxIns[tx] \in Seq(Range(TxIns[tx])) BY <1>2, ConsensusAssumption
        <3> QED BY <2>1, <3>1
    <2>4. InputFacts(tree, tx, idx) BY <1>4, <2>1, <2>2, <2>3 DEF InputFacts
    <2> QED BY <1>2, <2>1, <2>4 DEF IsStakeType, IsTBase
<1> QED BY <1>5, <1>6 DEF Placed

\* The debit of an input and the credit of an output, for a transaction of a
\* block.
LEMMA DebitIs ==
    ASSUME NEW b \in Blocks \ {Genesis}, NEW tree, NEW tx, NEW idx, Placed(b, tree, tx, idx),
           NEW st \in {"success", "reversed"}, NEW i \in DOMAIN TxIns[tx],
           ~SkipsInput(tree, tx, idx, i)
    PROVE  LET o == TxIns[tx][i].outp
               d == Debit(tree, st, tx, i)
           IN  /\ d \in Op /\ d.typ = "debit" /\ d.st = st /\ d.outp = o
               /\ TxType[tx] = "tspend" =>
                    /\ o[1] \notin Tx /\ d.acct = Treasury
                    /\ d.amt = Signed(st, -TxIns[tx][i].valueIn)
               /\ TxType[tx] # "tspend" =>
                    /\ o[1] \in Tx /\ o[2] \in DOMAIN TxOuts[o[1]]
                    /\ d.acct = OutAccount(o[1], o[2])
                    /\ d.amt = Signed(st, -PrevOutput(o).value)
<1> DEFINE o == TxIns[tx][i].outp
           d == Debit(tree, st, tx, i)
           v == TxIns[tx][i].valueIn
<1>1. tx \in Tx /\ InputFacts(tree, tx, idx) /\ (IsStakeType(tree, tx, "tspend") <=> TxType[tx] = "tspend")
    BY PlacedFacts
<1>2. /\ o[1] \notin Tx <=> TxType[tx] = "tspend"
      /\ o[1] \in Tx => o[2] \in DOMAIN TxOuts[o[1]] /\ OutAccount(o[1], o[2]) = PrevOutput(o).acct
    BY <1>1 DEF InputFacts
<1>3. /\ o \in Outpoints /\ Treasury \in Accounts /\ v \in Int
      /\ o[1] \in Tx => PrevOutput(o).acct \in Accounts /\ PrevOutput(o).value \in Int
    BY <1>1, <1>2, LedgerAssumption, ConsensusAssumption DEF PrevOutput
<1>4. d = [typ |-> "debit", st |-> st,
           acct |-> IF TxType[tx] = "tspend" THEN Treasury ELSE PrevOutput(o).acct,
           outp |-> o,
           amt |-> Signed(st, IF TxType[tx] = "tspend" THEN -v ELSE -PrevOutput(o).value)]
    BY <1>1 DEF Debit
<1> HIDE DEF o, d, v
<1>5. \A x \in Int : Signed(st, x) \in Int BY DEF Signed
<1>6. d.acct \in Accounts /\ d.amt \in Int BY <1>2, <1>3, <1>4, <1>5
<1>7. d \in Op BY <1>3, <1>4, <1>6 DEF Op
<1> QED BY <1>2, <1>4, <1>7 DEF o, d, v

\* The operation an output gives.
LEMMA CreditIs ==
    ASSUME NEW b \in Blocks \ {Genesis}, NEW tree, NEW tx, NEW idx, Placed(b, tree, tx, idx),
           NEW st \in {"success", "reversed"}, NEW i \in DOMAIN TxOuts[tx]
    PROVE  LET d == Credit(tree, st, tx, idx, i)
           IN  /\ d \in Op /\ d.typ = "credit" /\ d.st = st /\ d.outp = <<tx, i>>
               /\ d.acct = OutAccount(tx, i) /\ d.amt = Signed(st, TxOuts[tx][i].value)
<1> DEFINE d == Credit(tree, st, tx, idx, i)
           v == TxOuts[tx][i].value
<1>1. tx \in Tx /\ (IsTBase(tree, tx, idx) \/ IsStakeType(tree, tx, "tadd")
                   <=> TxType[tx] \in {"tadd", "treasurybase"})
    BY PlacedFacts
<1>2. /\ <<tx, i>> \in Outpoints /\ Treasury \in Accounts /\ v \in Int
      /\ TxOuts[tx][i].acct \in Accounts
    BY <1>1, LedgerAssumption, ConsensusAssumption
<1>3. d = [typ |-> "credit", st |-> st, acct |-> OutAccount(tx, i), outp |-> <<tx, i>>,
           amt |-> Signed(st, v)]
    BY <1>1 DEF Credit, OutAccount
<1>4. OutAccount(tx, i) \in Accounts BY <1>2 DEF OutAccount
<1> HIDE DEF d, v
<1>5. Signed(st, v) \in Int BY <1>2 DEF Signed
<1>6. d \in Op BY <1>2, <1>3, <1>4, <1>5 DEF Op
<1> QED BY <1>3, <1>6 DEF d, v

\* The operations of a transaction: a debit for every input that is not
\* skipped, a credit for every output that carries value.
IsOpOf(tree, st, tx, idx, x) ==
    \/ \E i \in DOMAIN TxIns[tx] : ~SkipsInput(tree, tx, idx, i) /\ x = Debit(tree, st, tx, i)
    \/ \E i \in DOMAIN TxOuts[tx] : TxOuts[tx][i].value # 0 /\ x = Credit(tree, st, tx, idx, i)

\* Inputs and outputs are numbered from 1.
LEMMA TxSequences ==
    ASSUME NEW tx \in Tx
    PROVE  /\ Len(TxIns[tx]) \in Nat /\ DOMAIN TxIns[tx] = 1..Len(TxIns[tx])
           /\ Len(TxOuts[tx]) \in Nat /\ DOMAIN TxOuts[tx] = 1..Len(TxOuts[tx])
<1>1. TxOuts[tx] \in Seq(Range(TxOuts[tx])) /\ TxIns[tx] \in Seq(Range(TxIns[tx]))
    BY ConsensusAssumption
<1> QED BY <1>1

\* The debits of a transaction: one per input that is not skipped.
LEMMA DebitOpsAre ==
    ASSUME NEW b \in Blocks \ {Genesis}, NEW tree, NEW tx, NEW idx, Placed(b, tree, tx, idx),
           NEW st \in {"success", "reversed"}
    PROVE  /\ DebitOps(tree, st, tx, idx) \in Seq(Op)
           /\ \A x : x \in Range(DebitOps(tree, st, tx, idx)) <=>
                \E i \in DOMAIN TxIns[tx] :
                    ~SkipsInput(tree, tx, idx, i) /\ x = Debit(tree, st, tx, i)
<1> DEFINE n == Len(TxIns[tx])
           D(i) == Debit(tree, st, tx, i)
           Skip(i) == SkipsInput(tree, tx, idx, i)
           s == [i \in 1..n |-> IF Skip(i) THEN << >> ELSE << D(i) >>]
<1>1. tx \in Tx BY PlacedFacts
<1>2. n \in Nat /\ DOMAIN TxIns[tx] = 1..n BY <1>1, TxSequences
<1>3. DebitOps(tree, st, tx, idx) = FlattenSeq(s) BY <1>2 DEF DebitOps
<1>4. \A i \in 1..n : ~Skip(i) => D(i) \in Op BY <1>2, DebitIs
<1> HIDE DEF n, D, Skip
<1>5. s \in [1..n -> Seq(Op)]
    <2>1. \A i \in 1..n : (IF Skip(i) THEN << >> ELSE << D(i) >>) \in Seq(Op) BY <1>4
    <2> QED BY <2>1
<1>6. \A i \in 1..n : \A x : x \in Range(s[i]) <=> ~Skip(i) /\ x = D(i) BY DEF Range
<1> HIDE DEF s
<1>7. /\ FlattenSeq(s) \in Seq(Op)
      /\ \A x : x \in Range(FlattenSeq(s)) <=> \E i \in 1..n : x \in Range(s[i])
    BY <1>2, <1>5, FlattenRange
<1> QED BY <1>2, <1>3, <1>6, <1>7 DEF Skip, D

\* The credits of a transaction: one per output with a value.
LEMMA CreditOpsAre ==
    ASSUME NEW b \in Blocks \ {Genesis}, NEW tree, NEW tx, NEW idx, Placed(b, tree, tx, idx),
           NEW st \in {"success", "reversed"}
    PROVE  /\ CreditOps(tree, st, tx, idx) \in Seq(Op)
           /\ \A x : x \in Range(CreditOps(tree, st, tx, idx)) <=>
                \E i \in DOMAIN TxOuts[tx] :
                    TxOuts[tx][i].value # 0 /\ x = Credit(tree, st, tx, idx, i)
<1> DEFINE n == Len(TxOuts[tx])
           D(i) == Credit(tree, st, tx, idx, i)
           Zero(i) == TxOuts[tx][i].value = 0
           s == [i \in 1..n |-> IF Zero(i) THEN << >> ELSE << D(i) >>]
<1>1. tx \in Tx BY PlacedFacts
<1>2. n \in Nat /\ DOMAIN TxOuts[tx] = 1..n BY <1>1, TxSequences
<1>3. CreditOps(tree, st, tx, idx) = FlattenSeq(s) BY <1>2 DEF CreditOps
<1>4. \A i \in 1..n : D(i) \in Op BY <1>2, CreditIs
<1> HIDE DEF n, D, Zero
<1>5. s \in [1..n -> Seq(Op)]
    <2>1. \A i \in 1..n : (IF Zero(i) THEN << >> ELSE << D(i) >>) \in Seq(Op) BY <1>4
    <2> QED BY <2>1
<1>6. \A i \in 1..n : \A x : x \in Range(s[i]) <=> ~Zero(i) /\ x = D(i) BY DEF Range
<1> HIDE DEF s
<1>7. /\ FlattenSeq(s) \in Seq(Op)
      /\ \A x : x \in Range(FlattenSeq(s)) <=> \E i \in 1..n : x \in Range(s[i])
    BY <1>2, <1>5, FlattenRange
<1> QED BY <1>2, <1>3, <1>6, <1>7 DEF Zero, D

\* The operations of a transaction.
LEMMA TxOpsAre ==
    ASSUME NEW b \in Blocks \ {Genesis}, NEW tree, NEW tx, NEW idx, Placed(b, tree, tx, idx),
           NEW st \in {"success", "reversed"}
    PROVE  /\ TxOps(tree, st, tx, idx) \in Seq(Op)
           /\ \A x : x \in Range(TxOps(tree, st, tx, idx)) <=> IsOpOf(tree, st, tx, idx, x)
<1> DEFINE d == DebitOps(tree, st, tx, idx)
           c == CreditOps(tree, st, tx, idx)
<1>1. /\ d \in Seq(Op)
      /\ \A x : x \in Range(d) <=> \E i \in DOMAIN TxIns[tx] :
            ~SkipsInput(tree, tx, idx, i) /\ x = Debit(tree, st, tx, i)
    BY DebitOpsAre
<1>2. /\ c \in Seq(Op)
      /\ \A x : x \in Range(c) <=> \E i \in DOMAIN TxOuts[tx] :
            TxOuts[tx][i].value # 0 /\ x = Credit(tree, st, tx, idx, i)
    BY CreditOpsAre
<1>3. TxOps(tree, st, tx, idx) = IF st = "success" THEN d \o c ELSE c \o d BY DEF TxOps
<1> HIDE DEF d, c
<1>4. /\ d \o c \in Seq(Op) /\ Range(d \o c) = Range(d) \cup Range(c)
      /\ c \o d \in Seq(Op) /\ Range(c \o d) = Range(d) \cup Range(c)
    <2>1. Range(c) \cup Range(d) = Range(d) \cup Range(c) OBVIOUS
    <2> QED BY <1>1, <1>2, <2>1, ConcatRange
<1>5. TxOps(tree, st, tx, idx) \in Seq(Op)
      /\ Range(TxOps(tree, st, tx, idx)) = Range(d) \cup Range(c)
    BY <1>3, <1>4
<1>6. \A x : x \in Range(d) \cup Range(c) <=> IsOpOf(tree, st, tx, idx, x)
    BY <1>1, <1>2 DEF IsOpOf
<1> QED BY <1>5, <1>6

\* The operations of a whole tree.
LEMMA ApplyTxsAre ==
    ASSUME NEW b \in Blocks \ {Genesis}, NEW tree \in {"regular", "stake"}, NEW txs \in Seq(Tx),
           \A idx \in DOMAIN txs : Placed(b, tree, txs[idx], idx),
           NEW st \in {"success", "reversed"}
    PROVE  /\ ApplyTxs(tree, st, txs) \in Seq(Op)
           /\ \A x : x \in Range(ApplyTxs(tree, st, txs)) <=>
                \E idx \in DOMAIN txs : IsOpOf(tree, st, txs[idx], idx, x)
<1> DEFINE n == Len(txs)
           R(i) == TxOps(tree, st, txs[i], i)
           s == [i \in 1..n |-> R(i)]
<1>1. n \in Nat /\ DOMAIN txs = 1..n OBVIOUS
<1>2. ApplyTxs(tree, st, txs) = FlattenSeq(s) BY <1>1 DEF ApplyTxs
<1>3. \A i \in 1..n : /\ R(i) \in Seq(Op)
                     /\ \A x : x \in Range(R(i)) <=> IsOpOf(tree, st, txs[i], i, x)
    BY <1>1, TxOpsAre
<1> HIDE DEF n, R
<1>4. s \in [1..n -> Seq(Op)] /\ \A i \in 1..n : s[i] = R(i) BY <1>3
<1> HIDE DEF s
<1>5. /\ FlattenSeq(s) \in Seq(Op)
      /\ \A x : x \in Range(FlattenSeq(s)) <=> \E i \in 1..n : x \in Range(s[i])
    BY <1>1, <1>4, FlattenRange
<1> QED BY <1>1, <1>2, <1>3, <1>4, <1>5

\* Where an operation of b comes from.
SourceOf(b, st, tree, tx, idx) ==
    \/ st = "success" /\ Placed(b, tree, tx, idx)
    \/ st = "reversed" /\ tree = "regular" /\ ~Approves[b] /\ Placed(Parent[b], tree, tx, idx)

\* The operations of a block: those of its transactions, and the reversed ones.
LEMMA BlockOpsAre ==
    ASSUME NEW b \in Blocks \ {Genesis}
    PROVE  \A x : x \in Range(Ops(b, Parent[b])) <=>
              \E st, tree, tx, idx : SourceOf(b, st, tree, tx, idx) /\ IsOpOf(tree, st, tx, idx, x)
<1> DEFINE p == Parent[b]
           rev == ApplyTxs("regular", "reversed", Regular[p])
           reg == ApplyTxs("regular", "success", Regular[b])
           stk == ApplyTxs("stake", "success", Stake[b])
           first == IF Approves[b] THEN << >> ELSE rev
<1>1. Height[b] # 0 BY BlockTreeAssumption
<1>2. Ops(b, p) = first \o reg \o stk BY <1>1, LedgerAssumption DEF IterateBlockOps
<1>3. /\ reg \in Seq(Op)
      /\ \A x : x \in Range(reg) <=>
            \E idx \in DOMAIN Regular[b] : IsOpOf("regular", "success", Regular[b][idx], idx, x)
    <2>1. Regular[b] \in Seq(Tx) BY ConsensusAssumption DEF WellPlaced
    <2>2. \A idx \in DOMAIN Regular[b] : Placed(b, "regular", Regular[b][idx], idx) BY DEF Placed
    <2> QED BY <2>1, <2>2, ApplyTxsAre
<1>4. /\ stk \in Seq(Op)
      /\ \A x : x \in Range(stk) <=>
            \E idx \in DOMAIN Stake[b] : IsOpOf("stake", "success", Stake[b][idx], idx, x)
    <2>1. Stake[b] \in Seq(Tx) BY ConsensusAssumption DEF WellPlaced
    <2>2. \A idx \in DOMAIN Stake[b] : Placed(b, "stake", Stake[b][idx], idx) BY DEF Placed
    <2> QED BY <2>1, <2>2, ApplyTxsAre
<1>5. ASSUME ~Approves[b]
      PROVE  /\ rev \in Seq(Op)
             /\ \A x : x \in Range(rev) <=>
                  \E idx \in DOMAIN Regular[p] : IsOpOf("regular", "reversed", Regular[p][idx], idx, x)
    <2>1. p \in Blocks \ {Genesis} BY <1>5, BlockTreeAssumption
    <2>2. Regular[p] \in Seq(Tx) BY <2>1, ConsensusAssumption DEF WellPlaced
    <2>3. \A idx \in DOMAIN Regular[p] : Placed(p, "regular", Regular[p][idx], idx) BY DEF Placed
    <2> QED BY <2>1, <2>2, <2>3, ApplyTxsAre
<1> HIDE DEF rev, reg, stk
<1>6. /\ first \in Seq(Op)
      /\ \A x : x \in Range(first) <=> ~Approves[b] /\
            \E idx \in DOMAIN Regular[p] : IsOpOf("regular", "reversed", Regular[p][idx], idx, x)
    <2>1. CASE Approves[b]
        <3>1. first = << >> BY <2>1
        <3>2. Range(<< >>) = {} BY DEF Range
        <3> QED BY <2>1, <3>1, <3>2
    <2>2. CASE ~Approves[b] BY <1>5, <2>2
    <2> QED BY <2>1, <2>2
<1> HIDE DEF first
<1>7. Range(Ops(b, p)) = Range(first) \cup Range(reg) \cup Range(stk)
    <2> DEFINE head == first \o reg
    <2>1. head \in Seq(Op) /\ Range(head) = Range(first) \cup Range(reg)
        BY <1>3, <1>6, ConcatRange
    <2>2. Ops(b, p) = head \o stk BY <1>2
    <2> HIDE DEF head
    <2>3. Range(head \o stk) = Range(head) \cup Range(stk) BY <1>4, <2>1, ConcatRange
    <2> QED BY <2>1, <2>2, <2>3
<1>8. ASSUME NEW x
      PROVE  (\E st, tree, tx, idx : SourceOf(b, st, tree, tx, idx) /\ IsOpOf(tree, st, tx, idx, x))
             <=> \/ \E idx \in DOMAIN Regular[b] : IsOpOf("regular", "success", Regular[b][idx], idx, x)
                 \/ \E idx \in DOMAIN Stake[b] : IsOpOf("stake", "success", Stake[b][idx], idx, x)
                 \/ ~Approves[b] /\ \E idx \in DOMAIN Regular[p] :
                        IsOpOf("regular", "reversed", Regular[p][idx], idx, x)
    BY DEF SourceOf, Placed
<1> QED BY <1>3, <1>4, <1>6, <1>7, <1>8

-----------------------------------------------------------------------------
(* What a block does to one coin of the ledger.                            *)

\* The outputs with a value.
LEMMA OutputMember ==
    ASSUME NEW T, NEW o
    PROVE  o \in OutputsOf(T) <=> /\ o = <<o[1], o[2]>> /\ o[1] \in T /\ o[2] \in DOMAIN TxOuts[o[1]]
                                  /\ TxOuts[o[1]][o[2]].value # 0
<1>1. o \in OutputsOf(T) <=>
        \E t \in T : \E i \in DOMAIN TxOuts[t] : TxOuts[t][i].value # 0 /\ o = <<t, i>>
    <2> DEFINE N(t) == {i \in DOMAIN TxOuts[t] : TxOuts[t][i].value # 0}
               S(t) == {<<t, i>> : i \in N(t)}
    <2>1. \A t : o \in S(t) <=> \E i \in DOMAIN TxOuts[t] : TxOuts[t][i].value # 0 /\ o = <<t, i>>
        OBVIOUS
    <2>2. OutputsOf(T) = UNION {S(t) : t \in T} BY DEF OutputsOf
    <2> HIDE DEF S
    <2>3. o \in UNION {S(t) : t \in T} <=> \E t \in T : o \in S(t) BY Zenon
    <2> QED BY <2>1, <2>2, <2>3
<1>2. ASSUME NEW t \in T, NEW i \in DOMAIN TxOuts[t], TxOuts[t][i].value # 0, o = <<t, i>>
      PROVE  /\ o = <<o[1], o[2]>> /\ o[1] \in T /\ o[2] \in DOMAIN TxOuts[o[1]]
             /\ TxOuts[o[1]][o[2]].value # 0
    <2>1. o[1] = t /\ o[2] = i BY <1>2
    <2> QED BY <1>2, <2>1, Zenon
<1>3. ASSUME o = <<o[1], o[2]>>, o[1] \in T, o[2] \in DOMAIN TxOuts[o[1]],
             TxOuts[o[1]][o[2]].value # 0
      PROVE  o \in OutputsOf(T)
    BY <1>1, <1>3, Zenon
<1> QED BY <1>1, <1>2, <1>3, Zenon

\* The outputs spent.
LEMMA SpentMember ==
    ASSUME NEW T, NEW o
    PROVE  o \in SpentBy(T) <=> \E t \in T : \E i \in DOMAIN TxIns[t] : o = TxIns[t][i].outp
<1> DEFINE S(t) == {TxIns[t][i].outp : i \in DOMAIN TxIns[t]}
<1>1. \A t : o \in S(t) <=> \E i \in DOMAIN TxIns[t] : o = TxIns[t][i].outp OBVIOUS
<1>2. SpentBy(T) = UNION {S(t) : t \in T} BY DEF SpentBy
<1> HIDE DEF S
<1>3. o \in UNION {S(t) : t \in T} <=> \E t \in T : o \in S(t) BY Zenon
<1> QED BY <1>1, <1>2, <1>3

\* The coin is an output of a transaction, under the account it pays.
IsCoin(c) == c = <<OutAccount(c[2][1], c[2][2]), c[2]>> /\ c[2][1] \in Tx

\* The coins unspent at a block, and their amounts.
LEMMA UnspentMember ==
    ASSUME NEW b \in Blocks, NEW c, AppliedTxs(b) \subseteq Tx
    PROVE  /\ c \in DOMAIN UnspentAt[b] <=>
                IsCoin(c) /\ c[2] \in OutputsOf(AppliedTxs(b)) /\ c[2] \notin SpentBy(AppliedTxs(b))
           /\ c \in DOMAIN UnspentAt[b] => UnspentAt[b][c] = PrevOutput(c[2]).value
<1> DEFINE A == AppliedTxs(b)
           left == OutputsOf(A) \ SpentBy(A)
           D == {<<OutAccount(o[1], o[2]), o>> : o \in left}
<1>1. UnspentAt[b] = [x \in D |-> PrevOutput(x[2]).value] BY DEF UnspentAt, Unspent
<1>2. c \in D <=> c[2] \in left /\ c = <<OutAccount(c[2][1], c[2][2]), c[2]>> OBVIOUS
<1>3. \A o \in left : o[1] \in Tx BY OutputMember
<1> HIDE DEF D
<1>4. DOMAIN UnspentAt[b] = D /\ (c \in D => UnspentAt[b][c] = PrevOutput(c[2]).value) BY <1>1
<1> QED BY <1>2, <1>3, <1>4 DEF IsCoin

\* The four ways in which a block touches a coin: it mines or reverses the
\* transaction that creates it or one that spends it.
Touches(b, typ, st, c) ==
    LET txs == IF st = "success" THEN Mined(b) ELSE Reversed(b)
    IN  IsCoin(c) /\ c[2] \in (IF typ = "credit" THEN OutputsOf(txs) ELSE SpentBy(txs))

\* Where the transactions a block mines and reverses are.
LEMMA MinedAreSources ==
    ASSUME NEW b \in Blocks \ {Genesis}
    PROVE  /\ \A t : t \in Mined(b) <=> \E tree, idx : SourceOf(b, "success", tree, t, idx)
           /\ \A t : t \in Reversed(b) <=> \E tree, idx : SourceOf(b, "reversed", tree, t, idx)
<1>1. \A t : t \in Mined(b) <=> \E tree, idx : Placed(b, tree, t, idx)
    BY DEF Mined, Placed, Range
<1>2. ~Approves[b] => \A t : t \in Range(Regular[Parent[b]]) <=>
                                \E idx : Placed(Parent[b], "regular", t, idx)
    BY DEF Placed, Range
<1> QED BY <1>1, <1>2 DEF SourceOf, Reversed

\* The block whose transaction a source is.
LEMMA SourceBlock ==
    ASSUME NEW b \in Blocks \ {Genesis}, NEW st, NEW tree, NEW tx, NEW idx,
           SourceOf(b, st, tree, tx, idx)
    PROVE  /\ st \in {"success", "reversed"}
           /\ \E d \in Blocks \ {Genesis} : Placed(d, tree, tx, idx)
<1>1. ~Approves[b] => Parent[b] \in Blocks \ {Genesis} BY BlockTreeAssumption
<1> QED BY <1>1 DEF SourceOf

\* A coin is touched by an operation of the block: it is created by a
\* transaction or spent by one.
LEMMA OpTouches ==
    ASSUME NEW b \in Blocks \ {Genesis}, NEW x \in Range(Ops(b, Parent[b])), CoinOf(x)[2][1] \in Tx
    PROVE  /\ x.typ \in {"credit", "debit"} /\ x.st \in {"success", "reversed"}
           /\ Touches(b, x.typ, x.st, CoinOf(x))
           /\ x.amt = (IF Creates(x) THEN PrevOutput(x.outp).value ELSE -PrevOutput(x.outp).value)
<1> DEFINE o == x.outp
           c == CoinOf(x)
<1>1. PICK st, tree, tx, idx : SourceOf(b, st, tree, tx, idx) /\ IsOpOf(tree, st, tx, idx, x)
    BY BlockOpsAre
<1>2. PICK d \in Blocks \ {Genesis} : st \in {"success", "reversed"} /\ Placed(d, tree, tx, idx)
    BY <1>1, SourceBlock
<1>3. tx \in (IF st = "success" THEN Mined(b) ELSE Reversed(b)) /\ tx \in Tx
    BY <1>1, <1>2, MinedAreSources, PlacedFacts
<1>4. c[2] = o /\ c = <<x.acct, o>> /\ o[1] \in Tx BY DEF CoinOf
<1>5. CASE \E i \in DOMAIN TxIns[tx] : ~SkipsInput(tree, tx, idx, i) /\ x = Debit(tree, st, tx, i)
    <2>1. PICK i \in DOMAIN TxIns[tx] : ~SkipsInput(tree, tx, idx, i) /\ x = Debit(tree, st, tx, i)
        BY <1>5
    <2>2. /\ x.typ = "debit" /\ x.st = st /\ o = TxIns[tx][i].outp
          /\ TxType[tx] = "tspend" => o[1] \notin Tx
          /\ TxType[tx] # "tspend" =>
                /\ o[2] \in DOMAIN TxOuts[o[1]]
                /\ x.acct = OutAccount(o[1], o[2]) /\ x.amt = Signed(st, -PrevOutput(o).value)
        BY <1>2, <2>1, DebitIs
    <2>3. IsCoin(c) BY <1>4, <2>2 DEF IsCoin
    <2>4. c[2] \in SpentBy(IF st = "success" THEN Mined(b) ELSE Reversed(b))
        BY <1>3, <1>4, <2>2, SpentMember
    <2>5. PrevOutput(o).value \in Int
        BY <1>4, <2>2, ConsensusAssumption DEF PrevOutput
    <2>6. x.amt = (IF Creates(x) THEN PrevOutput(o).value ELSE -PrevOutput(o).value)
        BY <1>2, <1>4, <2>2, <2>5 DEF Creates, Signed
    <2> QED BY <1>2, <2>2, <2>3, <2>4, <2>6 DEF Touches
<1>6. CASE \E i \in DOMAIN TxOuts[tx] : TxOuts[tx][i].value # 0 /\ x = Credit(tree, st, tx, idx, i)
    <2>1. PICK i \in DOMAIN TxOuts[tx] : TxOuts[tx][i].value # 0 /\ x = Credit(tree, st, tx, idx, i)
        BY <1>6
    <2>2. /\ x.typ = "credit" /\ x.st = st /\ o = <<tx, i>>
          /\ x.acct = OutAccount(tx, i) /\ x.amt = Signed(st, TxOuts[tx][i].value)
        BY <1>2, <2>1, CreditIs
    <2>3. IsCoin(c) BY <1>4, <2>2 DEF IsCoin
    <2>4. c[2] \in OutputsOf(IF st = "success" THEN Mined(b) ELSE Reversed(b))
        BY <1>3, <1>4, <2>1, <2>2, OutputMember
    <2>5. x.amt = (IF Creates(x) THEN PrevOutput(o).value ELSE -PrevOutput(o).value)
        BY <1>2, <2>2 DEF Creates, Signed, PrevOutput
    <2> QED BY <1>2, <2>2, <2>3, <2>4, <2>5 DEF Touches
<1> QED BY <1>1, <1>5, <1>6 DEF IsOpOf

\* And the other way around.
LEMMA TouchHasOp ==
    ASSUME NEW b \in Blocks \ {Genesis}, NEW typ \in {"credit", "debit"},
           NEW st \in {"success", "reversed"}, NEW c, Touches(b, typ, st, c)
    PROVE  \E x \in Range(Ops(b, Parent[b])) : CoinOf(x) = c /\ x.typ = typ /\ x.st = st
<1> DEFINE o == c[2]
           txs == IF st = "success" THEN Mined(b) ELSE Reversed(b)
<1>1. c = <<OutAccount(o[1], o[2]), o>> /\ o[1] \in Tx BY DEF Touches, IsCoin
<1>2. ASSUME NEW t \in txs
      PROVE  \E tree, idx : SourceOf(b, st, tree, t, idx)
    BY <1>2, MinedAreSources
<1>3. CASE typ = "credit"
    <2>1. /\ o = <<o[1], o[2]>> /\ o[1] \in txs /\ o[2] \in DOMAIN TxOuts[o[1]]
          /\ TxOuts[o[1]][o[2]].value # 0
        <3>1. o \in OutputsOf(txs) BY <1>3 DEF Touches
        <3> HIDE DEF txs
        <3> QED BY <3>1, OutputMember
    <2> DEFINE tx == o[1]
               i == o[2]
    <2>2. PICK tree, idx : SourceOf(b, st, tree, tx, idx) BY <1>2, <2>1
    <2>3. PICK d \in Blocks \ {Genesis} : Placed(d, tree, tx, idx) BY <2>2, SourceBlock
    <2> DEFINE x == Credit(tree, st, tx, idx, i)
    <2>4. /\ x.typ = "credit" /\ x.st = st /\ x.outp = <<tx, i>> /\ x.acct = OutAccount(tx, i)
        BY <2>1, <2>3, CreditIs
    <2>5. IsOpOf(tree, st, tx, idx, x) BY <2>1 DEF IsOpOf
    <2>6. x \in Range(Ops(b, Parent[b])) BY <2>2, <2>5, BlockOpsAre
    <2>7. CoinOf(x) = c
        <3> HIDE DEF x
        <3> QED BY <1>1, <2>1, <2>4 DEF CoinOf
    <2> QED BY <1>3, <2>4, <2>6, <2>7
<1>4. CASE typ = "debit"
    <2>1. PICK tx \in txs : \E i \in DOMAIN TxIns[tx] : o = TxIns[tx][i].outp
        <3>1. o \in SpentBy(txs) BY <1>4 DEF Touches
        <3> HIDE DEF txs
        <3> QED BY <3>1, SpentMember
    <2>2. PICK i \in DOMAIN TxIns[tx] : o = TxIns[tx][i].outp BY <2>1
    <2>3. PICK tree, idx : SourceOf(b, st, tree, tx, idx) BY <1>2
    <2>4. PICK d \in Blocks \ {Genesis} : Placed(d, tree, tx, idx) BY <2>3, SourceBlock
    <2>5. ~SkipsInput(tree, tx, idx, i) /\ TxType[tx] # "tspend"
        BY <1>1, <2>2, <2>4, PlacedFacts DEF InputFacts
    <2> DEFINE x == Debit(tree, st, tx, i)
    <2>6. /\ x.typ = "debit" /\ x.st = st /\ x.outp = o /\ x.acct = OutAccount(o[1], o[2])
        BY <2>2, <2>4, <2>5, DebitIs
    <2>7. IsOpOf(tree, st, tx, idx, x) BY <2>2, <2>5 DEF IsOpOf
    <2>8. x \in Range(Ops(b, Parent[b])) BY <2>3, <2>7, BlockOpsAre
    <2>9. CoinOf(x) = c
        <3> HIDE DEF x
        <3> QED BY <1>1, <2>6 DEF CoinOf
    <2> QED BY <1>4, <2>6, <2>8, <2>9
<1> QED BY <1>3, <1>4

\* Outputs and spent outputs of two sets of transactions.
LEMMA OutputsUnion ==
    ASSUME NEW S, NEW T, NEW o
    PROVE  /\ o \in OutputsOf(S \cup T) <=> o \in OutputsOf(S) \/ o \in OutputsOf(T)
           /\ o \in SpentBy(S \cup T) <=> o \in SpentBy(S) \/ o \in SpentBy(T)
<1>1. o \in OutputsOf(S \cup T) <=> o \in OutputsOf(S) \/ o \in OutputsOf(T)
    BY OutputMember
<1>2. o \in SpentBy(S \cup T) <=> o \in SpentBy(S) \/ o \in SpentBy(T)
    BY SpentMember
<1> QED BY <1>1, <1>2

\* What consistency says of an output that some of the transactions spend: it is
\* an output of one of them, and no other spends it.
LEMMA ConsistentSpent ==
    ASSUME NEW T, Consistent(T), NEW S \in SUBSET T, NEW o \in SpentBy(S), o[1] \in Tx
    PROVE  /\ o[1] \in T /\ o[2] \in DOMAIN TxOuts[o[1]]
           /\ \A R \in SUBSET T : R \cap S = {} => o \notin SpentBy(R)
<1>1. PICK t \in S : \E i \in DOMAIN TxIns[t] : o = TxIns[t][i].outp BY SpentMember
<1>2. PICK i \in DOMAIN TxIns[t] : o = TxIns[t][i].outp BY <1>1
<1>3. /\ o[1] \in T /\ o[2] \in DOMAIN TxOuts[o[1]]
      /\ \A s \in T : \A j \in DOMAIN TxIns[s] : TxIns[s][j].outp = o => s = t
    BY <1>2 DEF Consistent
<1>4. ASSUME NEW R \in SUBSET T, R \cap S = {}, o \in SpentBy(R) PROVE FALSE
    <2>1. PICK s \in R : \E j \in DOMAIN TxIns[s] : o = TxIns[s][j].outp BY <1>4, SpentMember
    <2> QED BY <1>3, <1>4, <2>1
<1> QED BY <1>3, <1>4

\* The transactions around a block.
LEMMA AroundBlock ==
    ASSUME NEW b \in Blocks \ {Genesis}
    PROVE  /\ Mined(b) \cap Below(b) = {} /\ Reversed(b) \cap Below(b) = {}
           /\ Mined(b) \subseteq Tx /\ Reversed(b) \subseteq Tx
           /\ Consistent(Below(b)) /\ Consistent(Below(b) \cup Mined(b))
           /\ Reversed(b) # {} => Consistent(Below(b) \cup Reversed(b))
<1>1. Parent[b] \in Blocks /\ (~Approves[b] => Parent[b] \in Blocks \ {Genesis})
    BY BlockTreeAssumption
<1>2. Mined(b) \subseteq Tx /\ Reversed(b) \subseteq Tx BY <1>1, TreesDiffer DEF Mined, Reversed
<1>3. Mined(b) \cap Below(b) = {} /\ Consistent(Below(b)) /\ Consistent(Below(b) \cup Mined(b))
    BY AppliedStep, ConsensusAssumption
<1>4. Reversed(b) # {} => Consistent(Below(b) \cup Reversed(b))
    <2>1. Reversed(b) # {} => Parent[b] \in Blocks \ {Genesis} BY <1>1 DEF Reversed
    <2>2. Reversed(b) # {} => Consistent(AppliedTxs(Parent[b])) BY <2>1, ConsensusAssumption
    <2> QED BY <2>2, AppliedParent
<1>5. Reversed(b) \cap Below(b) = {} BY DEF Below
<1> QED BY <1>2, <1>3, <1>4, <1>5

\* Only transactions are applied.
LEMMA AppliedAreTxs == \A b \in Blocks : AppliedTxs(b) \subseteq Tx
<1> SUFFICES ASSUME NEW b \in Blocks, NEW t \in AppliedTxs(b) PROVE t \in Tx OBVIOUS
<1>1. \A c \in Ancestors[b] : c \in Blocks BY AncestorsBelow
<1>2. \A c \in InForce(b) : c \in Ancestors[b] BY DEF InForce
<1> QED BY <1>1, <1>2, AppliedMember, TreesDiffer

\* The state of a coin in the ledger below and above a block.
LEMMA CoinAround ==
    ASSUME NEW b \in Blocks \ {Genesis}, NEW c
    PROVE  LET o == c[2] IN
           /\ c \in DOMAIN UnspentAt[b] <=>
                /\ IsCoin(c) /\ (o \in OutputsOf(Below(b)) \/ o \in OutputsOf(Mined(b)))
                /\ o \notin SpentBy(Below(b)) /\ o \notin SpentBy(Mined(b))
           /\ c \in DOMAIN UnspentAt[Parent[b]] <=>
                /\ IsCoin(c) /\ (o \in OutputsOf(Below(b)) \/ o \in OutputsOf(Reversed(b)))
                /\ o \notin SpentBy(Below(b)) /\ o \notin SpentBy(Reversed(b))
           /\ c \in DOMAIN UnspentAt[b] => UnspentAt[b][c] = PrevOutput(o).value
           /\ c \in DOMAIN UnspentAt[Parent[b]] => UnspentAt[Parent[b]][c] = PrevOutput(o).value
<1> DEFINE p == Parent[b]
           o == c[2]
<1>1. p \in Blocks BY BlockTreeAssumption
<1>2. AppliedTxs(b) \subseteq Tx /\ AppliedTxs(p) \subseteq Tx BY <1>1, AppliedAreTxs
<1>3. /\ o \in OutputsOf(AppliedTxs(b)) <=> o \in OutputsOf(Below(b)) \/ o \in OutputsOf(Mined(b))
      /\ o \in SpentBy(AppliedTxs(b)) <=> o \in SpentBy(Below(b)) \/ o \in SpentBy(Mined(b))
    BY AppliedStep, OutputsUnion
<1>4. /\ o \in OutputsOf(AppliedTxs(p)) <=> o \in OutputsOf(Below(b)) \/ o \in OutputsOf(Reversed(b))
      /\ o \in SpentBy(AppliedTxs(p)) <=> o \in SpentBy(Below(b)) \/ o \in SpentBy(Reversed(b))
    BY AppliedParent, OutputsUnion
<1>5. /\ c \in DOMAIN UnspentAt[b] <=>
            IsCoin(c) /\ o \in OutputsOf(AppliedTxs(b)) /\ o \notin SpentBy(AppliedTxs(b))
      /\ c \in DOMAIN UnspentAt[b] => UnspentAt[b][c] = PrevOutput(o).value
    BY <1>2, UnspentMember
<1>6. /\ c \in DOMAIN UnspentAt[p] <=>
            IsCoin(c) /\ o \in OutputsOf(AppliedTxs(p)) /\ o \notin SpentBy(AppliedTxs(p))
      /\ c \in DOMAIN UnspentAt[p] => UnspentAt[p][c] = PrevOutput(o).value
    BY <1>1, <1>2, UnspentMember
<1> HIDE DEF p, o
<1> QED BY <1>3, <1>4, <1>5, <1>6 DEF p, o

\* A coin that exactly one operation of the block touches changes as that
\* operation says.  The value of a spent output is not zero: the operation that
\* spends it carries an amount.
LEMMA OneTouch ==
    ASSUME NEW b \in Blocks \ {Genesis}, NEW c, NEW x, CoinOf(x) = c, IsCoin(c),
           c[2] = <<c[2][1], c[2][2]>>, PrevOutput(c[2]).value # 0, PrevOutput(c[2]).value \in Int,
           x.typ \in {"credit", "debit"}, x.st \in {"success", "reversed"},
           Touches(b, x.typ, x.st, c),
           \A typ \in {"credit", "debit"}, st \in {"success", "reversed"} :
                Touches(b, typ, st, c) => typ = x.typ /\ st = x.st,
           x.amt = IF Creates(x) THEN PrevOutput(c[2]).value ELSE -PrevOutput(c[2]).value
    PROVE  LET u == UnspentAt[Parent[b]]
               v == UnspentAt[b]
           IN  IF Creates(x)
               THEN c \notin DOMAIN u /\ c \in DOMAIN v /\ v[c] = x.amt
               ELSE c \in DOMAIN u /\ c \notin DOMAIN v /\ u[c] = -x.amt
<1> DEFINE u == UnspentAt[Parent[b]]
           v == UnspentAt[b]
           o == c[2]
           M == Mined(b)
           R == Reversed(b)
           B == Below(b)
           oM == o \in OutputsOf(M)
           oR == o \in OutputsOf(R)
           oB == o \in OutputsOf(B)
           sM == o \in SpentBy(M)
           sR == o \in SpentBy(R)
           sB == o \in SpentBy(B)
<1>1. /\ M \cap B = {} /\ R \cap B = {} /\ Consistent(B) /\ Consistent(B \cup M)
      /\ R # {} => Consistent(B \cup R)
    BY AroundBlock
<1>2. /\ oM <=> Touches(b, "credit", "success", c)
      /\ oR <=> Touches(b, "credit", "reversed", c)
      /\ sM <=> Touches(b, "debit", "success", c)
      /\ sR <=> Touches(b, "debit", "reversed", c)
    BY DEF Touches
<1>3. /\ c \in DOMAIN v <=> (oB \/ oM) /\ ~sB /\ ~sM
      /\ c \in DOMAIN u <=> (oB \/ oR) /\ ~sB /\ ~sR
      /\ c \in DOMAIN v => v[c] = PrevOutput(o).value
      /\ c \in DOMAIN u => u[c] = PrevOutput(o).value
    BY CoinAround
<1>4. o[1] \in Tx /\ o = <<o[1], o[2]>> BY DEF IsCoin
<1>5. \A T : o \in OutputsOf(T) <=> o[1] \in T /\ o[2] \in DOMAIN TxOuts[o[1]]
    BY <1>4, OutputMember DEF PrevOutput
<1>6. /\ sB => o[1] \in B
      /\ sM => o[1] \in B \cup M /\ o[2] \in DOMAIN TxOuts[o[1]] /\ ~sB
      /\ sR => o[1] \in B \cup R /\ o[2] \in DOMAIN TxOuts[o[1]] /\ ~sB
    <2>1. sB => o[1] \in B BY <1>1, <1>4, ConsistentSpent
    <2>2. sM => o[1] \in B \cup M /\ o[2] \in DOMAIN TxOuts[o[1]] /\ ~sB
        <3>1. M \in SUBSET (B \cup M) /\ B \in SUBSET (B \cup M) /\ B \cap M = {} BY <1>1
        <3> HIDE DEF M, B
        <3> QED BY <1>1, <1>4, <3>1, ConsistentSpent
    <2>3. sR => o[1] \in B \cup R /\ o[2] \in DOMAIN TxOuts[o[1]] /\ ~sB
        <3>1. R \in SUBSET (B \cup R) /\ B \in SUBSET (B \cup R) /\ B \cap R = {} BY <1>1
        <3>2. sR => R # {} BY SpentMember
        <3> HIDE DEF R, B
        <3> QED BY <1>1, <1>4, <3>1, <3>2, ConsistentSpent
    <2> QED BY <2>1, <2>2, <2>3
<1>7. /\ oM <=> x.typ = "credit" /\ x.st = "success"
      /\ oR <=> x.typ = "credit" /\ x.st = "reversed"
      /\ sM <=> x.typ = "debit" /\ x.st = "success"
      /\ sR <=> x.typ = "debit" /\ x.st = "reversed"
    BY <1>2
<1>8. oB <=> o[1] \in B /\ o[2] \in DOMAIN TxOuts[o[1]] BY <1>5
<1>9. oM => o[1] \in M /\ ~oB BY <1>1, <1>5
<1>10. oR => o[1] \in R /\ ~oB BY <1>1, <1>5
<1>11. (oM \/ oR) => ~sB BY <1>1, <1>5, <1>6
<1>12. sM /\ ~oM => oB BY <1>5, <1>6
<1>13. sR /\ ~oR => oB BY <1>5, <1>6
<1> HIDE DEF u, v, oM, oR, oB, sM, sR, sB
<1>14. IF Creates(x) THEN c \notin DOMAIN u /\ c \in DOMAIN v ELSE c \in DOMAIN u /\ c \notin DOMAIN v
    BY <1>3, <1>6, <1>7, <1>9, <1>10, <1>11, <1>12, <1>13 DEF Creates
<1>15. Creates(x) => v[c] = x.amt BY <1>3, <1>14
<1>16. ~Creates(x) => u[c] = -x.amt BY <1>3, <1>14
<1> QED BY <1>14, <1>15, <1>16 DEF u, v

\* A block does to a plain coin of the ledger what its operations do to it.
LEMMA PlainCoinStep ==
    ASSUME NEW b \in Blocks \ {Genesis}, NEW c, PlainCoin(c)
    PROVE  CoinStep(b, c)
<1> DEFINE ops == Ops(b, Parent[b])
           u == UnspentAt[Parent[b]]
           v == UnspentAt[b]
           o == c[2]
<1>1. CASE UntouchedBy(ops, c)
    <2>1. ASSUME NEW typ \in {"credit", "debit"}, NEW st \in {"success", "reversed"},
                 Touches(b, typ, st, c)
          PROVE  FALSE
        <3>1. PICK x \in Range(ops) : CoinOf(x) = c BY <2>1, TouchHasOp
        <3> QED BY <1>1, <3>1 DEF UntouchedBy, Range
    <2>2. IsCoin(c) => /\ o \notin OutputsOf(Mined(b)) /\ o \notin OutputsOf(Reversed(b))
                       /\ o \notin SpentBy(Mined(b)) /\ o \notin SpentBy(Reversed(b))
        <3>1. /\ ~Touches(b, "credit", "success", c) /\ ~Touches(b, "credit", "reversed", c)
              /\ ~Touches(b, "debit", "success", c) /\ ~Touches(b, "debit", "reversed", c)
            BY <2>1
        <3> QED BY <3>1 DEF Touches
    <2>3. SameAt(u, v, c) BY <2>2, CoinAround DEF SameAt
    <2> QED BY <1>1, <2>3 DEF CoinStep
<1>2. CASE ~UntouchedBy(ops, c)
    <2>1. PICK i \in DOMAIN ops : CoinOf(ops[i]) = c BY <1>2 DEF UntouchedBy
    <2> DEFINE x == ops[i]
    <2>2. x.amt # 0 /\ o[1] \in Tx /\ \A j \in DOMAIN ops : CoinOf(ops[j]) = c => j = i
        BY <2>1 DEF PlainCoin
    <2>3. OnlyAt(ops, i, c) BY <2>1, <2>2 DEF OnlyAt
    <2>4. x \in Range(ops) /\ CoinOf(x) = c /\ x.outp = o BY <2>1 DEF Range, CoinOf
    <2>5. /\ x.typ \in {"credit", "debit"} /\ x.st \in {"success", "reversed"}
          /\ Touches(b, x.typ, x.st, c)
          /\ x.amt = (IF Creates(x) THEN PrevOutput(o).value ELSE -PrevOutput(o).value)
        BY <2>2, <2>4, OpTouches
    <2>6. ASSUME NEW typ \in {"credit", "debit"}, NEW st \in {"success", "reversed"},
                 Touches(b, typ, st, c)
          PROVE  typ = x.typ /\ st = x.st
        <3>1. PICK y \in Range(ops) : CoinOf(y) = c /\ y.typ = typ /\ y.st = st
            BY <2>6, TouchHasOp
        <3>2. PICK j \in DOMAIN ops : y = ops[j] BY <3>1 DEF Range
        <3> QED BY <2>2, <3>1, <3>2
    <2>7. IsCoin(c) BY <2>5 DEF Touches
    <2>8. o = <<o[1], o[2]>> /\ PrevOutput(o).value \in Int
        <3> DEFINE txs == IF x.st = "success" THEN Mined(b) ELSE Reversed(b)
        <3>1. txs \subseteq Tx BY AroundBlock
        <3>2. CASE o \in OutputsOf(txs)
            BY <2>2, <3>1, <3>2, OutputMember, ConsensusAssumption DEF PrevOutput
        <3>3. CASE o \in SpentBy(txs)
            <4>1. PICK t \in Tx : \E k \in DOMAIN TxIns[t] : o = TxIns[t][k].outp
                BY <3>1, <3>3, SpentMember
            <4>2. o = <<o[1], o[2]>> BY <4>1, ConsensusAssumption
            <4>3. o[2] \in DOMAIN TxOuts[o[1]]
                <5>1. CASE x.st = "success"
                    <6> DEFINE T == Below(b) \cup Mined(b)
                    <6>1. Mined(b) \in SUBSET T /\ Consistent(T) BY AroundBlock
                    <6>2. o \in SpentBy(Mined(b)) BY <3>3, <5>1
                    <6> HIDE DEF T
                    <6> QED BY <2>2, <6>1, <6>2, ConsistentSpent
                <5>2. CASE x.st # "success"
                    <6> DEFINE T == Below(b) \cup Reversed(b)
                    <6>1. o \in SpentBy(Reversed(b)) BY <3>3, <5>2
                    <6>2. Reversed(b) # {} BY <6>1, SpentMember
                    <6>3. Reversed(b) \in SUBSET T /\ Consistent(T) BY <6>2, AroundBlock
                    <6> HIDE DEF T
                    <6> QED BY <2>2, <6>1, <6>3, ConsistentSpent
                <5> QED BY <5>1, <5>2
            <4> QED BY <2>2, <4>2, <4>3, ConsensusAssumption DEF PrevOutput
        <3> QED BY <2>5, <3>2, <3>3 DEF Touches
    <2>9. PrevOutput(o).value # 0 BY <2>2, <2>5, <2>8
    <2>10. IF Creates(x)
           THEN c \notin DOMAIN u /\ c \in DOMAIN v /\ v[c] = x.amt
           ELSE c \in DOMAIN u /\ c \notin DOMAIN v /\ u[c] = -x.amt
        <3> HIDE DEF x
        <3> QED BY <2>4, <2>5, <2>6, <2>7, <2>8, <2>9, OneTouch
    <2> QED BY <2>3, <2>10 DEF CoinStep
<1> QED BY <1>1, <1>2

-----------------------------------------------------------------------------
(* The unspent outputs of every reachable database.                        *)

\* Genesis has no coins.
LEMMA NothingUnspentYet == UnspentAt[Genesis] = << >>
<1>1. Genesis \in Blocks BY BlockTreeAssumption
<1>2. \A o : o \notin OutputsOf({}) BY OutputMember
<1>3. \A c : c \notin DOMAIN UnspentAt[Genesis]
    BY <1>1, <1>2, AppliedGenesis, AppliedAreTxs, UnspentMember
<1>4. DOMAIN UnspentAt[Genesis] = {} BY <1>3
<1>5. UnspentAt[Genesis] = [c \in DOMAIN UnspentAt[Genesis] |-> UnspentAt[Genesis][c]]
    BY <1>1 DEF UnspentAt, Unspent
<1> QED BY <1>4, <1>5

\* The plain coins of both databases are those of the ledger.
LedgerInv ==
    IndInv /\ \A c : PlainCoin(c) => Agrees(db, c) /\ Agrees(wtx, c)

\* An empty database agrees with genesis.
LEMMA EmptyAgrees == \A c : Agrees(EmptyDb, c)
<1>1. LastProcessedBlock(EmptyDb) = Genesis BY DEF EmptyDb, LastProcessedBlock, LastHeight
<1>2. EmptyDb.utxos = << >> BY DEF EmptyDb
<1> QED BY <1>1, <1>2, NothingUnspentYet DEF Agrees, SameAt

\* The invariant holds at the start.
LEMMA LedgerInit == Init => LedgerInv
BY InitInd, EmptyAgrees DEF Init, LedgerInv, NoTx

\* Every step keeps it.
LEMMA LedgerNext == LedgerInv /\ [Next]_vars => LedgerInv'
<1> SUFFICES ASSUME LedgerInv, [Next]_vars, NEW c, PlainCoin(c)
             PROVE  Agrees(db', c) /\ Agrees(wtx', c)
    BY NextInd DEF LedgerInv, Agrees
<1>1. IndInv /\ Agrees(db, c) /\ Agrees(wtx, c) BY DEF LedgerInv
<1>2. db \in DbRecord /\ wtx \in DbRecord /\ Linked(db) /\ Linked(wtx)
    BY <1>1, DbIsRecord DEF IndInv, TypeOK, ProcessedIsChain
<1>3. \A b \in Blocks \ {Genesis} : CoinStep(b, c) BY PlainCoinStep
<1>4. ASSUME NEW e, ReachedInOneStep(e) PROVE Agrees(e, c)
    <2>1. CASE e \in {db, wtx, NoTx} BY <1>1, <2>1, EmptyAgrees DEF NoTx
    <2>2. CASE \E d \in {db, wtx} : CanRollbackTip(d) /\ e = UndoTip(d)
        BY <1>1, <1>2, <1>3, <2>2, UndoAgrees
    <2>3. CASE \E b \in Blocks \ {Genesis}, prev \in Blocks \cup {NoBlock} :
                 /\ ExtendsTip(db, b)
                 /\ Ops(b, prev) = Ops(b, Parent[b]) /\ Ops(b, prev) \in Seq(Op)
                 /\ e = ConnectBlock(db, b, prev)
        BY <1>1, <1>2, <1>3, <2>3, ConnectAgrees
    <2> QED BY <1>4, <2>1, <2>2, <2>3 DEF ReachedInOneStep
<1> QED BY <1>1, <1>4, DbSteps

\* Coins of the ledger are coins of the store.
LEMMA UnspentIsPartial ==
    ASSUME NEW b \in Blocks
    PROVE  /\ UnspentAt[b] = [c \in DOMAIN UnspentAt[b] |-> UnspentAt[b][c]]
           /\ DOMAIN UnspentAt[b] \subseteq Coin
<1>1. UnspentAt[b] = [c \in DOMAIN UnspentAt[b] |-> UnspentAt[b][c]] BY DEF UnspentAt, Unspent
<1>2. ASSUME NEW c \in DOMAIN UnspentAt[b] PROVE c \in Coin
    <2> DEFINE o == c[2]
    <2>1. IsCoin(c) /\ o \in OutputsOf(AppliedTxs(b)) BY AppliedAreTxs, UnspentMember
    <2>2. o = <<o[1], o[2]>> /\ o[1] \in Tx /\ o[2] \in DOMAIN TxOuts[o[1]]
        BY <2>1, OutputMember DEF IsCoin
    <2>3. o \in Outpoints /\ TxOuts[o[1]][o[2]].acct \in Accounts /\ Treasury \in Accounts
        BY <2>2, LedgerAssumption
    <2>4. OutAccount(o[1], o[2]) \in Accounts BY <2>3 DEF OutAccount
    <2> QED BY <2>1, <2>3, <2>4 DEF IsCoin, Coin
<1> QED BY <1>1, <1>2

\* Functions that agree everywhere are equal.
LEMMA SameEverywhere ==
    ASSUME NEW u, NEW v, u = [c \in DOMAIN u |-> u[c]], v = [c \in DOMAIN v |-> v[c]],
           \A c \in DOMAIN u \cup DOMAIN v : SameAt(u, v, c)
    PROVE  u = v
<1>1. DOMAIN u = DOMAIN v BY DEF SameAt
<1>2. \A c \in DOMAIN u : u[c] = v[c] BY DEF SameAt
<1> QED BY <1>1, <1>2

\* sync.go, the loops over IterateBlockOps: a coin that no block touches twice
\* is unspent in the database exactly when it is in the ledger of the processed
\* chain, with its value, whatever happens to the other coins.
THEOREM PlainCoinTheorem ==
    Spec => [](\A c \in Coin : PlainCoin(c) =>
                  SameAt(db.utxos, UnspentAt[LastProcessedBlock(db)], c))
<1>1. LedgerInv => \A c \in Coin : PlainCoin(c) =>
                      SameAt(db.utxos, UnspentAt[LastProcessedBlock(db)], c)
    BY DEF LedgerInv, Agrees
<1> QED BY <1>1, LedgerInit, LedgerNext, PTL DEF Spec

\* /account/coins: when no block touches an output twice, the recorded unspent
\* outputs are exactly those of the processed chain, with their amounts, through
\* every mix of reorgs, disapprovals, rollbacks and crashes.
THEOREM UtxoTheorem == (\A c \in Coin : PlainCoin(c)) => (Spec => []UtxosAreUnspent)
<1> SUFFICES ASSUME \A c \in Coin : PlainCoin(c) PROVE Spec => []UtxosAreUnspent OBVIOUS
<1>1. LedgerInv => UtxosAreUnspent
    <2> SUFFICES ASSUME LedgerInv PROVE UtxosAreUnspent OBVIOUS
    <2> DEFINE u == db.utxos
               v == UnspentAt[LastProcessedBlock(db)]
    <2>1. db \in DbRecord BY DbIsRecord DEF LedgerInv, IndInv, TypeOK
    <2>2. LastProcessedBlock(db) \in Blocks BY <2>1, LastProcessedType, BlockTreeAssumption
    <2>3. u = [c \in DOMAIN u |-> u[c]] /\ DOMAIN u \subseteq Coin
        BY <2>1 DEF DbRecord, Utxos
    <2>4. v = [c \in DOMAIN v |-> v[c]] /\ DOMAIN v \subseteq Coin BY <2>2, UnspentIsPartial
    <2>5. \A c \in DOMAIN u \cup DOMAIN v : SameAt(u, v, c)
        BY <2>3, <2>4 DEF LedgerInv, Agrees
    <2> HIDE DEF u, v
    <2>6. u = v BY <2>3, <2>4, <2>5, SameEverywhere
    <2> QED BY <2>6 DEF UtxosAreUnspent, u, v
<1> QED BY <1>1, LedgerInit, LedgerNext, PTL DEF Spec

-----------------------------------------------------------------------------
(* The account endpoints.                                                  *)

\* The requests change nothing that Run works with.
LEMMA ApiIsSync == ApiNext => [Next]_vars
BY DEF ApiNext, ApiStep, ResolveBalance, AnswerBalance, AccountCoins, Answered

\* A call that changes nothing leaves the synchronisation alone.
LEMMA ApiStutters == UNCHANGED apiVars => UNCHANGED vars /\ UNCHANGED call
BY DEF apiVars

\* What AccountCoins lists is the ledger of the block it names.
LEMMA ListedCoins ==
    ASSUME LedgerInv, NEW a \in Accounts, \A o \in Outpoints : PlainCoin(<<a, o>>)
    PROVE  LET b == IF LastHeight(db) = 0 THEN NoBlock ELSE LastProcessedBlock(db)
               unspent == IF b = NoBlock THEN << >> ELSE UnspentAt[b]
           IN  ListUtxos(db, a) = Restrict(unspent, {c \in DOMAIN unspent : c[1] = a})
<1> DEFINE u == db.utxos
           v == UnspentAt[LastProcessedBlock(db)]
           b == IF LastHeight(db) = 0 THEN NoBlock ELSE LastProcessedBlock(db)
           unspent == IF b = NoBlock THEN << >> ELSE UnspentAt[b]
<1>1. db \in DbRecord BY DbIsRecord DEF LedgerInv, IndInv, TypeOK
<1>2. LastProcessedBlock(db) \in Blocks BY <1>1, LastProcessedType, BlockTreeAssumption
<1>3. DOMAIN u \subseteq Coin BY <1>1 DEF DbRecord, Utxos
<1>4. DOMAIN v \subseteq Coin BY <1>2, UnspentIsPartial
<1>5. unspent = v
    <2>1. CASE LastHeight(db) = 0
        BY <1>1, <2>1, LastProcessedType, NothingUnspentYet
    <2>2. CASE LastHeight(db) # 0
        <3>1. b = LastProcessedBlock(db) /\ b # NoBlock BY <1>2, <2>2, BlockTreeAssumption
        <3> QED BY <3>1
    <2> QED BY <2>1, <2>2
<1>6. ASSUME NEW c \in DOMAIN u \cup DOMAIN v, c[1] = a PROVE SameAt(u, v, c)
    <2>1. c \in Coin BY <1>3, <1>4
    <2>2. c = <<a, c[2]>> /\ c[2] \in Outpoints BY <1>6, <2>1 DEF Coin
    <2>3. PlainCoin(c) BY <2>2
    <2> QED BY <2>3 DEF LedgerInv, Agrees
<1> DEFINE U == {c \in DOMAIN u : c[1] = a}
           V == {c \in DOMAIN v : c[1] = a}
<1> HIDE DEF u, v
<1>7. U = V BY <1>6 DEF SameAt
<1>8. \A c \in U : u[c] = v[c] BY <1>6 DEF SameAt
<1>9. Restrict(u, U) = Restrict(v, V) BY <1>7, <1>8 DEF Restrict
<1> HIDE DEF unspent
<1>10. ListUtxos(db, a) = Restrict(u, U) BY DEF ListUtxos, u
<1>11. Restrict(v, V) = Restrict(unspent, {c \in DOMAIN unspent : c[1] = a}) BY <1>5
<1> QED BY <1>9, <1>10, <1>11 DEF unspent

\* svc_account.go, AccountCoins: when no block touches an output of a queried
\* account twice, the coins of the account are listed under the block whose
\* ledger they are, whatever Run was doing when they were read.
THEOREM CoinsTheorem ==
    (\A c \in QueryAccounts \X Outpoints : PlainCoin(c)) => (ApiSpec => []CoinsMatchTheirBlock)
<1> SUFFICES ASSUME \A c \in QueryAccounts \X Outpoints : PlainCoin(c)
             PROVE  ApiSpec => []CoinsMatchTheirBlock
    OBVIOUS
<1> DEFINE ApiInv == LedgerInv /\ CoinsMatchTheirBlock
<1>1. ApiInit => ApiInv
    <2>1. call = NoCall => CoinsMatchTheirBlock BY DEF NoCall, CoinsMatchTheirBlock
    <2> QED BY <2>1, LedgerInit DEF ApiInit
<1>2. ApiInv /\ [ApiNext]_apiVars => ApiInv'
    <2> SUFFICES ASSUME LedgerInv, CoinsMatchTheirBlock, [ApiNext]_apiVars
                 PROVE  LedgerInv' /\ CoinsMatchTheirBlock'
        OBVIOUS
    <2>1. LedgerInv' BY LedgerNext, ApiIsSync, ApiStutters
    <2>2. CASE call' = call BY <2>1, <2>2 DEF CoinsMatchTheirBlock
    <2>3. CASE call' = NoCall BY <2>1, <2>3 DEF NoCall, CoinsMatchTheirBlock
    <2>4. ASSUME NEW a, NEW id, ResolveBalance(a, id) PROVE CoinsMatchTheirBlock'
        <3>1. call'.phase = "resolved" BY <2>4 DEF ResolveBalance
        <3> QED BY <3>1 DEF CoinsMatchTheirBlock
    <2>5. CASE AnswerBalance
        <3>1. call'.phase = "balance" BY <2>5 DEF AnswerBalance
        <3> QED BY <2>1, <3>1 DEF CoinsMatchTheirBlock
    <2>6. ASSUME NEW a \in QueryAccounts, AccountCoins(a) PROVE CoinsMatchTheirBlock'
        <3> DEFINE b == IF LastHeight(db) = 0 THEN NoBlock ELSE LastProcessedBlock(db)
                   unspent == IF b = NoBlock THEN << >> ELSE UnspentAt[b]
        <3>1. a \in Accounts /\ \A o \in Outpoints : PlainCoin(<<a, o>>) BY QueryAssumption
        <3>2. ListUtxos(db, a) = Restrict(unspent, {c \in DOMAIN unspent : c[1] = a})
            BY <3>1, ListedCoins
        <3>3. call' = [phase |-> "coins", acct |-> a, block |-> b, coins |-> ListUtxos(db, a)]
            BY <2>6 DEF AccountCoins
        <3> HIDE DEF b
        <3>4. call'.acct = a /\ call'.block = b /\ call'.coins = ListUtxos(db, a) BY <3>3
        <3> QED BY <3>2, <3>4 DEF CoinsMatchTheirBlock
    <2> QED BY <2>1, <2>2, <2>3, <2>4, <2>5, <2>6 DEF ApiNext, ApiStep, Answered, apiVars
<1>3. ApiInv => CoinsMatchTheirBlock OBVIOUS
<1> HIDE DEF ApiInv
<1> QED BY <1>1, <1>2, <1>3, PTL DEF ApiSpec

-----------------------------------------------------------------------------
(* What the operations of a transaction add up to.                         *)

\* The net amount of no operation and of one.
LEMMA NetAmountShort ==
    ASSUME NEW a
    PROVE  /\ NetAmount(<< >>, a) = 0
           /\ \A op \in Op : NetAmount(<<op>>, a) = IF op.acct = a THEN op.amt ELSE 0
<1>1. NetAmount(<< >>, a) = 0
    <2> DEFINE s == << >>
    <2>1. s \in Seq(Op) /\ Len(s) = 0 OBVIOUS
    <2> HIDE DEF s
    <2>2. PICK f \in [0..Len(s) -> Int] :
              /\ f[0] = 0
              /\ \A i \in 1..Len(s) : f[i] = f[i - 1] + (IF s[i].acct = a THEN s[i].amt ELSE 0)
              /\ NetAmount(s, a) = f[Len(s)]
        BY <2>1, NetAmountFold
    <2>3. NetAmount(s, a) = 0 BY <2>1, <2>2
    <2> QED BY <2>3 DEF s
<1>2. ASSUME NEW op \in Op PROVE NetAmount(<<op>>, a) = IF op.acct = a THEN op.amt ELSE 0
    <2> DEFINE s == <<op>>
    <2>1. s \in Seq(Op) /\ Len(s) = 1 /\ s[1] = op OBVIOUS
    <2> HIDE DEF s
    <2>2. PICK f \in [0..Len(s) -> Int] :
              /\ f[0] = 0
              /\ \A i \in 1..Len(s) : f[i] = f[i - 1] + (IF s[i].acct = a THEN s[i].amt ELSE 0)
              /\ NetAmount(s, a) = f[Len(s)]
        BY <2>1, NetAmountFold
    <2>3. 1 \in 1..Len(s) /\ 1 - 1 = 0 BY <2>1
    <2>4. f[1] = f[0] + (IF op.acct = a THEN op.amt ELSE 0) BY <2>1, <2>2, <2>3
    <2>5. op.amt \in Int BY DEF Op
    <2>6. NetAmount(s, a) = IF op.acct = a THEN op.amt ELSE 0 BY <2>1, <2>2, <2>4, <2>5
    <2> QED BY <2>6 DEF s
<1> QED BY <1>1, <1>2

\* The net amount of two lists of operations.
LEMMA NetAmountConcat ==
    ASSUME NEW s \in Seq(Op), NEW t \in Seq(Op), NEW a
    PROVE  NetAmount(s \o t, a) = NetAmount(s, a) + NetAmount(t, a)
<1> DEFINE r == s \o t
           n == Len(s)
           m == Len(t)
           w(op) == IF op.acct = a THEN op.amt ELSE 0
<1>1. /\ r \in Seq(Op) /\ Len(r) = n + m /\ n \in Nat /\ m \in Nat
      /\ \A i \in 1..n : r[i] = s[i]
      /\ \A i \in 1..m : r[n + i] = t[i]
    OBVIOUS
<1>2. PICK f \in [0..n -> Int] :
          /\ f[0] = 0 /\ \A i \in 1..n : f[i] = f[i - 1] + w(s[i])
          /\ NetAmount(s, a) = f[n]
    BY NetAmountFold
<1>3. PICK g \in [0..m -> Int] :
          /\ g[0] = 0 /\ \A i \in 1..m : g[i] = g[i - 1] + w(t[i])
          /\ NetAmount(t, a) = g[m]
    BY NetAmountFold
<1> HIDE DEF r
<1>4. PICK h \in [0..Len(r) -> Int] :
          /\ h[0] = 0 /\ \A i \in 1..Len(r) : h[i] = h[i - 1] + w(r[i])
          /\ NetAmount(r, a) = h[Len(r)]
    BY <1>1, NetAmountFold
<1> HIDE DEF n, m, w
<1> DEFINE G == {i \in 0..n : h[i] = f[i]}
           H == {i \in 0..m : h[n + i] = f[n] + g[i]}
<1>5. 0 \in G BY <1>1, <1>2, <1>4
<1>6. ASSUME NEW i \in 1..n, i - 1 \in G PROVE i \in G
    <2>1. i \in 1..Len(r) /\ i \in 0..n /\ h[i - 1] = f[i - 1] BY <1>1, <1>6
    <2>2. h[i] = h[i - 1] + w(s[i]) BY <1>1, <1>4, <2>1
    <2> QED BY <1>2, <2>1, <2>2
<1>7. h[n] = f[n]
    <2>1. 0..n \subseteq G
        <3> HIDE DEF G
        <3> QED BY <1>1, <1>5, <1>6, FiniteInduction
    <2>2. n \in 0..n BY <1>1
    <2> QED BY <2>1, <2>2
<1>8. f[n] \in Int BY <1>1, <1>2
<1>9. 0 \in H
    <2>1. n + 0 = n /\ f[n] + 0 = f[n] BY <1>1, <1>8
    <2>2. 0 \in 0..m BY <1>1
    <2> QED BY <1>3, <1>7, <2>1, <2>2
<1>10. ASSUME NEW i \in 1..m, i - 1 \in H PROVE i \in H
    <2>1. n + i \in 1..Len(r) /\ i \in 0..m /\ i - 1 \in 0..m /\ (n + i) - 1 = n + (i - 1) BY <1>1
    <2>2. h[n + i] = h[n + (i - 1)] + w(t[i]) BY <1>1, <1>4, <2>1
    <2>3. h[n + (i - 1)] = f[n] + g[i - 1] BY <1>10
    <2>4. g[i] = g[i - 1] + w(t[i]) /\ g[i - 1] \in Int BY <1>3, <2>1
    <2>5. w(t[i]) \in Int
        <3>1. t[i] \in Op BY DEF m
        <3> QED BY <3>1 DEF w, Op
    <2>6. h[n + i] = f[n] + g[i] BY <1>8, <2>2, <2>3, <2>4, <2>5
    <2> QED BY <2>1, <2>6
<1>11. h[n + m] = f[n] + g[m]
    <2>1. 0..m \subseteq H
        <3> HIDE DEF H
        <3> QED BY <1>1, <1>9, <1>10, FiniteInduction
    <2>2. m \in 0..m BY <1>1
    <2> QED BY <2>1, <2>2
<1> QED BY <1>1, <1>2, <1>3, <1>4, <1>11 DEF r

\* The net amount of many lists of operations.
LEMMA NetAmountFlatten ==
    ASSUME NEW n \in Nat, NEW s \in [1..n -> Seq(Op)], NEW a, NEW g,
           \A i \in 1..n : g[i] = NetAmount(s[i], a)
    PROVE  /\ IntegersOn(g, 1..n)
           /\ NetAmount(FlattenSeq(s), a) = SumFunctionOnSet(g, 1..n)
<1>1. PICK f : Joins(f, Op, n, s) /\ f[n] = FlattenSeq(s) BY FlattenSteps
<1>2. f \in [0..n -> Seq(Op)] /\ f[0] = << >> /\ \A i \in 1..n : f[i] = f[i - 1] \o s[i]
    BY <1>1 DEF Joins
<1>3. IntegersOn(g, 1..n) BY NetAmountType DEF IntegersOn
<1>4. /\ SumFunctionOnSet(g, 1..0) = 0
      /\ \A i \in 1..n : SumFunctionOnSet(g, 1..i) = SumFunctionOnSet(g, 1..(i - 1)) + g[i]
    BY <1>3, SumInterval
<1> DEFINE G == {k \in 0..n : NetAmount(f[k], a) = SumFunctionOnSet(g, 1..k)}
<1>5. 0 \in G
    <2>1. NetAmount(f[0], a) = 0 BY <1>2, NetAmountShort
    <2> QED BY <1>4, <2>1
<1>6. ASSUME NEW k \in 1..n, k - 1 \in G PROVE k \in G
    <2>1. k - 1 \in 0..n /\ k \in 0..n OBVIOUS
    <2>2. NetAmount(f[k - 1] \o s[k], a) = NetAmount(f[k - 1], a) + NetAmount(s[k], a)
        <3>1. f[k - 1] \in Seq(Op) /\ s[k] \in Seq(Op) BY <1>2, <2>1
        <3> QED BY <3>1, NetAmountConcat
    <2>3. f[k] = f[k - 1] \o s[k] BY <1>2
    <2>4. NetAmount(f[k - 1], a) = SumFunctionOnSet(g, 1..(k - 1)) BY <1>6
    <2>5. NetAmount(f[k], a) = SumFunctionOnSet(g, 1..k)
        <3>1. NetAmount(f[k], a) = SumFunctionOnSet(g, 1..(k - 1)) + g[k] BY <2>2, <2>3, <2>4
        <3> QED BY <1>4, <3>1
    <2> QED BY <2>1, <2>5
<1>7. n \in G
    <2>1. 0..n \subseteq G
        <3> HIDE DEF G
        <3> QED BY <1>5, <1>6, FiniteInduction
    <2>2. n \in 0..n OBVIOUS
    <2> HIDE DEF G
    <2> QED BY <2>1, <2>2
<1> QED BY <1>1, <1>3, <1>7

\* Reversing changes the sign.
Sign(st) == IF st = "reversed" THEN -1 ELSE 1

\* Reversing an operation changes the sign of its amount.
LEMMA SignedIs ==
    ASSUME NEW st
    PROVE  Sign(st) \in {1, -1} /\ \A x \in Int : Signed(st, x) = Sign(st) * x
BY DEF Signed, Sign

\* The debits of a transaction add up to what it takes from an account.
LEMMA DebitsAddUp ==
    ASSUME NEW b \in Blocks \ {Genesis}, NEW tree, NEW tx, NEW idx, Placed(b, tree, tx, idx),
           NEW st \in {"success", "reversed"}, NEW a
    PROVE  /\ TakenBy(tx, a) \in Int
           /\ NetAmount(DebitOps(tree, st, tx, idx), a) = -(Sign(st) * TakenBy(tx, a))
<1> DEFINE n == Len(TxIns[tx])
           D(i) == Debit(tree, st, tx, i)
           Skip(i) == SkipsInput(tree, tx, idx, i)
           s == [i \in 1..n |-> IF Skip(i) THEN << >> ELSE << D(i) >>]
           g == [i \in 1..n |-> NetAmount(s[i], a)]
           o(i) == TxIns[tx][i].outp
           v(i) == TxIns[tx][i].valueIn
           k == Sign(st)
<1>1. tx \in Tx /\ InputFacts(tree, tx, idx) /\ (TxType[tx] = "tspend" => Len(TxIns[tx]) = 1)
    BY PlacedFacts
<1>2. n \in Nat /\ DOMAIN TxIns[tx] = 1..n BY <1>1, TxSequences
<1>3. DebitOps(tree, st, tx, idx) = FlattenSeq(s) BY <1>2 DEF DebitOps
<1>4. \A i \in 1..n : /\ v(i) \in Int
                      /\ TxType[tx] # "tspend" => (o(i)[1] \notin Tx <=> Skip(i))
                      /\ TxType[tx] = "tspend" => ~Skip(i)
                      /\ o(i)[1] \in Tx => o(i)[2] \in DOMAIN TxOuts[o(i)[1]]
    BY <1>1, <1>2, ConsensusAssumption DEF InputFacts
<1>5. \A i \in 1..n : o(i)[1] \in Tx => PrevOutput(o(i)).value \in Int
    BY <1>4, ConsensusAssumption DEF PrevOutput
<1>6. \A i \in 1..n : ~Skip(i) =>
          /\ D(i) \in Op
          /\ TxType[tx] = "tspend" => D(i).acct = Treasury /\ D(i).amt = Signed(st, -v(i))
          /\ TxType[tx] # "tspend" => /\ D(i).acct = OutAccount(o(i)[1], o(i)[2])
                                      /\ D(i).amt = Signed(st, -PrevOutput(o(i)).value)
    BY <1>2, DebitIs
<1>7. k \in {1, -1} /\ \A x \in Int : Signed(st, -x) = -(k * x) BY SignedIs
<1> HIDE DEF n, D, Skip, o, v, k
<1>8. s \in [1..n -> Seq(Op)]
    <2>1. \A i \in 1..n : (IF Skip(i) THEN << >> ELSE << D(i) >>) \in Seq(Op) BY <1>6
    <2> QED BY <2>1
<1>9. \A i \in 1..n : s[i] = IF Skip(i) THEN << >> ELSE << D(i) >> OBVIOUS
<1> HIDE DEF s
<1>10. \A i \in 1..n : g[i] = NetAmount(s[i], a) OBVIOUS
<1> HIDE DEF g
<1>11. IntegersOn(g, 1..n) /\ NetAmount(FlattenSeq(s), a) = SumFunctionOnSet(g, 1..n)
    BY <1>2, <1>8, <1>10, NetAmountFlatten
<1>12. \A i \in 1..n : g[i] = IF Skip(i) THEN 0 ELSE IF D(i).acct = a THEN D(i).amt ELSE 0
    <2> SUFFICES ASSUME NEW i \in 1..n
                 PROVE  g[i] = IF Skip(i) THEN 0 ELSE IF D(i).acct = a THEN D(i).amt ELSE 0
        OBVIOUS
    <2>1. CASE Skip(i)
        <3>1. g[i] = NetAmount(<< >>, a) BY <1>9, <1>10, <2>1
        <3> QED BY <2>1, <3>1, NetAmountShort
    <2>2. CASE ~(Skip(i))
        <3>1. g[i] = NetAmount(<< D(i) >>, a) BY <1>9, <1>10, <2>2
        <3>2. D(i) \in Op BY <1>6, <2>2
        <3>3. NetAmount(<< D(i) >>, a) = IF D(i).acct = a THEN D(i).amt ELSE 0
            BY <3>2, NetAmountShort
        <3> QED BY <2>2, <3>1, <3>3
    <2> QED BY <2>1, <2>2
<1>13. CASE TxType[tx] = "tspend"
    <2>1. n = 1 /\ 1 \in 1..n /\ 1 - 1 = 0
        <3>1. n = 1 BY <1>1, <1>13 DEF n
        <3> QED BY <3>1
    <2>2. g[1] = IF Treasury = a THEN Signed(st, -v(1)) ELSE 0 BY <1>4, <1>6, <1>12, <1>13, <2>1
    <2>3. SumFunctionOnSet(g, 1..1) = SumFunctionOnSet(g, 1..0) + g[1]
          /\ SumFunctionOnSet(g, 1..0) = 0
        BY <1>2, <1>11, <2>1, SumInterval
    <2>4. TakenBy(tx, a) = IF a = Treasury THEN v(1) ELSE 0 BY <1>13 DEF TakenBy, v
    <2>5. v(1) \in Int /\ Signed(st, -v(1)) = -(k * v(1)) BY <1>4, <1>7, <2>1
    <2>6. SumFunctionOnSet(g, 1..n) = 0 + g[1] BY <2>1, <2>3
    <2>7. CASE k = 1
        BY <1>3, <1>11, <2>2, <2>4, <2>5, <2>6, <2>7 DEF k
    <2>8. CASE k = -1
        BY <1>3, <1>11, <2>2, <2>4, <2>5, <2>6, <2>8 DEF k
    <2> QED BY <1>7, <2>7, <2>8
<1>14. CASE TxType[tx] # "tspend"
    <2> DEFINE t == [i \in 1..n |-> IF o(i)[1] \in Tx /\ OutAccount(o(i)[1], o(i)[2]) = a
                                    THEN PrevOutput(o(i)).value ELSE 0]
    <2>1. TakenBy(tx, a) = SumFunctionOnSet(t, 1..n)
        BY <1>2, <1>14 DEF TakenBy, SumFunction, o
    <2>2. IntegersOn(t, 1..n) BY <1>5 DEF IntegersOn
    <2>3. \A i \in 1..n : t[i] = IF o(i)[1] \in Tx /\ OutAccount(o(i)[1], o(i)[2]) = a
                                 THEN PrevOutput(o(i)).value ELSE 0
        OBVIOUS
    <2> HIDE DEF t
    <2>4. -k \in {1, -1} BY <1>7
    <2>5. \A i \in 1..n : g[i] = (-k) * t[i]
        <3> SUFFICES ASSUME NEW i \in 1..n PROVE g[i] = (-k) * t[i] OBVIOUS
        <3>1. CASE Skip(i)
            <4>1. g[i] = 0 /\ t[i] = 0 BY <1>4, <1>12, <1>14, <2>3, <3>1
            <4> QED BY <1>7, <4>1
        <3>2. CASE ~Skip(i)
            <4>1. o(i)[1] \in Tx /\ PrevOutput(o(i)).value \in Int BY <1>4, <1>5, <1>14, <3>2
            <4>2. Signed(st, -PrevOutput(o(i)).value) = -(k * PrevOutput(o(i)).value) BY <1>7, <4>1
            <4>3. g[i] = IF OutAccount(o(i)[1], o(i)[2]) = a
                         THEN -(k * PrevOutput(o(i)).value) ELSE 0
                BY <1>6, <1>12, <1>14, <3>2, <4>2
            <4>4. t[i] = IF OutAccount(o(i)[1], o(i)[2]) = a THEN PrevOutput(o(i)).value ELSE 0
                BY <2>3, <4>1
            <4> QED BY <1>7, <4>1, <4>3, <4>4
        <3> QED BY <3>1, <3>2
    <2>6. IsFiniteSet(1..n) /\ SumFunctionOnSet(t, 1..n) \in Int BY <1>2, <2>2, SumInterval
    <2>7. SumFunctionOnSet(g, 1..n) = (-k) * SumFunctionOnSet(t, 1..n)
        <3> DEFINE j == -k
        <3>1. j \in {1, -1} /\ \A i \in 1..n : g[i] = j * t[i] BY <2>4, <2>5
        <3> HIDE DEF j
        <3>2. SumFunctionOnSet(g, 1..n) = j * SumFunctionOnSet(t, 1..n)
            BY <2>2, <2>6, <3>1, SumScaled
        <3> QED BY <3>2 DEF j
    <2>8. (-k) * SumFunctionOnSet(t, 1..n) = -(k * SumFunctionOnSet(t, 1..n)) BY <1>7, <2>6
    <2> QED BY <1>3, <1>11, <2>1, <2>6, <2>7, <2>8 DEF k
<1> QED BY <1>13, <1>14

\* Its credits add up to what it pays.
LEMMA CreditsAddUp ==
    ASSUME NEW b \in Blocks \ {Genesis}, NEW tree, NEW tx, NEW idx, Placed(b, tree, tx, idx),
           NEW st \in {"success", "reversed"}, NEW a
    PROVE  /\ PaidBy(tx, a) \in Int
           /\ NetAmount(CreditOps(tree, st, tx, idx), a) = Sign(st) * PaidBy(tx, a)
<1> DEFINE n == Len(TxOuts[tx])
           D(i) == Credit(tree, st, tx, idx, i)
           v(i) == TxOuts[tx][i].value
           s == [i \in 1..n |-> IF v(i) = 0 THEN << >> ELSE << D(i) >>]
           g == [i \in 1..n |-> NetAmount(s[i], a)]
           t == [i \in 1..n |-> IF OutAccount(tx, i) = a THEN v(i) ELSE 0]
           k == Sign(st)
<1>1. tx \in Tx BY PlacedFacts
<1>2. n \in Nat /\ DOMAIN TxOuts[tx] = 1..n BY <1>1, TxSequences
<1>3. CreditOps(tree, st, tx, idx) = FlattenSeq(s) BY <1>2 DEF CreditOps
<1>4. \A i \in 1..n : v(i) \in Int BY <1>1, <1>2, ConsensusAssumption
<1>5. \A i \in 1..n : /\ D(i) \in Op /\ D(i).acct = OutAccount(tx, i)
                      /\ D(i).amt = Signed(st, v(i))
    BY <1>2, CreditIs
<1>6. k \in {1, -1} /\ \A x \in Int : Signed(st, x) = k * x BY SignedIs
<1>7. PaidBy(tx, a) = SumFunctionOnSet(t, 1..n) BY <1>2 DEF PaidBy, SumFunction
<1> HIDE DEF n, D, v, k
<1>8. s \in [1..n -> Seq(Op)]
    <2>1. \A i \in 1..n : (IF v(i) = 0 THEN << >> ELSE << D(i) >>) \in Seq(Op) BY <1>5
    <2> QED BY <2>1
<1>9. \A i \in 1..n : s[i] = IF v(i) = 0 THEN << >> ELSE << D(i) >> OBVIOUS
<1> HIDE DEF s
<1>10. \A i \in 1..n : g[i] = NetAmount(s[i], a) OBVIOUS
<1> HIDE DEF g
<1>11. IntegersOn(g, 1..n) /\ NetAmount(FlattenSeq(s), a) = SumFunctionOnSet(g, 1..n)
    BY <1>2, <1>8, <1>10, NetAmountFlatten
<1>12. \A i \in 1..n : g[i] = IF v(i) = 0 THEN 0 ELSE IF D(i).acct = a THEN D(i).amt ELSE 0
    <2> SUFFICES ASSUME NEW i \in 1..n
                 PROVE  g[i] = IF v(i) = 0 THEN 0 ELSE IF D(i).acct = a THEN D(i).amt ELSE 0
        OBVIOUS
    <2>1. CASE v(i) = 0
        <3>1. g[i] = NetAmount(<< >>, a) BY <1>9, <1>10, <2>1
        <3> QED BY <2>1, <3>1, NetAmountShort
    <2>2. CASE ~(v(i) = 0)
        <3>1. g[i] = NetAmount(<< D(i) >>, a) BY <1>9, <1>10, <2>2
        <3>2. D(i) \in Op BY <1>5, <2>2
        <3>3. NetAmount(<< D(i) >>, a) = IF D(i).acct = a THEN D(i).amt ELSE 0
            BY <3>2, NetAmountShort
        <3> QED BY <2>2, <3>1, <3>3
    <2> QED BY <2>1, <2>2
<1>13. \A i \in 1..n : t[i] = IF OutAccount(tx, i) = a THEN v(i) ELSE 0 OBVIOUS
<1>14. IntegersOn(t, 1..n) BY <1>4 DEF IntegersOn
<1> HIDE DEF t
<1>15. \A i \in 1..n : g[i] = k * t[i]
    <2> SUFFICES ASSUME NEW i \in 1..n PROVE g[i] = k * t[i] OBVIOUS
    <2>1. v(i) \in Int /\ Signed(st, v(i)) = k * v(i) BY <1>4, <1>6
    <2>2. g[i] = IF v(i) = 0 THEN 0 ELSE IF OutAccount(tx, i) = a THEN k * v(i) ELSE 0
        BY <1>5, <1>12, <2>1
    <2>3. t[i] = IF OutAccount(tx, i) = a THEN v(i) ELSE 0 BY <1>13
    <2> QED BY <1>6, <2>1, <2>2, <2>3
<1>16. IsFiniteSet(1..n) /\ SumFunctionOnSet(t, 1..n) \in Int BY <1>2, <1>14, SumInterval
<1>17. SumFunctionOnSet(g, 1..n) = k * SumFunctionOnSet(t, 1..n)
    BY <1>6, <1>14, <1>15, <1>16, SumScaled
<1> QED BY <1>3, <1>7, <1>11, <1>16, <1>17 DEF k

\* What a transaction is worth to an account.
Worth(a) == [t \in Tx |-> PaidBy(t, a) - TakenBy(t, a)]

\* The operations of a transaction add up to what it is worth to the account.
LEMMA TxAddsUp ==
    ASSUME NEW b \in Blocks \ {Genesis}, NEW tree, NEW tx, NEW idx, Placed(b, tree, tx, idx),
           NEW st \in {"success", "reversed"}, NEW a
    PROVE  /\ tx \in Tx /\ Worth(a)[tx] \in Int
           /\ NetAmount(TxOps(tree, st, tx, idx), a) = Sign(st) * Worth(a)[tx]
<1> DEFINE d == DebitOps(tree, st, tx, idx)
           c == CreditOps(tree, st, tx, idx)
           k == Sign(st)
           p == PaidBy(tx, a)
           q == TakenBy(tx, a)
<1>1. tx \in Tx BY PlacedFacts
<1>2. Worth(a)[tx] = p - q BY <1>1 DEF Worth
<1>3. d \in Seq(Op) /\ c \in Seq(Op) BY DebitOpsAre, CreditOpsAre
<1>4. q \in Int /\ NetAmount(d, a) = -(k * q) BY DebitsAddUp
<1>5. p \in Int /\ NetAmount(c, a) = k * p BY CreditsAddUp
<1>6. TxOps(tree, st, tx, idx) = IF st = "success" THEN d \o c ELSE c \o d BY DEF TxOps
<1>7. k \in {1, -1} BY SignedIs
<1> HIDE DEF d, c, k, p, q
<1>8. /\ NetAmount(d \o c, a) = NetAmount(d, a) + NetAmount(c, a)
      /\ NetAmount(c \o d, a) = NetAmount(c, a) + NetAmount(d, a)
    BY <1>3, NetAmountConcat
<1>9. NetAmount(TxOps(tree, st, tx, idx), a) = -(k * q) + k * p
    <2>1. NetAmount(d, a) \in Int /\ NetAmount(c, a) \in Int BY <1>3, NetAmountType
    <2>2. NetAmount(d \o c, a) = NetAmount(c \o d, a) BY <1>8, <2>1
    <2>3. NetAmount(TxOps(tree, st, tx, idx), a) = NetAmount(d \o c, a) BY <1>6, <2>2
    <2> QED BY <1>4, <1>5, <1>8, <2>3
<1>10. -(k * q) + k * p = k * (p - q)
    <2>1. CASE k = 1 BY <1>4, <1>5, <2>1
    <2>2. CASE k = -1 BY <1>4, <1>5, <2>2
    <2> QED BY <1>7, <2>1, <2>2
<1> QED BY <1>1, <1>2, <1>4, <1>5, <1>9, <1>10 DEF k

-----------------------------------------------------------------------------
(* What the operations of a block add up to.                               *)

\* The same for one tree of a block.
LEMMA TreeAddsUp ==
    ASSUME NEW b \in Blocks \ {Genesis}, NEW tree \in {"regular", "stake"}, NEW txs \in Seq(Tx),
           IsInjective(txs), \A idx \in DOMAIN txs : Placed(b, tree, txs[idx], idx),
           NEW st \in {"success", "reversed"}, NEW a
    PROVE  /\ IsFiniteSet(Range(txs)) /\ IntegersOn(Worth(a), Range(txs))
           /\ NetAmount(ApplyTxs(tree, st, txs), a)
                = Sign(st) * SumFunctionOnSet(Worth(a), Range(txs))
<1> DEFINE n == Len(txs)
           R(i) == TxOps(tree, st, txs[i], i)
           s == [i \in 1..n |-> R(i)]
           g == [i \in 1..n |-> NetAmount(s[i], a)]
           w == [i \in 1..n |-> Worth(a)[txs[i]]]
           k == Sign(st)
<1>1. n \in Nat /\ DOMAIN txs = 1..n OBVIOUS
<1>2. ApplyTxs(tree, st, txs) = FlattenSeq(s) BY <1>1 DEF ApplyTxs
<1>3. \A i \in 1..n : /\ R(i) \in Seq(Op) /\ Worth(a)[txs[i]] \in Int
                      /\ NetAmount(R(i), a) = k * Worth(a)[txs[i]]
    BY <1>1, TxOpsAre, TxAddsUp
<1>4. k \in {1, -1} BY SignedIs
<1>5. IntegersOn(Worth(a), Range(txs)) BY <1>1, <1>3 DEF IntegersOn, Range
<1> HIDE DEF R, k
<1>6. s \in [1..n -> Seq(Op)] /\ \A i \in 1..n : s[i] = R(i) BY <1>3
<1> HIDE DEF s
<1>7. \A i \in 1..n : g[i] = NetAmount(s[i], a) /\ w[i] = Worth(a)[txs[i]] OBVIOUS
<1> HIDE DEF g, w
<1>8. \A i \in 1..n : g[i] = k * w[i] BY <1>3, <1>6, <1>7
<1>9. IntegersOn(w, 1..n) BY <1>3, <1>7 DEF IntegersOn
<1>10. IsFiniteSet(1..n) BY <1>1, <1>9, SumInterval
<1>11. NetAmount(FlattenSeq(s), a) = SumFunctionOnSet(g, 1..n)
    <2> HIDE DEF n
    <2> QED BY <1>1, <1>6, <1>7, NetAmountFlatten
<1>12. SumFunctionOnSet(g, 1..n) = k * SumFunctionOnSet(w, 1..n)
    <2> HIDE DEF n
    <2> QED BY <1>4, <1>8, <1>9, <1>10, SumScaled
<1>13. /\ IsFiniteSet(Range(txs))
       /\ SumFunctionOnSet(w, 1..n) = SumFunctionOnSet(Worth(a), Range(txs))
    <2> DEFINE T == Range(txs)
               f == Worth(a)
    <2>1. txs \in Seq(T) BY <1>1 DEF Range
    <2>2. \A i \in 1..Len(txs) : w[i] = f[txs[i]] BY <1>7
    <2>3. IntegersOn(f, T) BY <1>5
    <2> HIDE DEF f, T
    <2>4. IsFiniteSet(Range(txs))
          /\ SumFunctionOnSet(w, 1..Len(txs)) = SumFunctionOnSet(f, Range(txs))
        BY <2>1, <2>2, <2>3, SumSequence
    <2> QED BY <2>4 DEF f
<1> QED BY <1>2, <1>5, <1>11, <1>12, <1>13 DEF k

\* The transactions around a block are finitely many, and each has its worth.
Countable(a, txs) == IsFiniteSet(txs) /\ IntegersOn(Worth(a), txs)

\* The same for a block, less the tree it disapproves.
LEMMA BlockAddsUp ==
    ASSUME NEW b \in Blocks \ {Genesis}, NEW a
    PROVE  /\ Countable(a, Mined(b)) /\ Countable(a, Reversed(b))
           /\ NetAmount(Ops(b, Parent[b]), a)
                = SumFunctionOnSet(Worth(a), Mined(b)) - SumFunctionOnSet(Worth(a), Reversed(b))
<1> DEFINE p == Parent[b]
           f == Worth(a)
           rev == ApplyTxs("regular", "reversed", Regular[p])
           reg == ApplyTxs("regular", "success", Regular[b])
           stk == ApplyTxs("stake", "success", Stake[b])
           first == IF Approves[b] THEN << >> ELSE rev
           A == Range(Regular[b])
           B == Range(Stake[b])
           C == Reversed(b)
<1>1. Ops(b, p) = first \o reg \o stk
    <2>1. Height[b] # 0 BY BlockTreeAssumption
    <2> QED BY <2>1, LedgerAssumption DEF IterateBlockOps
<1>2. Sign("success") = 1 /\ Sign("reversed") = -1 BY DEF Sign
<1>3. /\ reg \in Seq(Op) /\ IsFiniteSet(A) /\ IntegersOn(f, A)
      /\ NetAmount(reg, a) = Sign("success") * SumFunctionOnSet(f, A)
    <2>1. Regular[b] \in Seq(Tx) /\ IsInjective(Regular[b])
        BY ConsensusAssumption DEF WellPlaced
    <2>2. \A idx \in DOMAIN Regular[b] : Placed(b, "regular", Regular[b][idx], idx) BY DEF Placed
    <2> QED BY <2>1, <2>2, ApplyTxsAre, TreeAddsUp
<1>4. /\ stk \in Seq(Op) /\ IsFiniteSet(B) /\ IntegersOn(f, B)
      /\ NetAmount(stk, a) = Sign("success") * SumFunctionOnSet(f, B)
    <2>1. Stake[b] \in Seq(Tx) /\ IsInjective(Stake[b])
        BY ConsensusAssumption DEF WellPlaced
    <2>2. \A idx \in DOMAIN Stake[b] : Placed(b, "stake", Stake[b][idx], idx) BY DEF Placed
    <2> QED BY <2>1, <2>2, ApplyTxsAre, TreeAddsUp
<1>5. ASSUME ~Approves[b]
      PROVE  LET D == Range(Regular[p]) IN
             /\ rev \in Seq(Op) /\ IsFiniteSet(D) /\ IntegersOn(f, D)
             /\ NetAmount(rev, a) = Sign("reversed") * SumFunctionOnSet(f, D)
    <2>1. p \in Blocks \ {Genesis} BY <1>5, BlockTreeAssumption
    <2>2. Regular[p] \in Seq(Tx) /\ IsInjective(Regular[p])
        BY <2>1, ConsensusAssumption DEF WellPlaced
    <2>3. \A idx \in DOMAIN Regular[p] : Placed(p, "regular", Regular[p][idx], idx) BY DEF Placed
    <2> QED BY <2>1, <2>2, <2>3, ApplyTxsAre, TreeAddsUp
<1> HIDE DEF rev, reg, stk, f
<1>6. /\ first \in Seq(Op) /\ IsFiniteSet(C) /\ IntegersOn(f, C)
      /\ NetAmount(first, a) = Sign("reversed") * SumFunctionOnSet(f, C)
    <2>1. CASE Approves[b]
        <3>1. first = << >> /\ C = {} BY <2>1 DEF Reversed
        <3>2. IsFiniteSet({}) /\ IntegersOn(f, {}) BY FS_EmptySet DEF IntegersOn
        <3>3. SumFunctionOnSet(f, {}) = 0 BY SumEmpty
        <3>4. NetAmount(<< >>, a) = 0 BY NetAmountShort
        <3>5. << >> \in Seq(Op) OBVIOUS
        <3>6. Sign("reversed") * 0 = 0 BY <1>2
        <3> QED BY <3>1, <3>2, <3>3, <3>4, <3>5, <3>6
    <2>2. CASE ~Approves[b]
        <3>1. first = rev /\ C = Range(Regular[p]) BY <2>2 DEF Reversed
        <3> QED BY <1>5, <2>2, <3>1
    <2> QED BY <2>1, <2>2
<1> HIDE DEF first, C
<1>7. NetAmount(Ops(b, p), a) = NetAmount(first, a) + NetAmount(reg, a) + NetAmount(stk, a)
    <2> DEFINE head == first \o reg
    <2>1. NetAmount(head, a) = NetAmount(first, a) + NetAmount(reg, a) BY <1>3, <1>6, NetAmountConcat
    <2>2. head \in Seq(Op) BY <1>3, <1>6
    <2>3. Ops(b, p) = head \o stk BY <1>1
    <2> HIDE DEF head
    <2>4. NetAmount(head \o stk, a) = NetAmount(head, a) + NetAmount(stk, a)
        BY <1>4, <2>2, NetAmountConcat
    <2> QED BY <2>1, <2>3, <2>4
<1>8. A \cap B = {} BY TreesDiffer
<1> HIDE DEF A, B
<1>9. /\ SumFunctionOnSet(f, A \cup B) = SumFunctionOnSet(f, A) + SumFunctionOnSet(f, B)
      /\ IsFiniteSet(A \cup B) /\ IntegersOn(f, A \cup B)
    <2>1. SumFunctionOnSet(f, A \cup B) = SumFunctionOnSet(f, A) + SumFunctionOnSet(f, B)
        BY <1>3, <1>4, <1>8, SumUnion
    <2>2. IsFiniteSet(A \cup B) BY <1>3, <1>4, FS_Union
    <2>3. IntegersOn(f, A \cup B) BY <1>3, <1>4 DEF IntegersOn
    <2> QED BY <2>1, <2>2, <2>3
<1>10. /\ SumFunctionOnSet(f, A) \in Int /\ SumFunctionOnSet(f, B) \in Int
       /\ SumFunctionOnSet(f, C) \in Int
    BY <1>3, <1>4, <1>6, SumType
<1>11. NetAmount(Ops(b, p), a) = SumFunctionOnSet(f, A \cup B) - SumFunctionOnSet(f, C)
    <2> DEFINE x == SumFunctionOnSet(f, A)
               y == SumFunctionOnSet(f, B)
               z == SumFunctionOnSet(f, C)
    <2>1. x \in Int /\ y \in Int /\ z \in Int BY <1>10
    <2>2. NetAmount(Ops(b, p), a) = (-1) * z + 1 * x + 1 * y BY <1>2, <1>3, <1>4, <1>6, <1>7
    <2> HIDE DEF x, y, z
    <2>3. (-1) * z + 1 * x + 1 * y = (x + y) - z BY <2>1
    <2> QED BY <1>9, <2>2, <2>3 DEF x, y, z
<1>12. Mined(b) = A \cup B BY DEF Mined, A, B
<1> QED BY <1>6, <1>9, <1>11, <1>12 DEF Countable, f, C

\* The transactions in force are finitely many.
LEMMA AppliedCountable == \A b \in Blocks : \A a : Countable(a, AppliedTxs(b))
<1> DEFINE G == {b \in Blocks : \A a : Countable(a, AppliedTxs(b))}
<1>1. Genesis \in G
    <2>1. \A a : Countable(a, {}) BY FS_EmptySet DEF Countable, IntegersOn
    <2>2. Genesis \in Blocks BY BlockTreeAssumption
    <2> QED BY <2>1, <2>2, AppliedGenesis
<1>2. ASSUME NEW b \in Blocks \ {Genesis}, Parent[b] \in G PROVE b \in G
    <2> SUFFICES ASSUME NEW a PROVE Countable(a, AppliedTxs(b)) OBVIOUS
    <2> DEFINE B == Below(b)
               M == Mined(b)
    <2>1. Countable(a, AppliedTxs(Parent[b])) BY <1>2
    <2>2. B \subseteq AppliedTxs(Parent[b]) BY DEF Below
    <2>3. Countable(a, M) BY BlockAddsUp
    <2> HIDE DEF B, M
    <2>4. IsFiniteSet(B) BY <2>1, <2>2, FS_Subset DEF Countable
    <2>5. IsFiniteSet(B \cup M) BY <2>3, <2>4, FS_Union DEF Countable
    <2>6. IntegersOn(Worth(a), B \cup M) BY <2>1, <2>2, <2>3 DEF Countable, IntegersOn
    <2>7. AppliedTxs(b) = B \cup M BY AppliedStep DEF B, M
    <2> QED BY <2>5, <2>6, <2>7 DEF Countable
<1>3. Blocks \subseteq G
    <2> HIDE DEF G
    <2> QED BY <1>1, <1>2, BlockInduction
<1> QED BY <1>3

\* A block changes the balance of the ledger by what its operations add up to.
LEMMA LedgerStep ==
    ASSUME NEW b \in Blocks \ {Genesis}, NEW a
    PROVE  /\ LedgerBalance(Parent[b], a) \in Int
           /\ LedgerBalance(b, a) = LedgerBalance(Parent[b], a) + NetAmount(Ops(b, Parent[b]), a)
<1> DEFINE p == Parent[b]
           f == Worth(a)
           B == Below(b)
           M == Mined(b)
           R == Reversed(b)
<1>1. p \in Blocks BY BlockTreeAssumption
<1>2. ASSUME NEW c \in Blocks PROVE LedgerBalance(c, a) = SumFunctionOnSet(f, AppliedTxs(c))
    <2> DEFINE A == AppliedTxs(c)
               g == [t \in A |-> PaidBy(t, a) - TakenBy(t, a)]
    <2>1. LedgerBalance(c, a) = SumFunctionOnSet(g, A) BY DEF LedgerBalance, SumFunction
    <2>2. A \subseteq Tx /\ Countable(a, A) BY AppliedAreTxs, AppliedCountable
    <2>3. \A t \in A : g[t] = f[t] BY <2>2 DEF Worth
    <2> HIDE DEF g, f, A
    <2>4. SumFunctionOnSet(g, A) = SumFunctionOnSet(f, A) BY <2>2, <2>3, SumAgree DEF Countable
    <2> QED BY <2>1, <2>4 DEF A
<1>3. AppliedTxs(b) = B \cup M /\ AppliedTxs(p) = B \cup R BY AppliedStep, AppliedParent
<1>4. /\ IsFiniteSet(B) /\ IntegersOn(f, B)
      /\ IsFiniteSet(M) /\ IntegersOn(f, M) /\ IsFiniteSet(R) /\ IntegersOn(f, R)
    <2>1. Countable(a, AppliedTxs(p)) BY <1>1, AppliedCountable
    <2>2. Countable(a, M) /\ Countable(a, R) BY BlockAddsUp
    <2>3. B \subseteq AppliedTxs(p) BY DEF Below
    <2> HIDE DEF B, M, R, f
    <2>4. IsFiniteSet(B) BY <2>1, <2>3, FS_Subset DEF Countable
    <2> QED BY <2>1, <2>2, <2>3, <2>4 DEF Countable, IntegersOn, f
<1>5. B \cap M = {} /\ B \cap R = {} BY AroundBlock
<1>6. NetAmount(Ops(b, p), a) = SumFunctionOnSet(f, M) - SumFunctionOnSet(f, R) BY BlockAddsUp
<1> HIDE DEF B, M, R, f
<1>7. SumFunctionOnSet(f, B \cup M) = SumFunctionOnSet(f, B) + SumFunctionOnSet(f, M)
    BY <1>4, <1>5, SumUnion
<1>8. SumFunctionOnSet(f, B \cup R) = SumFunctionOnSet(f, B) + SumFunctionOnSet(f, R)
    BY <1>4, <1>5, SumUnion
<1>9. /\ SumFunctionOnSet(f, B) \in Int /\ SumFunctionOnSet(f, M) \in Int
      /\ SumFunctionOnSet(f, R) \in Int
    BY <1>4, SumType
<1>10. LedgerBalance(b, a) = SumFunctionOnSet(f, B) + SumFunctionOnSet(f, M)
    BY <1>2, <1>3, <1>7
<1>11. LedgerBalance(p, a) = SumFunctionOnSet(f, B) + SumFunctionOnSet(f, R)
    BY <1>1, <1>2, <1>3, <1>8
<1> QED BY <1>6, <1>9, <1>10, <1>11

-----------------------------------------------------------------------------
(* The balances of every reachable database.                               *)

\* Nobody has a balance at genesis.
LEMMA NothingPaidYet == \A a : LedgerBalance(Genesis, a) = 0
<1> TAKE a
<1>1. LedgerBalance(Genesis, a)
        = SumFunctionOnSet([t \in AppliedTxs(Genesis) |-> PaidBy(t, a) - TakenBy(t, a)],
                           AppliedTxs(Genesis))
    BY DEF LedgerBalance, SumFunction
<1> QED BY <1>1, AppliedGenesis, SumEmpty

\* Balances that add up block by block are those of the ledger.
LEMMA LedgerHistory ==
    ASSUME NEW d \in DbRecord, Linked(d), AddsUp(d), NEW a \in Accounts
    PROVE  /\ Balance(d, a, 0) = LedgerBalance(Genesis, a)
           /\ \A h \in 1..LastHeight(d) : Balance(d, a, h) = LedgerBalance(d.processed[h], a)
<1> DEFINE n == LastHeight(d)
           B(h) == IF h = 0 THEN Genesis ELSE d.processed[h]
           G == {h \in 0..n : Balance(d, a, h) = LedgerBalance(B(h), a)}
<1>1. n \in Nat /\ DOMAIN d.processed = 1..n /\ \A h \in 1..n : d.processed[h] \in Blocks \ {Genesis}
    BY DEF LastHeight, DbRecord
<1>2. Balance(d, a, 0) = LedgerBalance(Genesis, a)
    <2>1. RecordedHeights(d, a, 0) = {} BY DEF RecordedHeights
    <2> QED BY <2>1, NothingPaidYet DEF Balance
<1>3. \A h \in 1..n : Parent[d.processed[h]] = B(h - 1) BY <1>1 DEF Linked
<1>4. \A h \in 1..n : B(h) = d.processed[h] BY <1>1
<1>5. B(0) = Genesis OBVIOUS
<1>6. \A h \in 1..n : Balance(d, a, h) = Balance(d, a, h - 1)
                          + NetAmount(Ops(d.processed[h], Parent[d.processed[h]]), a)
    BY DEF AddsUp
<1> HIDE DEF n, B
<1>7. 0 \in G BY <1>1, <1>2, <1>5
<1>8. ASSUME NEW h \in 1..n, h - 1 \in G PROVE h \in G
    <2> DEFINE b == d.processed[h]
    <2>1. b \in Blocks \ {Genesis} BY <1>1
    <2>2. LedgerBalance(b, a) = LedgerBalance(Parent[b], a) + NetAmount(Ops(b, Parent[b]), a)
        BY <2>1, LedgerStep
    <2>3. Balance(d, a, h - 1) = LedgerBalance(Parent[b], a) BY <1>3, <1>8
    <2>4. Balance(d, a, h) = Balance(d, a, h - 1) + NetAmount(Ops(b, Parent[b]), a) BY <1>6
    <2>5. Balance(d, a, h) = LedgerBalance(b, a) BY <2>2, <2>3, <2>4
    <2>6. h \in 0..n BY <1>1
    <2> QED BY <1>4, <2>5, <2>6
<1>9. 0..n \subseteq G
    <2> HIDE DEF G
    <2> QED BY <1>1, <1>7, <1>8, FiniteInduction
<1>10. ASSUME NEW h \in 1..n PROVE Balance(d, a, h) = LedgerBalance(d.processed[h], a)
    <2>1. h \in 0..n BY <1>1
    <2>2. Balance(d, a, h) = LedgerBalance(B(h), a) BY <1>9, <2>1
    <2> QED BY <1>4, <2>2
<1> QED BY <1>2, <1>10 DEF n

\* What the invariant says of the database.
LEMMA BalanceFacts ==
    ASSUME BalanceInv
    PROVE  db \in DbRecord /\ Linked(db) /\ AddsUp(db)
BY DbIsRecord DEF BalanceInv, IndInv, TypeOK, ProcessedIsChain

\* /account/balance: at every processed height the balance of every account, the
\* treasury included, is what the transactions in force at that block of the
\* chain pay it and take from it, through every mix of reorgs, disapprovals,
\* rollbacks and crashes.
THEOREM LedgerTheorem == Spec => []BalancesAreLedger
<1>1. BalanceInv => BalancesAreLedger
    <2> SUFFICES ASSUME BalanceInv, NEW a \in Accounts, NEW h \in 1..LastHeight(db)
                 PROVE  Balance(db, a, h) = LedgerBalanceAt[db.processed[h]][a]
        BY DEF BalancesAreLedger
    <2>1. db \in DbRecord /\ Linked(db) /\ AddsUp(db) BY BalanceFacts
    <2>2. Balance(db, a, h) = LedgerBalance(db.processed[h], a) BY <2>1, LedgerHistory
    <2>3. db.processed[h] \in Blocks BY <2>1 DEF DbRecord, LastHeight
    <2> QED BY <2>2, <2>3 DEF LedgerBalanceAt
<1> QED BY <1>1, BalanceInit, BalanceNext, PTL DEF Spec

\* A request for a balance is about one of the queried accounts.
CallInv == BalanceInv /\ (call.phase = "resolved" => call.acct \in QueryAccounts)

\* The invariant holds before the first call.
LEMMA CallInit == ApiInit => CallInv
<1>1. call = NoCall => call.phase # "resolved" BY DEF NoCall
<1> QED BY <1>1, BalanceInit DEF ApiInit, CallInv

\* Every step of the synchronisation and of a call keeps it.
LEMMA CallNext == CallInv /\ [ApiNext]_apiVars => CallInv'
<1> SUFFICES ASSUME CallInv, [ApiNext]_apiVars PROVE CallInv' OBVIOUS
<1>1. BalanceInv' BY BalanceNext, ApiIsSync, ApiStutters DEF CallInv
<1> DEFINE Asked == call'.phase = "resolved" => call'.acct \in QueryAccounts
<1> SUFFICES Asked BY <1>1 DEF CallInv
<1>2. CASE call' = call BY <1>2 DEF CallInv
<1>3. CASE call' = NoCall BY <1>3 DEF NoCall
<1>4. ASSUME NEW a \in QueryAccounts, NEW id, ResolveBalance(a, id) PROVE Asked
    BY <1>4 DEF ResolveBalance
<1>5. CASE AnswerBalance
    <2>1. call'.phase = "balance" BY <1>5 DEF AnswerBalance
    <2> QED BY <2>1
<1>6. ASSUME NEW a \in QueryAccounts, AccountCoins(a) PROVE Asked
    <2>1. call'.phase = "coins" BY <1>6 DEF AccountCoins
    <2> QED BY <2>1
<1> HIDE DEF Asked
<1> QED BY <1>2, <1>3, <1>4, <1>5, <1>6 DEF ApiNext, ApiStep, Answered, apiVars

\* svc_account.go, AccountBalance: the block is resolved in one view of the
\* database and the balance read in another, with any steps of Run in between;
\* the answer is right for its block as long as that block is on the processed
\* chain when the balance is read.
THEOREM BalanceAnswerTheorem == ApiSpec => BalanceOfProcessedBlock
<1> DEFINE Right ==
        call.phase = "resolved" /\ call'.phase = "balance"
        /\ call.block \in Range(db.processed) \cup {Genesis}
        => call'.amount = LedgerBalanceAt[call.block][call.acct]
<1>1. CallInv /\ [ApiNext]_apiVars => [Right]_apiVars
    <2> SUFFICES ASSUME CallInv, ApiNext, call.phase = "resolved", call'.phase = "balance",
                        call.block \in Range(db.processed) \cup {Genesis}
                 PROVE  call'.amount = LedgerBalanceAt[call.block][call.acct]
        OBVIOUS
    <2> DEFINE a == call.acct
               b == call.block
    <2>1. a \in Accounts BY QueryAssumption DEF CallInv
    <2>2. db \in DbRecord /\ Linked(db) /\ AddsUp(db) BY BalanceFacts DEF CallInv
    <2>3. call'.amount = Balance(db, a, Height[b])
        <3>1. ASSUME call' = call \/ call' = NoCall PROVE FALSE BY <3>1 DEF NoCall
        <3>2. ASSUME NEW x, NEW id, ResolveBalance(x, id) PROVE FALSE
            <4>1. call'.phase = "resolved" BY <3>2 DEF ResolveBalance
            <4> QED BY <4>1
        <3>3. ASSUME NEW x, AccountCoins(x) PROVE FALSE
            <4>1. call'.phase = "coins" BY <3>3 DEF AccountCoins
            <4> QED BY <4>1
        <3>4. AnswerBalance BY <3>1, <3>2, <3>3 DEF ApiNext, ApiStep, Answered
        <3> QED BY <3>4 DEF AnswerBalance
    <2>4. Balance(db, a, Height[b]) = LedgerBalance(b, a)
        <3>1. CASE b = Genesis
            <4>1. Height[b] = 0 BY <3>1, BlockTreeAssumption
            <4> QED BY <2>1, <2>2, <3>1, <4>1, LedgerHistory
        <3>2. CASE b \in Range(db.processed)
            <4>1. PICK h \in DOMAIN db.processed : b = db.processed[h] BY <3>2 DEF Range
            <4>2. h \in 1..LastHeight(db) BY <2>2, <4>1 DEF DbRecord, LastHeight
            <4>3. Height[b] = h BY <2>2, <4>1 DEF Linked
            <4> QED BY <2>1, <2>2, <4>1, <4>2, <4>3, LedgerHistory
        <3> QED BY <3>1, <3>2
    <2>5. b \in Blocks
        BY <2>2, BlockTreeAssumption DEF DbRecord, Range
    <2> QED BY <2>1, <2>3, <2>4, <2>5 DEF LedgerBalanceAt
<1>2. ApiSpec => []CallInv BY CallInit, CallNext, PTL DEF ApiSpec
<1>3. ApiSpec => [][Right]_apiVars BY <1>1, <1>2, PTL DEF ApiSpec
<1> QED BY <1>3 DEF BalanceOfProcessedBlock

-----------------------------------------------------------------------------
(* Coins and balances.                                                     *)

\* The coins of an account, and what they add up to.
CoinsOf(u, a) == {c \in DOMAIN u : c[1] = a}
TotalOf(u, a) == SumFunctionOnSet(u, CoinsOf(u, a))

\* Two sets of unspent outputs with the same coins of an account.
LEMMA SameTotal ==
    ASSUME NEW u, NEW v, NEW a, IsFiniteSet(CoinsOf(u, a)),
           \A c : c[1] = a => SameAt(u, v, c)
    PROVE  CoinsOf(v, a) = CoinsOf(u, a) /\ TotalOf(v, a) = TotalOf(u, a)
<1>1. CoinsOf(v, a) = CoinsOf(u, a) BY DEF CoinsOf, SameAt
<1>2. \A c \in CoinsOf(u, a) : v[c] = u[c] BY DEF CoinsOf, SameAt
<1>3. SumFunctionOnSet(v, CoinsOf(u, a)) = SumFunctionOnSet(u, CoinsOf(u, a))
    BY <1>2, SumAgree
<1> QED BY <1>1, <1>3 DEF TotalOf

\* An operation that creates a coin that is not there, or spends one that is,
\* changes the total of its account by its amount.
LEMMA TotalStep ==
    ASSUME NEW u \in Utxos, NEW op \in Op, NEW a, IsFiniteSet(CoinsOf(u, a)),
           op.acct = a => IF Creates(op) THEN CoinOf(op) \notin DOMAIN u
                          ELSE CoinOf(op) \in DOMAIN u /\ u[CoinOf(op)] = -op.amt
    PROVE  /\ IsFiniteSet(CoinsOf(ApplyOp(u, op), a)) /\ TotalOf(u, a) \in Int
           /\ TotalOf(ApplyOp(u, op), a) = TotalOf(u, a) + (IF op.acct = a THEN op.amt ELSE 0)
<1> DEFINE v == ApplyOp(u, op)
           c == CoinOf(op)
           U == CoinsOf(u, a)
           V == CoinsOf(v, a)
<1>1. v \in Utxos BY ApplyOpType
<1>2. IntegersOn(u, U) /\ IntegersOn(v, V) BY <1>1 DEF IntegersOn, Utxos, CoinsOf
<1>3. TotalOf(u, a) \in Int BY <1>2, SumType DEF TotalOf
<1>4. c[1] = op.acct /\ op.amt \in Int BY DEF CoinOf, Op
<1>5. \A x : x # c => SameAt(v, u, x) BY ApplyOpAt
<1>6. /\ Creates(op) => c \in DOMAIN v /\ v[c] = op.amt
      /\ ~Creates(op) => c \notin DOMAIN v
    BY ApplyOpAt
<1> HIDE DEF v, c
<1>7. CASE op.acct # a
    <2>1. \A x : x[1] = a => SameAt(u, v, x) BY <1>4, <1>5, <1>7 DEF SameAt
    <2>2. V = U /\ TotalOf(v, a) = TotalOf(u, a) BY <2>1, SameTotal
    <2> QED BY <1>3, <1>7, <2>2 DEF v
<1>8. CASE op.acct = a /\ Creates(op)
    <2>1. c \notin DOMAIN u BY <1>8 DEF c
    <2>2. V = U \cup {c} /\ c \notin U BY <1>4, <1>5, <1>6, <1>8, <2>1 DEF CoinsOf, SameAt
    <2>3. IsFiniteSet(V)
        <3>1. IsFiniteSet(U \cup {c}) BY FS_AddElement
        <3> QED BY <2>2, <3>1
    <2>4. V \ {c} = U /\ c \in V BY <2>2
    <2>5. \A x \in U : v[x] = u[x] BY <1>5, <2>2 DEF CoinsOf, SameAt
    <2>6. SumFunctionOnSet(v, V) = v[c] + SumFunctionOnSet(v, U)
        BY <1>2, <2>3, <2>4, SumTakeOut
    <2>7. SumFunctionOnSet(v, U) = SumFunctionOnSet(u, U) BY <2>5, SumAgree
    <2>8. TotalOf(v, a) = op.amt + TotalOf(u, a) BY <1>6, <1>8, <2>6, <2>7 DEF TotalOf
    <2> QED BY <1>3, <1>4, <1>8, <2>3, <2>8 DEF v
<1>9. CASE op.acct = a /\ ~Creates(op)
    <2>1. c \in DOMAIN u /\ u[c] = -op.amt BY <1>9 DEF c
    <2>2. V = U \ {c} /\ c \in U BY <1>4, <1>5, <1>6, <1>9, <2>1 DEF CoinsOf, SameAt
    <2>3. IsFiniteSet(V) BY <2>2, FS_Subset
    <2>4. \A x \in V : v[x] = u[x] BY <1>5, <2>2 DEF CoinsOf, SameAt
    <2>5. SumFunctionOnSet(u, U) = u[c] + SumFunctionOnSet(u, U \ {c})
        BY <1>2, <2>2, SumTakeOut
    <2>6. SumFunctionOnSet(v, V) = SumFunctionOnSet(u, V) BY <2>3, <2>4, SumAgree
    <2>7. SumFunctionOnSet(v, V) \in Int BY <1>2, <2>3, SumType
    <2>8. TotalOf(u, a) = -op.amt + TotalOf(v, a) BY <2>1, <2>2, <2>5, <2>6 DEF TotalOf
    <2>9. TotalOf(v, a) = TotalOf(u, a) + op.amt BY <1>4, <2>7, <2>8 DEF TotalOf
    <2> QED BY <1>3, <1>9, <2>3, <2>9 DEF v
<1> QED BY <1>7, <1>8, <1>9

\* Unspent coins have amounts.
LEMMA UnspentType == \A b \in Blocks : UnspentAt[b] \in Utxos
<1> SUFFICES ASSUME NEW b \in Blocks PROVE UnspentAt[b] \in Utxos OBVIOUS
<1> DEFINE v == UnspentAt[b]
<1>1. v = [c \in DOMAIN v |-> v[c]] /\ DOMAIN v \subseteq Coin BY UnspentIsPartial
<1>2. ASSUME NEW c \in DOMAIN v PROVE v[c] \in Int
    <2>1. /\ v[c] = PrevOutput(c[2]).value /\ IsCoin(c) /\ c[2] \in OutputsOf(AppliedTxs(b))
        BY AppliedAreTxs, UnspentMember
    <2>2. c[2][1] \in Tx /\ c[2][2] \in DOMAIN TxOuts[c[2][1]] BY <2>1, OutputMember DEF IsCoin
    <2> QED BY <2>1, <2>2, ConsensusAssumption DEF PrevOutput
<1> HIDE DEF v
<1>3. v \in [DOMAIN v -> Int] BY <1>1, <1>2
<1>4. v \in Utxos BY <1>1, <1>3 DEF Utxos
<1> QED BY <1>4 DEF v

\* The coins of an account, plain ones, are worth the account's balance.
PlainAccount(a) == \A o \in Outpoints : PlainCoin(<<a, o>>)
TotalIsBalance(b, a) ==
    /\ IsFiniteSet(CoinsOf(UnspentAt[b], a))
    /\ TotalOf(UnspentAt[b], a) = LedgerBalance(b, a)

\* Coins of the ledger and of the operations are outpoints of the store.
LEMMA PlainCoinsOf ==
    ASSUME NEW b \in Blocks \ {Genesis}, NEW a, PlainAccount(a), NEW c, c[1] = a,
           c \in Coin
    PROVE  CoinStep(b, c)
<1>1. c = <<a, c[2]>> /\ c[2] \in Outpoints BY DEF Coin
<1>2. PlainCoin(c) BY <1>1 DEF PlainAccount
<1> QED BY <1>2, PlainCoinStep

\* If the coins add up to the balance at the parent, they do at the block.
LEMMA BlockTotal ==
    ASSUME NEW b \in Blocks \ {Genesis}, NEW a, PlainAccount(a), TotalIsBalance(Parent[b], a)
    PROVE  TotalIsBalance(b, a)
<1> DEFINE p == Parent[b]
           ops == Ops(b, p)
           n == Len(ops)
           u == UnspentAt[p]
           v == UnspentAt[b]
<1>1. p \in Blocks /\ ops \in Seq(Op) BY SyncAssumption, BlockTreeAssumption
<1>2. n \in Nat /\ DOMAIN ops = 1..n /\ \A i \in 1..n : ops[i] \in Op BY <1>1
<1>3. u \in Utxos /\ v \in Utxos BY <1>1, UnspentType
<1>4. PICK f \in [0..n -> Utxos] :
          /\ f[0] = u /\ \A i \in 1..n : f[i] = ApplyOp(f[i - 1], ops[i])
          /\ UtxosConnected(u, ops) = f[n]
    BY <1>1, <1>3, UtxosConnectedFold
<1>5. PICK g \in [0..n -> Int] :
          /\ g[0] = 0
          /\ \A i \in 1..n : g[i] = g[i - 1] + (IF ops[i].acct = a THEN ops[i].amt ELSE 0)
          /\ NetAmount(ops, a) = g[n]
    BY <1>1, NetAmountFold
<1>6. IsFiniteSet(CoinsOf(u, a)) /\ TotalOf(u, a) = LedgerBalance(p, a) BY DEF TotalIsBalance
<1>7. LedgerBalance(p, a) \in Int /\ LedgerBalance(b, a) = LedgerBalance(p, a) + NetAmount(ops, a)
    BY LedgerStep
<1>8. ASSUME NEW i \in 1..n, ops[i].acct = a
      PROVE  IF Creates(ops[i]) THEN CoinOf(ops[i]) \notin DOMAIN f[i - 1]
             ELSE CoinOf(ops[i]) \in DOMAIN f[i - 1] /\ f[i - 1][CoinOf(ops[i])] = -ops[i].amt
    <2> DEFINE c == CoinOf(ops[i])
    <2>1. ops[i] \in Op BY <1>2
    <2>2. c \in Coin /\ c[1] = a BY <1>8, <2>1 DEF CoinOf, Coin, Op
    <2>3. CoinStep(b, c) BY <2>2, PlainCoinsOf
    <2>4. ~UntouchedBy(ops, c) BY <1>2 DEF UntouchedBy
    <2>5. PICK j : /\ OnlyAt(ops, j, c)
                   /\ IF Creates(ops[j]) THEN c \notin DOMAIN u
                      ELSE c \in DOMAIN u /\ u[c] = -ops[j].amt
        BY <2>3, <2>4 DEF CoinStep
    <2>6. j = i /\ \A k \in 1..n : CoinOf(ops[k]) = c => k = i BY <1>2, <2>5 DEF OnlyAt
    <2> HIDE DEF c, ops, n, u
    <2>7. i - 1 \in Nat /\ 0 \in 0..(i - 1) /\ \A k \in 1..(i - 1) : k \in 1..n /\ k # i BY <1>2
    <2>8. \A k \in 1..(i - 1) : SameAt(f[k], f[k - 1], c) BY <1>4, <2>6, <2>7, ApplyOpAt
    <2>9. SameAt(f[i - 1], f[0], c)
        <3> DEFINE m == i - 1
        <3>1. m \in Nat /\ 0 \in 0..m /\ \A k \in 1..m : SameAt(f[k], f[k - 1], c) BY <2>7, <2>8
        <3> HIDE DEF m
        <3>2. SameAt(f[m], f[0], c) BY <3>1, SettledFrom
        <3> QED BY <3>2 DEF m
    <2> QED BY <1>4, <2>5, <2>6, <2>9 DEF SameAt, c
<1> HIDE DEF p, ops, n, u, v
<1> DEFINE G == {i \in 0..n : IsFiniteSet(CoinsOf(f[i], a)) /\ TotalOf(f[i], a) = TotalOf(u, a) + g[i]}
<1>9. 0 \in G
    <2>1. TotalOf(u, a) = TotalOf(u, a) + g[0] BY <1>5, <1>6, <1>7
    <2> QED BY <1>2, <1>4, <1>6, <2>1
<1>10. ASSUME NEW i \in 1..n, i - 1 \in G PROVE i \in G
    <2> DEFINE x == f[i - 1]
               op == ops[i]
               w == IF op.acct = a THEN op.amt ELSE 0
    <2>1. i - 1 \in 0..n /\ i \in 0..n BY <1>2
    <2>2. x \in Utxos /\ op \in Op /\ IsFiniteSet(CoinsOf(x, a))
          /\ TotalOf(x, a) = TotalOf(u, a) + g[i - 1]
        BY <1>2, <1>4, <1>10, <2>1
    <2>3. op.acct = a => IF Creates(op) THEN CoinOf(op) \notin DOMAIN x
                         ELSE CoinOf(op) \in DOMAIN x /\ x[CoinOf(op)] = -op.amt
        BY <1>8
    <2>4. f[i] = ApplyOp(x, op) /\ g[i] = g[i - 1] + w /\ g[i - 1] \in Int BY <1>4, <1>5, <2>1
    <2>5. w \in Int BY <2>2 DEF Op
    <2> HIDE DEF x, op
    <2>6. IsFiniteSet(CoinsOf(ApplyOp(x, op), a)) /\ TotalOf(ApplyOp(x, op), a) = TotalOf(x, a) + w
        BY <2>2, <2>3, TotalStep
    <2> HIDE DEF w
    <2>7. TotalOf(u, a) \in Int BY <1>6, <1>7
    <2>8. TotalOf(f[i], a) = TotalOf(u, a) + g[i] BY <2>2, <2>4, <2>5, <2>6, <2>7
    <2>9. IsFiniteSet(CoinsOf(f[i], a)) BY <2>4, <2>6
    <2> QED BY <2>1, <2>8, <2>9
<1>11. IsFiniteSet(CoinsOf(f[n], a)) /\ TotalOf(f[n], a) = TotalOf(u, a) + g[n]
    <2>1. 0..n \subseteq G
        <3> HIDE DEF G
        <3> QED BY <1>2, <1>9, <1>10, FiniteInduction
    <2>2. n \in 0..n BY <1>2
    <2> QED BY <2>1, <2>2
<1>12. ASSUME NEW c, c[1] = a PROVE SameAt(f[n], v, c)
    <2>1. CASE c \in Coin
        <3>1. CoinStep(b, c) BY <1>12, <2>1, PlainCoinsOf
        <3>2. SameAt(u, u, c) BY DEF SameAt
        <3>3. SameAt(UtxosConnected(u, ops), v, c)
            BY <1>3, <3>1, <3>2, ConnectedCoin DEF u, v, ops, p
        <3> QED BY <1>4, <3>3
    <2>2. CASE c \notin Coin
        <3>1. f[n] \in Utxos BY <1>2, <1>4
        <3> QED BY <1>3, <2>2, <3>1 DEF SameAt, Utxos
    <2> QED BY <2>1, <2>2
<1>13. CoinsOf(v, a) = CoinsOf(f[n], a) /\ TotalOf(v, a) = TotalOf(f[n], a)
    BY <1>11, <1>12, SameTotal
<1>14. IsFiniteSet(CoinsOf(v, a)) BY <1>11, <1>13
<1>15. TotalOf(v, a) = LedgerBalance(b, a) BY <1>5, <1>6, <1>7, <1>11, <1>13
<1> QED BY <1>14, <1>15 DEF TotalIsBalance, v

\* In the ledger, the unspent outputs of an account are worth its balance.
LEMMA LedgerTotal ==
    ASSUME NEW a, PlainAccount(a)
    PROVE  \A b \in Blocks : TotalIsBalance(b, a)
<1> DEFINE G == {b \in Blocks : TotalIsBalance(b, a)}
<1>1. Genesis \in G
    <2>1. CoinsOf(UnspentAt[Genesis], a) = {} BY NothingUnspentYet DEF CoinsOf
    <2>2. TotalOf(UnspentAt[Genesis], a) = 0 BY <2>1, SumEmpty DEF TotalOf
    <2>3. IsFiniteSet(CoinsOf(UnspentAt[Genesis], a)) BY <2>1, FS_EmptySet
    <2>4. TotalIsBalance(Genesis, a) BY <2>2, <2>3, NothingPaidYet DEF TotalIsBalance
    <2> QED BY <2>4, BlockTreeAssumption
<1>2. ASSUME NEW b \in Blocks \ {Genesis}, Parent[b] \in G PROVE b \in G
    BY <1>2, BlockTotal
<1>3. Blocks \subseteq G
    <2> HIDE DEF G
    <2> QED BY <1>1, <1>2, BlockInduction
<1> QED BY <1>3

\* The two records agree: when no block touches an output twice, the recorded
\* balance of an account is the sum of its recorded unspent outputs.  Treasury
\* spends, which touch no output, are exempt, as is the treasury.
THEOREM SumOfCoinsTheorem ==
    (\A a \in Accounts \ {Treasury} : PlainAccount(a)) => (Spec => []BalanceIsSumOfCoins)
<1> SUFFICES ASSUME \A a \in Accounts \ {Treasury} : PlainAccount(a)
             PROVE  Spec => []BalanceIsSumOfCoins
    OBVIOUS
<1>1. LedgerInv /\ BalanceInv => BalanceIsSumOfCoins
    <2> SUFFICES ASSUME LedgerInv, BalanceInv, NEW a \in Accounts \ {Treasury}
                 PROVE  Balance(db, a, LastHeight(db)) = SumFunction(ListUtxos(db, a))
        BY DEF BalanceIsSumOfCoins
    <2> DEFINE b == LastProcessedBlock(db)
               u == db.utxos
               v == UnspentAt[b]
               U == CoinsOf(u, a)
               V == CoinsOf(v, a)
    <2>1. db \in DbRecord /\ Linked(db) /\ AddsUp(db) BY BalanceFacts
    <2>2. b \in Blocks BY <2>1, LastProcessedType, BlockTreeAssumption
    <2>3. Balance(db, a, LastHeight(db)) = LedgerBalance(b, a)
        <3>1. /\ Balance(db, a, 0) = LedgerBalance(Genesis, a)
              /\ \A h \in 1..LastHeight(db) : Balance(db, a, h) = LedgerBalance(db.processed[h], a)
            BY <2>1, LedgerHistory
        <3>2. CASE LastHeight(db) = 0 BY <2>1, <3>1, <3>2, LastProcessedType
        <3>3. CASE LastHeight(db) > 0
            <4>1. LastHeight(db) \in 1..LastHeight(db) /\ b = db.processed[LastHeight(db)]
                BY <2>1, <3>3, LastProcessedType
            <4> QED BY <3>1, <4>1
        <3> QED BY <2>1, <3>2, <3>3, LastProcessedType
    <2>4. PlainAccount(a) /\ TotalIsBalance(b, a) BY <2>2, LedgerTotal
    <2>5. IsFiniteSet(V) /\ SumFunctionOnSet(v, V) = LedgerBalance(b, a)
        BY <2>4 DEF TotalIsBalance, TotalOf
    <2>6. u \in Utxos /\ v \in Utxos BY <2>1, <2>2, UnspentType DEF DbRecord
    <2>7. ASSUME NEW c, c[1] = a PROVE SameAt(v, u, c)
        <3>1. CASE c \in Coin
            <4>1. c = <<a, c[2]>> /\ c[2] \in Outpoints BY <2>7, <3>1 DEF Coin
            <4>2. PlainCoin(c) BY <2>4, <4>1 DEF PlainAccount
            <4> QED BY <4>2 DEF LedgerInv, Agrees, SameAt
        <3>2. CASE c \notin Coin BY <2>6, <3>2 DEF SameAt, Utxos
        <3> QED BY <3>1, <3>2
    <2> HIDE DEF u, v, b
    <2>8. U = V /\ TotalOf(u, a) = TotalOf(v, a) BY <2>5, <2>7, SameTotal
    <2>9. ListUtxos(db, a) = Restrict(u, U) BY DEF ListUtxos, CoinsOf, u
    <2> DEFINE r == Restrict(u, U)
    <2>10. DOMAIN r = U /\ \A c \in U : r[c] = u[c] BY DEF Restrict
    <2> HIDE DEF r
    <2>11. SumFunction(r) = SumFunctionOnSet(r, U) BY <2>10 DEF SumFunction
    <2>12. SumFunctionOnSet(r, U) = SumFunctionOnSet(u, U) BY <2>5, <2>8, <2>10, SumAgree
    <2> QED BY <2>3, <2>5, <2>8, <2>9, <2>11, <2>12 DEF TotalOf, r
<1> QED BY <1>1, LedgerInit, LedgerNext, BalanceInit, BalanceNext, PTL DEF Spec

=============================================================================
