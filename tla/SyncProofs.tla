----------------------------- MODULE SyncProofs ------------------------------
(***************************************************************************)
(* What Sync guarantees for every block tree, every content of the blocks  *)
(* and any number of workers and queued notifications.                     *)
(*                                                                         *)
(* First the operators: the loops over a block's operations as sequences   *)
(* of results (Iteration), the database operations ConnectBlock and        *)
(* UndoTip, and Balance.  Then IndInv, one lemma per group of actions, and *)
(* the theorems that follow from it.  Last the block tree, where a         *)
(* rollback stops, and that the committed database implements the          *)
(* processed chain: ForkInv relates the copy an open rollback works on to  *)
(* the committed database and to the chain of the target.                  *)
(***************************************************************************)
EXTENDS Sync, Iteration, SequenceTheorems

\* Every set of unspent outputs.
Utxos == UNION {[D -> Int] : D \in SUBSET Coin}

\* NetAmount adds up the operations on the account one after the other.
LEMMA NetAmountFold ==
    ASSUME NEW ops \in Seq(Op), NEW a
    PROVE  \E f \in [0..Len(ops) -> Int] :
              /\ f[0] = 0
              /\ \A i \in 1..Len(ops) :
                    f[i] = f[i - 1] + (IF ops[i].acct = a THEN ops[i].amt ELSE 0)
              /\ NetAmount(ops, a) = f[Len(ops)]
<1> DEFINE n == Len(ops)
           w(i) == IF ops[i].acct = a THEN ops[i].amt ELSE 0
           F == [i \in 1..n |-> [x \in Int |-> x + w(i)]]
           Eqn(f) == f = [i \in 0..n |-> IF i = 0 THEN 0 ELSE f[i - 1] + w(i)]
           g == CHOOSE f : Eqn(f)
<1>1. n \in Nat /\ \A i \in 1..n : ops[i] \in Op
    OBVIOUS
<1>2. \A i \in 1..n : w(i) \in Int
    BY <1>1 DEF Op
<1>3. F \in [1..n -> [Int -> Int]]
    BY <1>2
<1>4. PICK f \in [0..n -> Int] : f[0] = 0 /\ \A i \in 1..n : f[i] = F[i][f[i - 1]]
    <2> DEFINE S == Int
               z == 0
    <2>1. z \in S /\ n \in Nat /\ F \in [1..n -> [S -> S]]
        BY <1>1, <1>3
    <2> HIDE DEF n, F, S, z
    <2>2. \E f \in [0..n -> S] : f[0] = z /\ \A i \in 1..n : f[i] = F[i][f[i - 1]]
        BY <2>1, IterationExists
    <2> QED BY <2>2 DEF S, z
<1>5. \A i \in 1..n : f[i] = f[i - 1] + w(i)
    <2>1. \A i \in 1..n : i - 1 \in 0..n BY <1>1
    <2> QED BY <1>4, <2>1
<1>6. Eqn(f)
    <2> HIDE DEF n, w
    <2> QED BY <1>1, <1>4, <1>5
<1>7. Eqn(g)
    <2> HIDE DEF Eqn
    <2> QED BY <1>6
<1>8. g = f
    <2> DEFINE G == {i \in 0..n : g[i] = f[i]}
    <2> HIDE DEF n, w, g
    <2>1. 0 \in G
        <3>1. 0 \in 0..n BY <1>1
        <3>2. g[0] = 0 BY <1>7, <3>1
        <3> QED BY <3>1, <3>2, <1>4
    <2>2. ASSUME NEW i \in 1..n, i - 1 \in G PROVE i \in G
        <3>1. g[i] = g[i - 1] + w(i) BY <1>7, <1>1
        <3>2. g[i - 1] = f[i - 1] BY <2>2
        <3> QED BY <3>1, <3>2, <1>5, <1>1
    <2>3. 0..n \subseteq G
        <3> HIDE DEF G
        <3> QED BY <2>1, <2>2, <1>1, FiniteInduction
    <2>4. \A i \in 0..n : g[i] = f[i]
        BY <2>3
    <2>5. g = [i \in 0..n |-> g[i]]
        BY <1>7
    <2> QED BY <2>4, <2>5
<1>9. NetAmount(ops, a) = g[n]
    BY DEF NetAmount
<1>10. NetAmount(ops, a) = f[n]
    BY <1>8, <1>9
<1> HIDE DEF g
<1> QED BY <1>4, <1>5, <1>10

\* The operations on an account add up to an integer.
LEMMA NetAmountType ==
    ASSUME NEW ops \in Seq(Op), NEW a
    PROVE  NetAmount(ops, a) \in Int
BY NetAmountFold

\* Operations on other accounts leave an account's balance alone.
LEMMA NetAmountUntouched ==
    ASSUME NEW ops \in Seq(Op), NEW a, a \notin Touched(ops)
    PROVE  NetAmount(ops, a) = 0
<1> DEFINE n == Len(ops)
<1>1. PICK f \in [0..n -> Int] :
          /\ f[0] = 0
          /\ \A i \in 1..n : f[i] = f[i - 1] + (IF ops[i].acct = a THEN ops[i].amt ELSE 0)
          /\ NetAmount(ops, a) = f[n]
    BY NetAmountFold
<1>2. n \in Nat /\ \A i \in 1..n : ops[i].acct # a
    BY DEF Touched
<1> DEFINE G == {i \in 0..n : f[i] = 0}
<1>3. 0 \in G BY <1>1, <1>2
<1>4. ASSUME NEW i \in 1..n, i - 1 \in G PROVE i \in G
    BY <1>1, <1>2, <1>4
<1>5. 0..n \subseteq G
    <2> HIDE DEF G, n
    <2> QED BY <1>2, <1>3, <1>4, FiniteInduction
<1>6. n \in 0..n
    BY <1>2
<1>7. f[n] = 0
    <2> HIDE DEF n
    <2>1. n \in G BY <1>5, <1>6
    <2> QED BY <2>1
<1> QED BY <1>1, <1>7

\* Sets of unspent outputs are the partial functions from coins to amounts.
LEMMA UtxosArePartial ==
    ASSUME NEW u
    PROVE  u \in Utxos <=> IsPartialFcn(u, Coin, Int)
BY DEF Utxos, IsPartialFcn

\* Connecting one operation yields such a set again.
LEMMA ApplyOpType ==
    ASSUME NEW u \in Utxos, NEW op \in Op
    PROVE  ApplyOp(u, op) \in Utxos
<1>1. IsPartialFcn(u, Coin, Int) BY UtxosArePartial
<1>2. <<op.acct, op.outp>> \in Coin /\ op.amt \in Int BY DEF Op, Coin
<1>3. IsPartialFcn(AddUtxo(u, <<op.acct, op.outp>>, op.amt), Coin, Int)
    BY <1>1, <1>2 DEF AddUtxo, IsPartialFcn
<1>4. IsPartialFcn(DelUtxo(u, <<op.acct, op.outp>>), Coin, Int)
    BY <1>1 DEF DelUtxo, IsPartialFcn
<1> QED BY <1>3, <1>4, UtxosArePartial DEF ApplyOp

\* The same for rolling back.
LEMMA UnapplyOpType ==
    ASSUME NEW u \in Utxos, NEW op \in Op
    PROVE  UnapplyOp(u, op) \in Utxos
<1>1. IsPartialFcn(u, Coin, Int) BY UtxosArePartial
<1>2. <<op.acct, op.outp>> \in Coin /\ -op.amt \in Int BY DEF Op, Coin
<1>3. IsPartialFcn(AddUtxo(u, <<op.acct, op.outp>>, -op.amt), Coin, Int)
    BY <1>1, <1>2 DEF AddUtxo, IsPartialFcn
<1>4. IsPartialFcn(DelUtxo(u, <<op.acct, op.outp>>), Coin, Int)
    BY <1>1 DEF DelUtxo, IsPartialFcn
<1> QED BY <1>3, <1>4, UtxosArePartial DEF UnapplyOp

\* Connecting a block applies its operations one after the other.
LEMMA UtxosConnectedFold ==
    ASSUME NEW ops \in Seq(Op), NEW u \in Utxos
    PROVE  \E f \in [0..Len(ops) -> Utxos] :
              /\ f[0] = u
              /\ \A i \in 1..Len(ops) : f[i] = ApplyOp(f[i - 1], ops[i])
              /\ UtxosConnected(u, ops) = f[Len(ops)]
<1> DEFINE n == Len(ops)
           F == [i \in 1..n |-> [x \in Utxos |-> ApplyOp(x, ops[i])]]
           Eqn(f) == f = [i \in 0..n |-> IF i = 0 THEN u ELSE ApplyOp(f[i - 1], ops[i])]
           g == CHOOSE f : Eqn(f)
<1>1. n \in Nat /\ \A i \in 1..n : ops[i] \in Op
    OBVIOUS
<1>2. F \in [1..n -> [Utxos -> Utxos]]
    BY <1>1, ApplyOpType
<1>3. PICK f \in [0..n -> Utxos] : f[0] = u /\ \A i \in 1..n : f[i] = F[i][f[i - 1]]
    <2> HIDE DEF n, F, Eqn, g
    <2>1. u \in Utxos /\ n \in Nat /\ F \in [1..n -> [Utxos -> Utxos]]
        BY <1>1, <1>2
    <2>2. \E f \in [0..n -> Utxos] : f[0] = u /\ \A i \in 1..n : f[i] = F[i][f[i - 1]]
        BY <2>1, IterationExists
    <2> QED BY <2>2
<1>4. \A i \in 1..n : f[i] = ApplyOp(f[i - 1], ops[i])
    <2>1. \A i \in 1..n : i - 1 \in 0..n BY <1>1
    <2> QED BY <1>3, <2>1
<1>5. Eqn(f)
    <2> HIDE DEF n
    <2> QED BY <1>1, <1>3, <1>4
<1>6. Eqn(g)
    <2> HIDE DEF Eqn
    <2> QED BY <1>5
<1>7. g = f
    <2> DEFINE G == {i \in 0..n : g[i] = f[i]}
    <2> HIDE DEF n, g
    <2>1. 0 \in G
        <3>1. 0 \in 0..n BY <1>1
        <3>2. g[0] = u BY <1>6, <3>1
        <3> QED BY <3>1, <3>2, <1>3
    <2>2. ASSUME NEW i \in 1..n, i - 1 \in G PROVE i \in G
        <3>1. g[i] = ApplyOp(g[i - 1], ops[i]) BY <1>6, <1>1
        <3>2. g[i - 1] = f[i - 1] BY <2>2
        <3> QED BY <3>1, <3>2, <1>4, <1>1
    <2>3. 0..n \subseteq G
        <3> HIDE DEF G
        <3> QED BY <2>1, <2>2, <1>1, FiniteInduction
    <2>4. \A i \in 0..n : g[i] = f[i]
        BY <2>3
    <2>5. g = [i \in 0..n |-> g[i]]
        BY <1>6
    <2> QED BY <2>4, <2>5
<1>8. UtxosConnected(u, ops) = g[n]
    BY DEF UtxosConnected
<1>9. UtxosConnected(u, ops) = f[n]
    BY <1>7, <1>8
<1> HIDE DEF g
<1> QED BY <1>3, <1>4, <1>9

\* Rolling a block back unapplies its operations, also first to last.
LEMMA UtxosRolledBackFold ==
    ASSUME NEW ops \in Seq(Op), NEW u \in Utxos
    PROVE  \E f \in [0..Len(ops) -> Utxos] :
              /\ f[0] = u
              /\ \A i \in 1..Len(ops) : f[i] = UnapplyOp(f[i - 1], ops[i])
              /\ UtxosRolledBack(u, ops) = f[Len(ops)]
<1> DEFINE n == Len(ops)
           F == [i \in 1..n |-> [x \in Utxos |-> UnapplyOp(x, ops[i])]]
           Eqn(f) == f = [i \in 0..n |-> IF i = 0 THEN u ELSE UnapplyOp(f[i - 1], ops[i])]
           g == CHOOSE f : Eqn(f)
<1>1. n \in Nat /\ \A i \in 1..n : ops[i] \in Op
    OBVIOUS
<1>2. F \in [1..n -> [Utxos -> Utxos]]
    BY <1>1, UnapplyOpType
<1>3. PICK f \in [0..n -> Utxos] : f[0] = u /\ \A i \in 1..n : f[i] = F[i][f[i - 1]]
    <2> HIDE DEF n, F, Eqn, g
    <2>1. u \in Utxos /\ n \in Nat /\ F \in [1..n -> [Utxos -> Utxos]]
        BY <1>1, <1>2
    <2>2. \E f \in [0..n -> Utxos] : f[0] = u /\ \A i \in 1..n : f[i] = F[i][f[i - 1]]
        BY <2>1, IterationExists
    <2> QED BY <2>2
<1>4. \A i \in 1..n : f[i] = UnapplyOp(f[i - 1], ops[i])
    <2>1. \A i \in 1..n : i - 1 \in 0..n BY <1>1
    <2> QED BY <1>3, <2>1
<1>5. Eqn(f)
    <2> HIDE DEF n
    <2> QED BY <1>1, <1>3, <1>4
<1>6. Eqn(g)
    <2> HIDE DEF Eqn
    <2> QED BY <1>5
<1>7. g = f
    <2> DEFINE G == {i \in 0..n : g[i] = f[i]}
    <2> HIDE DEF n, g
    <2>1. 0 \in G
        <3>1. 0 \in 0..n BY <1>1
        <3>2. g[0] = u BY <1>6, <3>1
        <3> QED BY <3>1, <3>2, <1>3
    <2>2. ASSUME NEW i \in 1..n, i - 1 \in G PROVE i \in G
        <3>1. g[i] = UnapplyOp(g[i - 1], ops[i]) BY <1>6, <1>1
        <3>2. g[i - 1] = f[i - 1] BY <2>2
        <3> QED BY <3>1, <3>2, <1>4, <1>1
    <2>3. 0..n \subseteq G
        <3> HIDE DEF G
        <3> QED BY <2>1, <2>2, <1>1, FiniteInduction
    <2>4. \A i \in 0..n : g[i] = f[i]
        BY <2>3
    <2>5. g = [i \in 0..n |-> g[i]]
        BY <1>6
    <2> QED BY <2>4, <2>5
<1>8. UtxosRolledBack(u, ops) = g[n]
    BY DEF UtxosRolledBack
<1>9. UtxosRolledBack(u, ops) = f[n]
    BY <1>7, <1>8
<1> HIDE DEF g
<1> QED BY <1>3, <1>4, <1>9

-----------------------------------------------------------------------------
(* The database operations.                                                *)

BalanceRecords == UNION {[D -> Int] : D \in SUBSET Accounts}

DbRecord == [processed : Seq(Blocks \ {Genesis}), balances : Seq(BalanceRecords), utxos : Utxos]

\* The predicate TLC evaluates and the set the proofs use are the same.
LEMMA DbIsRecord ==
    ASSUME NEW d
    PROVE  IsDb(d) <=> d \in DbRecord
<1>1. ASSUME IsDb(d) PROVE d \in DbRecord
    <2>1. d.utxos \in Utxos BY <1>1, UtxosArePartial DEF IsDb
    <2>2. d.balances \in Seq(Range(d.balances)) /\ d.processed \in Seq(Blocks \ {Genesis})
        BY <1>1 DEF IsDb
    <2>3. \A r \in Range(d.balances) : r \in BalanceRecords
        BY <1>1 DEF IsDb, IsPartialFcn, BalanceRecords
    <2>4. d.balances \in Seq(BalanceRecords)
        BY <2>2, <2>3
    <2>5. d = [processed |-> d.processed, balances |-> d.balances, utxos |-> d.utxos]
        BY <1>1 DEF IsDb
    <2> QED BY <2>1, <2>2, <2>4, <2>5 DEF DbRecord
<1>2. ASSUME d \in DbRecord PROVE IsDb(d)
    <2>1. IsPartialFcn(d.utxos, Coin, Int) BY <1>2, UtxosArePartial DEF DbRecord
    <2>2. d.balances \in Seq(BalanceRecords) BY <1>2 DEF DbRecord
    <2>3. d.balances \in Seq(Range(d.balances))
        BY <2>2 DEF Range
    <2>4. \A r \in Range(d.balances) : IsPartialFcn(r, Accounts, Int)
        BY <2>2 DEF Range, IsPartialFcn, BalanceRecords
    <2> QED BY <1>2, <2>1, <2>3, <2>4 DEF IsDb, DbRecord
<1> QED BY <1>1, <1>2

\* The record Balance finds is the one at the greatest recorded height.
LEMMA BalanceIsRecord ==
    ASSUME NEW d \in DbRecord, NEW a, NEW h \in Nat
    PROVE  \/ RecordedHeights(d, a, h) = {} /\ Balance(d, a, h) = 0
           \/ \E m \in RecordedHeights(d, a, h) :
                /\ \A k \in RecordedHeights(d, a, h) : k <= m
                /\ Balance(d, a, h) = d.balances[m][a]
<1> DEFINE hs == RecordedHeights(d, a, h)
<1>1. CASE hs = {} BY <1>1 DEF Balance
<1>2. CASE hs # {}
    <2>1. hs \in SUBSET (0..h) BY DEF RecordedHeights
    <2>2. \E m \in hs : \A k \in hs : k <= m
        <3> HIDE DEF hs
        <3> QED BY <1>2, <2>1, GreatestNat
    <2>3. \E m \in hs : \A k \in hs : m >= k
        BY <2>1, <2>2
    <2>4. Max(hs) \in hs /\ \A k \in hs : Max(hs) >= k
        <3> HIDE DEF hs
        <3> QED BY <2>3 DEF Max
    <2>5. \A k \in hs : k <= Max(hs)
        BY <2>1, <2>4
    <2>6. Balance(d, a, h) = d.balances[Max(hs)][a]
        BY <1>2 DEF Balance
    <2> QED BY <2>4, <2>5, <2>6
<1> QED BY <1>1, <1>2

\* A balance is an integer.
LEMMA BalanceType ==
    ASSUME NEW d \in DbRecord, NEW a, NEW h \in Nat
    PROVE  Balance(d, a, h) \in Int
<1>1. ASSUME NEW m \in RecordedHeights(d, a, h) PROVE d.balances[m][a] \in Int
    <2>1. m \in 1..Len(d.balances) /\ a \in DOMAIN d.balances[m]
        BY DEF RecordedHeights, DbRecord
    <2>2. d.balances[m] \in BalanceRecords
        BY <2>1 DEF DbRecord
    <2> QED BY <2>1, <2>2 DEF BalanceRecords
<1> QED BY <1>1, BalanceIsRecord

\* A balance only depends on the records at or below its height.
LEMMA BalanceLocal ==
    ASSUME NEW d \in DbRecord, NEW e \in DbRecord, NEW a, NEW h \in Nat,
           h <= Len(d.balances), h <= Len(e.balances),
           \A k \in 1..h : d.balances[k] = e.balances[k]
    PROVE  Balance(d, a, h) = Balance(e, a, h)
<1>1. RecordedHeights(d, a, h) = RecordedHeights(e, a, h)
    BY DEF RecordedHeights, DbRecord
<1>2. RecordedHeights(d, a, h) \subseteq 1..h
    BY DEF RecordedHeights
<1>3. CASE RecordedHeights(d, a, h) = {}
    BY <1>1, <1>3 DEF Balance
<1>4. CASE RecordedHeights(d, a, h) # {}
    <2>1. PICK m \in RecordedHeights(d, a, h) :
              /\ \A k \in RecordedHeights(d, a, h) : k <= m
              /\ Balance(d, a, h) = d.balances[m][a]
        BY <1>4, BalanceIsRecord
    <2>2. PICK n \in RecordedHeights(e, a, h) :
              /\ \A k \in RecordedHeights(e, a, h) : k <= n
              /\ Balance(e, a, h) = e.balances[n][a]
        BY <1>1, <1>4, BalanceIsRecord
    <2>3. m = n
        <3>1. m <= n /\ n <= m BY <1>1, <2>1, <2>2
        <3> QED BY <3>1, <1>1, <1>2
    <2> QED BY <1>2, <2>1, <2>2, <2>3
<1> QED BY <1>3, <1>4

\* What preProcessAccountBlock stores.
LEMMA NewBalancesType ==
    ASSUME NEW d \in DbRecord, NEW ops \in Seq(Op)
    PROVE  NewBalances(d, ops) \in BalanceRecords
<1>1. Touched(ops) \in SUBSET Accounts
    <2>1. ASSUME NEW i \in DOMAIN ops PROVE ops[i].acct \in Accounts
        <3>1. ops[i] \in Op OBVIOUS
        <3> QED BY <3>1 DEF Op
    <2> QED BY <2>1 DEF Touched
<1>2. LastHeight(d) \in Nat BY DEF LastHeight, DbRecord
<1>3. \A a \in Touched(ops) : Balance(d, a, LastHeight(d)) + NetAmount(ops, a) \in Int
    BY <1>2, BalanceType, NetAmountType
<1> QED BY <1>1, <1>3 DEF NewBalances, BalanceRecords

\* The last processed block, when the chain is linked.
LEMMA LastProcessedType ==
    ASSUME NEW d \in DbRecord
    PROVE  /\ LastHeight(d) \in Nat
           /\ LastHeight(d) = 0 => d.processed = << >> /\ LastProcessedBlock(d) = Genesis
           /\ LastHeight(d) > 0 =>
                /\ LastHeight(d) \in 1..Len(d.processed)
                /\ LastProcessedBlock(d) = d.processed[LastHeight(d)]
                /\ LastProcessedBlock(d) \in Blocks \ {Genesis}
           /\ LastProcessedBlock(d) \in Blocks
BY BlockTreeAssumption DEF LastHeight, LastProcessedBlock, DbRecord

\* Connecting a block that extends the tip of a linked database.
LEMMA ConnectBlockLemma ==
    ASSUME NEW d \in DbRecord, NEW b \in Blocks \ {Genesis}, NEW prev,
           Linked(d), ExtendsTip(d, b), Ops(b, prev) \in Seq(Op)
    PROVE  /\ ConnectBlock(d, b, prev) \in DbRecord
           /\ Linked(ConnectBlock(d, b, prev))
           /\ ConnectBlock(d, b, prev).processed = Append(d.processed, b)
           /\ ConnectBlock(d, b, prev).balances
                = Append(d.balances, NewBalances(d, Ops(b, prev)))
           /\ LastHeight(ConnectBlock(d, b, prev)) = Height[b]
           /\ LastProcessedBlock(ConnectBlock(d, b, prev)) = b
<1> DEFINE ops == Ops(b, prev)
           u == UtxosConnected(d.utxos, ops)
           nb == NewBalances(d, ops)
           e == ConnectBlock(d, b, prev)
<1>1. u \in Utxos
    <2>1. d.utxos \in Utxos BY DEF DbRecord
    <2>2. Len(ops) \in Nat /\ Len(ops) \in 0..Len(ops) OBVIOUS
    <2> QED BY <2>1, <2>2, UtxosConnectedFold
<1>2. nb \in BalanceRecords
    BY NewBalancesType
<1>3. e = [processed |-> Append(d.processed, b), balances |-> Append(d.balances, nb), utxos |-> u]
    <2>1. d = [processed |-> d.processed, balances |-> d.balances, utxos |-> d.utxos]
        BY DEF DbRecord
    <2>2. [d EXCEPT !.utxos = u] = [processed |-> d.processed, balances |-> d.balances, utxos |-> u]
        <3> HIDE DEF u
        <3> QED BY <2>1
    <2>3. e = StoreBalances([d EXCEPT !.utxos = u], b, nb)
        BY DEF ConnectBlock
    <2> HIDE DEF u, nb, e
    <2> QED BY <2>2, <2>3 DEF StoreBalances
<1> HIDE DEF ops, u, nb, e
<1>4. e \in DbRecord
    BY <1>1, <1>2, <1>3 DEF DbRecord
<1>5. Len(d.processed) = Height[b] - 1 /\ Len(e.processed) = Height[b]
      /\ Height[b] \in Nat /\ Len(d.processed) \in Nat
    BY <1>3, BlockTreeAssumption DEF ExtendsTip, LastHeight, DbRecord
<1>6. LastHeight(e) = Height[b] /\ LastProcessedBlock(e) = b
    BY <1>3, <1>5 DEF LastHeight, LastProcessedBlock, DbRecord
<1>7. Linked(e)
    <2>1. Len(e.balances) = Len(e.processed)
        BY <1>3 DEF Linked, DbRecord
    <2>2. ASSUME NEW h \in DOMAIN e.processed
          PROVE  /\ Height[e.processed[h]] = h
                 /\ Parent[e.processed[h]] = IF h = 1 THEN Genesis ELSE e.processed[h - 1]
        <3>1. h \in 1..Height[b]
            BY <1>4, <1>5 DEF DbRecord
        <3>2. CASE h = Height[b]
            <4>1. e.processed[h] = b BY <3>2, <1>3, <1>5 DEF DbRecord
            <4>2. CASE h = 1
                BY <4>1, <4>2, <3>2, <1>5 DEF ExtendsTip, LastProcessedBlock, DbRecord
            <4>3. CASE h # 1
                <5>1. e.processed[h - 1] = d.processed[h - 1]
                    BY <4>3, <3>1, <3>2, <1>3, <1>5 DEF DbRecord
                <5>2. Parent[b] = d.processed[h - 1]
                    BY <4>3, <3>2, <1>5 DEF ExtendsTip, LastProcessedBlock, LastHeight
                <5> QED BY <4>1, <4>3, <5>1, <5>2, <3>2
            <4> QED BY <4>2, <4>3
        <3>3. CASE h # Height[b]
            <4>1. h \in DOMAIN d.processed /\ e.processed[h] = d.processed[h]
                BY <3>1, <3>3, <1>3, <1>5 DEF DbRecord
            <4>2. h # 1 => e.processed[h - 1] = d.processed[h - 1]
                BY <3>1, <3>3, <1>3, <1>5 DEF DbRecord
            <4> QED BY <4>1, <4>2 DEF Linked
        <3> QED BY <3>2, <3>3
    <2> QED BY <2>1, <2>2 DEF Linked
<1> QED BY <1>3, <1>4, <1>6, <1>7 DEF e, nb, ops

\* Rolling back the tip of a linked database leaves the chain below it.
LEMMA UndoTipLemma ==
    ASSUME NEW d \in DbRecord, Linked(d), CanRollbackTip(d)
    PROVE  /\ UndoTip(d) \in DbRecord
           /\ Linked(UndoTip(d))
           /\ LastHeight(UndoTip(d)) = LastHeight(d) - 1
           /\ LastProcessedBlock(UndoTip(d)) = Parent[LastProcessedBlock(d)]
           /\ \A h \in 1..(LastHeight(d) - 1) :
                /\ UndoTip(d).processed[h] = d.processed[h]
                /\ UndoTip(d).balances[h] = d.balances[h]
<1> DEFINE b == LastProcessedBlock(d)
           ops == Ops(b, Parent[b])
           u == UtxosRolledBack(d.utxos, ops)
           n == LastHeight(d) - 1
           e == UndoTip(d)
<1>1. b \in Blocks \ {Genesis} /\ n \in Nat \ {0} /\ Len(d.processed) = n + 1
      /\ b = d.processed[n + 1] /\ Len(d.balances) = n + 1
    BY LastProcessedType DEF CanRollbackTip, LastHeight, Linked
<1>2. ops \in Seq(Op)
    BY <1>1, SyncAssumption
<1>3. u \in Utxos
    <2>1. d.utxos \in Utxos BY DEF DbRecord
    <2>2. Len(ops) \in Nat /\ Len(ops) \in 0..Len(ops) BY <1>2
    <2> QED BY <2>1, <2>2, <1>2, UtxosRolledBackFold
<1>4. e = [processed |-> SubSeq(d.processed, 1, n), balances |-> SubSeq(d.balances, 1, n),
           utxos |-> u]
    <2>1. d = [processed |-> d.processed, balances |-> d.balances, utxos |-> d.utxos]
        BY DEF DbRecord
    <2>2. [d EXCEPT !.utxos = u] = [processed |-> d.processed, balances |-> d.balances, utxos |-> u]
        <3> HIDE DEF u
        <3> QED BY <2>1
    <2>3. e = RollbackTip([d EXCEPT !.utxos = u])
        BY DEF UndoTip
    <2>4. Len(d.processed) - 1 = n /\ Len(d.balances) - 1 = n
        BY <1>1
    <2> HIDE DEF u, e, n
    <2> QED BY <2>2, <2>3, <2>4 DEF RollbackTip
<1> HIDE DEF u, e, n, ops
<1>5. d.processed \in Seq(Blocks \ {Genesis}) /\ d.balances \in Seq(BalanceRecords)
    BY DEF DbRecord
<1>6. /\ e.processed \in Seq(Blocks \ {Genesis}) /\ Len(e.processed) = n
      /\ \A h \in 1..n : e.processed[h] = d.processed[h]
    BY <1>1, <1>4, <1>5
<1>7. /\ e.balances \in Seq(BalanceRecords) /\ Len(e.balances) = n
      /\ \A h \in 1..n : e.balances[h] = d.balances[h]
    BY <1>1, <1>4, <1>5
<1>8. e \in DbRecord
    BY <1>3, <1>4, <1>6, <1>7 DEF DbRecord
<1>9. LastHeight(e) = n /\ LastProcessedBlock(e) = d.processed[n]
    BY <1>1, <1>6 DEF LastHeight, LastProcessedBlock
<1>10. Parent[b] = d.processed[n]
    <2>1. n + 1 \in DOMAIN d.processed /\ n + 1 # 1 /\ (n + 1) - 1 = n BY <1>1, <1>5
    <2> QED BY <2>1, <1>1 DEF Linked
<1>11. Linked(e)
    <2>1. ASSUME NEW h \in DOMAIN e.processed
          PROVE  /\ Height[e.processed[h]] = h
                 /\ Parent[e.processed[h]] = IF h = 1 THEN Genesis ELSE e.processed[h - 1]
        <3>1. h \in 1..n /\ h \in DOMAIN d.processed /\ (h # 1 => h - 1 \in 1..n)
            BY <1>1, <1>5, <1>6
        <3> QED BY <3>1, <1>6 DEF Linked
    <2> QED BY <2>1, <1>6, <1>7 DEF Linked
<1> QED BY <1>6, <1>7, <1>8, <1>9, <1>10, <1>11 DEF e, n

-----------------------------------------------------------------------------
(* The inductive invariant.                                                *)

IndInv == TypeOK /\ ProcessedIsChain /\ ReorgInv

\* The part of the state the reorg machinery works on.
reorgVars == <<pc, job, wtx, db>>

\* An empty database is a linked one.
LEMMA EmptyDbLemma == EmptyDb \in DbRecord /\ IsDb(EmptyDb) /\ Linked(EmptyDb)
<1>1. << >> \in Utxos
    BY DEF Utxos
<1>2. EmptyDb \in DbRecord
    BY <1>1 DEF EmptyDb, DbRecord
<1> QED BY <1>2, DbIsRecord DEF EmptyDb, Linked

\* Outside the reorg machinery only the types of the other variables matter.
LEMMA ReorgUntouched ==
    ASSUME IndInv, UNCHANGED reorgVars
    PROVE  /\ pc' \in PCs /\ (IF InJob' THEN job' \in Job ELSE job' = NoJob)
           /\ IsDb(wtx)' /\ IsDb(db)' /\ ProcessedIsChain' /\ ReorgInv'
<1>1. pc' = pc /\ job' = job /\ wtx' = wtx /\ db' = db
    BY DEF reorgVars
<1>2. IsDb(wtx)' /\ IsDb(db)'
    BY <1>1 DEF IndInv, TypeOK
<1>3. ProcessedIsChain'
    BY <1>1 DEF IndInv, ProcessedIsChain
<1>4. ReorgInv'
    BY <1>1 DEF IndInv, ReorgInv, InJob, MissingLeadDown, NextToConnect
<1> QED BY <1>1, <1>2, <1>3, <1>4 DEF IndInv, TypeOK, InJob

\* The initial state.
LEMMA InitInd == Init => IndInv
<1> SUFFICES ASSUME Init PROVE IndInv
    OBVIOUS
<1>1. IsPartialFcn(fetched, Nat \ {0}, (Blocks \ {Genesis}) \cup {AfterTip})
    BY DEF Init, IsPartialFcn
<1>2. TypeOK
    <2>1. ntfns \in Seq(Ntfn) /\ next \in Nat \ {0} BY DEF Init
    <2>2. IsDb(wtx) /\ IsDb(db) BY EmptyDbLemma DEF Init, NoTx
    <2>3. linkUp \in BOOLEAN /\ subscribed \in BOOLEAN BY DEF Init
    <2> QED BY <1>1, <2>1, <2>2, <2>3 DEF Init, TypeOK, PCs, InJob
<1>3. ProcessedIsChain
    BY EmptyDbLemma DEF Init, ProcessedIsChain, NoTx
<1>4. ReorgInv
    BY DEF Init, ReorgInv, InJob
<1> QED BY <1>2, <1>3, <1>4 DEF IndInv

\* dcrd's steps: its tip moves and notifications are queued or lost.
LEMMA DcrdStepInd == IndInv /\ DcrdStep => IndInv'
<1> SUFFICES ASSUME IndInv, DcrdStep PROVE IndInv'
    OBVIOUS
<1> USE DEF IndInv
<1>1. ASSUME NEW type \in {"connected", "disconnected"}, NEW b \in Blocks \ {Genesis},
             Notify(type, b)
      PROVE  ntfns' \in Seq(Ntfn)
    <2>1. [type |-> type, block |-> b] \in Ntfn BY DEF Ntfn
    <2> QED BY <1>1, <2>1 DEF Notify, TypeOK
<1>2. ASSUME NEW b \in Blocks \ {Genesis}, ChainConnect(b) PROVE IndInv'
    <2>1. ntfns' \in Seq(Ntfn) BY <1>1, <1>2 DEF ChainConnect
    <2>2. UNCHANGED reorgVars BY <1>2 DEF ChainConnect, reorgVars
    <2>3. tip' \in Blocks BY <1>2 DEF ChainConnect
    <2> QED BY <1>2, <2>1, <2>2, <2>3, ReorgUntouched DEF ChainConnect, TypeOK, fetchVars
<1>3. CASE ChainDisconnect
    <2>1. tip \in Blocks \ {Genesis} BY <1>3 DEF ChainDisconnect, TypeOK
    <2>2. ntfns' \in Seq(Ntfn) BY <1>1, <1>3, <2>1 DEF ChainDisconnect
    <2>3. UNCHANGED reorgVars BY <1>3 DEF ChainDisconnect, reorgVars
    <2>4. tip' \in Blocks BY <1>3, <2>1, BlockTreeAssumption DEF ChainDisconnect
    <2> QED BY <1>3, <2>2, <2>3, <2>4, ReorgUntouched DEF ChainDisconnect, TypeOK, fetchVars
<1>4. CASE LinkChange
    <2>1. UNCHANGED reorgVars BY <1>4 DEF LinkChange, reorgVars
    <2> QED BY <1>4, <2>1, ReorgUntouched DEF LinkChange, TypeOK, fetchVars
<1> QED BY <1>2, <1>3, <1>4 DEF DcrdStep

\* However a run ends, the committed database is what it was.
LEMMA TerminateInd == IndInv /\ Terminate => IndInv'
<1> SUFFICES ASSUME IndInv, Terminate PROVE IndInv'
    OBVIOUS
<1>1. IsPartialFcn(fetched, Nat \ {0}, (Blocks \ {Genesis}) \cup {AfterTip})'
    BY DEF Terminate, IsPartialFcn
<1>2. IsDb(wtx)' /\ Linked(wtx)' /\ wtx' = NoTx
    BY EmptyDbLemma DEF Terminate, NoTx
<1>3. db' = db /\ tip' = tip /\ linkUp' = linkUp
    BY DEF Terminate, dcrdVars
<1>4. TypeOK'
    <2>1. ntfns' \in Seq(Ntfn) /\ next' \in Nat \ {0}
        BY DEF Terminate
    <2>4. subscribed' \in BOOLEAN
        BY DEF Terminate
    <2>2. tip' \in Blocks /\ linkUp' \in BOOLEAN /\ IsDb(db)'
        BY <1>3 DEF IndInv, TypeOK
    <2>3. pc' \in PCs /\ (IF InJob' THEN job' \in Job ELSE job' = NoJob)
        BY DEF Terminate, PCs, InJob
    <2> QED BY <1>1, <1>2, <2>1, <2>2, <2>3, <2>4 DEF TypeOK
<1>5. ProcessedIsChain'
    BY <1>2, <1>3 DEF IndInv, ProcessedIsChain
<1>6. ReorgInv'
    BY <1>2 DEF Terminate, ReorgInv, InJob
<1> QED BY <1>4, <1>5, <1>6 DEF IndInv

\* A run starts with the database as it is.
LEMMA StartInd == IndInv /\ Start => IndInv'
<1> SUFFICES ASSUME IndInv, Start PROVE IndInv'
    OBVIOUS
<1>1. job' = job /\ wtx' = wtx /\ db' = db /\ pc = "down" /\ pc' = "startup"
    BY DEF Start
<1>2. TypeOK'
    BY <1>1 DEF Start, IndInv, TypeOK, PCs, InJob, dcrdVars, fetchVars
<1>3. ProcessedIsChain'
    BY <1>1 DEF IndInv, ProcessedIsChain
<1>4. ReorgInv'
    BY <1>1 DEF IndInv, ReorgInv, InJob
<1> QED BY <1>2, <1>3, <1>4 DEF IndInv

\* switchChainTo starts its rollback on the committed database.
LEMMA SwitchChainToLemma ==
    ASSUME IndInv, NEW b \in Blocks \ {Genesis}, NEW ret \in {"launch", "sync", "idle"},
           SwitchChainTo(b, ret), UNCHANGED db
    PROVE  /\ pc' \in PCs /\ InJob' /\ job' \in Job
           /\ IsDb(wtx)' /\ IsDb(db)' /\ ProcessedIsChain' /\ ReorgInv'
<1>1. Parent[b] \in Blocks
    BY BlockTreeAssumption
<1>2. job' \in Job /\ job'.missing = << >> /\ job'.target = b /\ job'.cursor = Parent[b]
    BY <1>1 DEF SwitchChainTo, Job
<1>3. pc' = "rollback" /\ wtx' = db
    BY DEF SwitchChainTo
<1>4. IsDb(wtx)' /\ IsDb(db)'
    BY <1>3 DEF IndInv, TypeOK
<1>5. ProcessedIsChain'
    BY <1>3 DEF IndInv, ProcessedIsChain
<1>6. ReorgInv'
    BY <1>2, <1>3 DEF ReorgInv, InJob, MissingLeadDown, NextToConnect
<1> QED BY <1>2, <1>3, <1>4, <1>5, <1>6 DEF PCs, InJob

\* What the proofs use of the invariant while a switchChainTo is in progress.
LEMMA JobFacts ==
    ASSUME IndInv, InJob
    PROVE  /\ job \in Job
           /\ job.missing \in Seq(Blocks \ {Genesis}) /\ Len(job.missing) \in Nat
           /\ MissingLeadDown
           /\ NextToConnect \in Blocks \ {Genesis}
           /\ Height[NextToConnect] = Height[Parent[NextToConnect]] + 1
           /\ job.missing # << >> =>
                /\ Len(job.missing) \in 1..Len(job.missing)
                /\ NextToConnect = job.missing[Len(job.missing)]
<1>1. job \in Job /\ MissingLeadDown
    BY DEF IndInv, TypeOK, ReorgInv
<1>2. job.missing \in Seq(Blocks \ {Genesis}) /\ job.target \in Blocks \ {Genesis}
    BY <1>1 DEF Job
<1>3. job.missing # << >> => Len(job.missing) \in 1..Len(job.missing)
    BY <1>2
<1>4. NextToConnect \in Blocks \ {Genesis}
    BY <1>2, <1>3 DEF NextToConnect
<1> QED BY <1>1, <1>2, <1>3, <1>4, BlockTreeAssumption DEF NextToConnect

\* Adding the cursor to the missing blocks and moving it to its parent keeps
\* them one chain from the target down to the cursor.
LEMMA CollectLemma ==
    ASSUME IndInv, pc = "rollback", pc' = pc, job.cursor # Genesis,
           job' = [job EXCEPT !.missing = Append(@, job.cursor), !.cursor = Parent[@]]
    PROVE  job' \in Job /\ MissingLeadDown' /\ job'.cursor = Parent[NextToConnect']
<1> DEFINE m == job.missing
           c == job.cursor
<1>1. InJob BY DEF InJob
<1>2. job \in Job /\ m \in Seq(Blocks \ {Genesis}) /\ MissingLeadDown /\ Len(m) \in Nat
    BY <1>1, JobFacts
<1>3. c \in Blocks \ {Genesis} /\ Parent[c] \in Blocks
    BY <1>2, BlockTreeAssumption DEF Job
<1>4. c = Parent[NextToConnect]
    BY DEF IndInv, ReorgInv
<1>5. job'.missing = Append(m, c) /\ job'.target = job.target /\ job'.cursor = Parent[c]
    BY <1>2 DEF Job
<1>6. job' \in Job
    <2>1. Append(m, c) \in Seq(Blocks \ {Genesis}) BY <1>2, <1>3
    <2>2. [job EXCEPT !.missing = Append(m, c), !.cursor = Parent[c]] \in Job
        <3> HIDE DEF m, c
        <3> QED BY <1>2, <1>3, <2>1 DEF Job
    <2> QED BY <2>2
<1> HIDE DEF m, c
<1>7. job'.missing = Append(m, c) /\ job'.target = job.target /\ job'.cursor = Parent[c]
    BY <1>5 DEF m, c
<1>8. NextToConnect' = c
    BY <1>2, <1>3, <1>7 DEF NextToConnect
<1>9. MissingLeadDown'
    <2> SUFFICES ASSUME NEW i \in 1..(Len(m) + 1)
                 PROVE  Append(m, c)[i]
                            = Parent[IF i = 1 THEN job.target ELSE Append(m, c)[i - 1]]
        BY <1>2, <1>3, <1>7 DEF MissingLeadDown
    <2>1. CASE i = Len(m) + 1
        <3>1. CASE Len(m) = 0
            <4>1. m = << >> BY <3>1, <1>2
            <4> QED BY <2>1, <3>1, <4>1, <1>2, <1>3, <1>4 DEF NextToConnect, m
        <3>2. CASE Len(m) # 0
            <4>1. m # << >> /\ i # 1 /\ i - 1 = Len(m) BY <3>2, <2>1, <1>2
            <4>2. Append(m, c)[Len(m)] = m[Len(m)] /\ Append(m, c)[Len(m) + 1] = c
                <5>1. Len(m) \in 1..Len(m) BY <3>2, <1>2
                <5> QED BY <5>1, <1>2, <1>3, AppendProperties
            <4>3. NextToConnect = m[Len(m)] BY <4>1 DEF NextToConnect, m
            <4> QED BY <4>1, <4>2, <4>3, <2>1, <1>4
        <3> QED BY <3>1, <3>2
    <2>2. CASE i # Len(m) + 1
        <3>1. i \in DOMAIN m /\ Append(m, c)[i] = m[i]
              /\ (i # 1 => Append(m, c)[i - 1] = m[i - 1])
            BY <2>2, <1>2, <1>3
        <3> QED BY <3>1, <1>2 DEF MissingLeadDown, m
    <2> QED BY <2>1, <2>2
<1> QED BY <1>6, <1>7, <1>8, <1>9

\* The three loops of rollbackDbChain and its commit.
LEMMA RollbackStepInd == IndInv /\ RollbackStep => IndInv'
<1> SUFFICES ASSUME IndInv, RollbackStep PROVE IndInv'
    OBVIOUS
<1>1. wtx \in DbRecord /\ db \in DbRecord /\ Linked(wtx) /\ Linked(db)
    BY DbIsRecord DEF IndInv, TypeOK, ProcessedIsChain
<1>2. ASSUME pc = "rollback"
      PROVE  /\ InJob /\ job \in Job /\ job.cursor \in Blocks /\ Height[job.cursor] \in Nat
             /\ job.cursor = Parent[NextToConnect]
             /\ (Height[job.cursor] = 0 <=> job.cursor = Genesis)
    <2>1. InJob /\ job \in Job BY <1>2 DEF IndInv, TypeOK, InJob
    <2>2. job.cursor = Parent[NextToConnect] BY <1>2 DEF IndInv, ReorgInv
    <2>3. job.cursor \in Blocks BY <2>1 DEF Job
    <2> QED BY <2>1, <2>2, <2>3, BlockTreeAssumption
<1>3. CASE RewindTip
    <2>1. UndoTip(wtx) \in DbRecord /\ Linked(UndoTip(wtx))
        BY <1>1, <1>3, UndoTipLemma DEF RewindTip
    <2>2. pc = "rollback" /\ pc' = pc /\ job' = job /\ db' = db /\ wtx' = UndoTip(wtx)
        BY <1>3 DEF RewindTip
    <2>3. IsDb(wtx)' /\ Linked(wtx)'
        BY <2>1, <2>2, DbIsRecord
    <2>4. TypeOK'
        BY <1>3, <2>2, <2>3 DEF RewindTip, IndInv, TypeOK, InJob, dcrdVars, fetchVars
    <2>5. ProcessedIsChain'
        BY <2>2, <2>3 DEF IndInv, ProcessedIsChain
    <2>6. ReorgInv'
        BY <2>2 DEF IndInv, ReorgInv, InJob, MissingLeadDown, NextToConnect
    <2> QED BY <2>4, <2>5, <2>6 DEF IndInv
<1>4. CASE CollectMissing
    <2>1. pc = "rollback" /\ pc' = pc /\ wtx' = wtx /\ db' = db
        BY <1>4 DEF CollectMissing
    <2>2. job.cursor # Genesis
        BY <1>1, <1>2, <1>4, <2>1, LastProcessedType DEF CollectMissing
    <2>3. job' \in Job /\ MissingLeadDown' /\ job'.cursor = Parent[NextToConnect']
        BY <1>4, <2>1, <2>2, CollectLemma DEF CollectMissing
    <2>4. TypeOK'
        BY <1>4, <2>1, <2>3 DEF CollectMissing, IndInv, TypeOK, InJob, dcrdVars, fetchVars
    <2>5. ProcessedIsChain'
        BY <2>1 DEF IndInv, ProcessedIsChain
    <2>6. ReorgInv'
        BY <2>1, <2>3 DEF ReorgInv
    <2> QED BY <2>4, <2>5, <2>6 DEF IndInv
<1>5. CASE UnwindTip
    <2>1. pc = "rollback" /\ pc' = pc /\ wtx' = UndoTip(wtx) /\ db' = db
        BY <1>5 DEF UnwindTip
    <2>2. job.cursor # Genesis
        BY <1>1, <1>2, <1>5, <2>1, LastProcessedType DEF UnwindTip
    <2>3. job' \in Job /\ MissingLeadDown' /\ job'.cursor = Parent[NextToConnect']
        BY <1>5, <2>1, <2>2, CollectLemma DEF UnwindTip
    <2>4. UndoTip(wtx) \in DbRecord /\ Linked(UndoTip(wtx))
        BY <1>1, <1>5, UndoTipLemma DEF UnwindTip
    <2>5. IsDb(wtx)' /\ Linked(wtx)'
        BY <2>1, <2>4, DbIsRecord
    <2>6. TypeOK'
        BY <1>5, <2>1, <2>3, <2>5 DEF UnwindTip, IndInv, TypeOK, InJob, dcrdVars, fetchVars
    <2>7. ProcessedIsChain'
        BY <2>1, <2>5 DEF IndInv, ProcessedIsChain
    <2>8. ReorgInv'
        BY <2>1, <2>3 DEF ReorgInv
    <2> QED BY <2>6, <2>7, <2>8 DEF IndInv
<1>6. CASE CommitRollback
    <2> DEFINE pv == IF LastHeight(wtx) > 0 THEN LastProcessedBlock(wtx) ELSE NoBlock
    <2>1. pc = "rollback" /\ pc' = "connect" /\ wtx' = NoTx /\ db' = wtx
          /\ job' = [job EXCEPT !.prev = pv]
        BY <1>6 DEF CommitRollback
    <2>2. pv \in Blocks \cup {NoBlock}
        BY <1>1, LastProcessedType
    <2> HIDE DEF pv
    <2>3. job' \in Job /\ job'.target = job.target /\ job'.missing = job.missing
          /\ job'.prev = pv
        BY <1>2, <2>1, <2>2 DEF Job
    <2>4. NextToConnect' = NextToConnect
        BY <2>3 DEF NextToConnect
    <2>5. MissingLeadDown'
        BY <1>2, <2>1, <2>3 DEF IndInv, ReorgInv, MissingLeadDown
    <2>6. LastProcessedBlock(wtx) = job.cursor /\ LastHeight(wtx) = Height[job.cursor]
        BY <1>1, <1>2, <1>6, <2>1, LastProcessedType DEF CommitRollback
    <2>7. ExtendsTip(db, NextToConnect)'
        BY <1>2, <2>1, <2>4, <2>6, JobFacts DEF ExtendsTip
    <2>8. IsDb(wtx)' /\ Linked(wtx)' /\ IsDb(db)' /\ Linked(db)'
        BY <1>1, <2>1, EmptyDbLemma, DbIsRecord DEF NoTx
    <2>9. TypeOK'
        BY <1>6, <2>1, <2>3, <2>8 DEF CommitRollback, IndInv, TypeOK, PCs, InJob, dcrdVars, fetchVars
    <2>10. job'.prev = IF LastHeight(db') = 0 THEN NoBlock ELSE LastProcessedBlock(db')
        BY <1>1, <2>1, <2>3, LastProcessedType DEF pv
    <2>11. ReorgInv'
        BY <2>1, <2>5, <2>7, <2>10 DEF ReorgInv
    <2> QED BY <2>8, <2>9, <2>11 DEF IndInv, ProcessedIsChain
<1>7. CASE RollbackFails
    BY <1>7, TerminateInd DEF RollbackFails
<1> QED BY <1>3, <1>4, <1>5, <1>6, <1>7 DEF RollbackStep

\* While connecting, the operations are those IterateBlockOps gives for the
\* block and its own parent: an approving block does not read prev, and for a
\* disapproving one prev is the processed tip, its parent.
LEMMA OpsWhileConnecting ==
    ASSUME IndInv, pc = "connect", NEW b, b = NextToConnect,
           Approves[b] \/ job.prev # NoBlock
    PROVE  /\ b \in Blocks \ {Genesis}
           /\ Ops(b, job.prev) = Ops(b, Parent[b])
           /\ Ops(b, job.prev) \in Seq(Op)
           /\ job.prev # NoBlock => job.prev = Parent[b]
<1>1. InJob BY DEF InJob
<1>2. b \in Blocks \ {Genesis} /\ job.prev \in Blocks \cup {NoBlock}
    BY <1>1, JobFacts DEF Job
<1>3. /\ LastProcessedBlock(db) = Parent[b]
      /\ job.prev = IF LastHeight(db) = 0 THEN NoBlock ELSE LastProcessedBlock(db)
    BY DEF IndInv, ReorgInv, ExtendsTip
<1>4. Ops(b, Parent[b]) \in Seq(Op)
    BY <1>2, SyncAssumption
<1>5. CASE Approves[b]
    BY <1>2, <1>3, <1>4, <1>5, SyncAssumption
<1>6. CASE job.prev # NoBlock
    BY <1>2, <1>3, <1>4, <1>6
<1> QED BY <1>5, <1>6

\* reorgToParentOf's loop over the missing blocks and the final connection.
LEMMA ConnectStepInd == IndInv /\ ConnectStep => IndInv'
<1> SUFFICES ASSUME IndInv, ConnectStep PROVE IndInv'
    OBVIOUS
<1>1. db \in DbRecord /\ Linked(db) /\ pc = "connect" /\ wtx = NoTx /\ InJob
    BY DbIsRecord DEF IndInv, TypeOK, ProcessedIsChain, ReorgInv, ConnectStep,
        ConnectMissing, ConnectTarget, InJob
<1>2. CASE ConnectMissing
    <2> DEFINE m == job.missing
               b == m[Len(m)]
               k == Len(m) - 1
               e == ConnectBlock(db, b, job.prev)
    <2>1. /\ ExtendsTip(db, b) /\ (Approves[b] \/ job.prev # NoBlock)
          /\ db' = e /\ m # << >>
          /\ job' = [job EXCEPT !.missing = SubSeq(m, 1, k), !.prev = b]
          /\ UNCHANGED <<dcrdVars, subscribed, ntfns, pc, fetchVars, wtx>>
        BY <1>2 DEF ConnectMissing
    <2>2. /\ job \in Job /\ m \in Seq(Blocks \ {Genesis}) /\ MissingLeadDown
          /\ b = NextToConnect /\ b \in Blocks \ {Genesis} /\ k \in Nat /\ k + 1 = Len(m)
        BY <1>1, <2>1, JobFacts
    <2>3. Ops(b, job.prev) \in Seq(Op)
        BY <1>1, <2>1, <2>2, OpsWhileConnecting
    <2>4. /\ e \in DbRecord /\ Linked(e) /\ LastHeight(e) = Height[b]
          /\ LastProcessedBlock(e) = b
        BY <1>1, <2>1, <2>2, <2>3, ConnectBlockLemma
    <2> HIDE DEF m, b, k, e
    <2>5. /\ SubSeq(m, 1, k) \in Seq(Blocks \ {Genesis}) /\ Len(SubSeq(m, 1, k)) = k
          /\ \A i \in 1..k : SubSeq(m, 1, k)[i] = m[i]
        BY <2>2
    <2>6. job' \in Job /\ job'.missing = SubSeq(m, 1, k) /\ job'.target = job.target
          /\ job'.prev = b
        BY <2>1, <2>2, <2>5 DEF Job
    <2>7. MissingLeadDown'
        <3> SUFFICES ASSUME NEW i \in 1..k
                     PROVE  SubSeq(m, 1, k)[i]
                            = Parent[IF i = 1 THEN job.target ELSE SubSeq(m, 1, k)[i - 1]]
            BY <2>5, <2>6 DEF MissingLeadDown
        <3>1. i \in DOMAIN m /\ (i # 1 => i - 1 \in 1..k) BY <2>2
        <3> QED BY <3>1, <2>2, <2>5 DEF MissingLeadDown, m
    <2>8. NextToConnect' \in Blocks \ {Genesis} /\ Parent[NextToConnect'] = b
        <3>1. k + 1 \in DOMAIN m /\ m[k + 1] = b BY <2>2 DEF b
        <3>2. CASE k = 0
            <4>1. SubSeq(m, 1, k) = << >> BY <3>2, <2>5
            <4>2. NextToConnect' = job.target BY <4>1, <2>6 DEF NextToConnect
            <4>3. m[1] = Parent[job.target] BY <3>1, <3>2, <2>2 DEF MissingLeadDown, m
            <4> QED BY <4>2, <4>3, <3>1, <3>2, <2>2 DEF Job
        <3>3. CASE k # 0
            <4>1. SubSeq(m, 1, k) # << >> /\ k \in 1..k BY <3>3, <2>2, <2>5
            <4>2. NextToConnect' = m[k] BY <4>1, <2>5, <2>6 DEF NextToConnect
            <4>3. k + 1 # 1 /\ (k + 1) - 1 = k /\ k \in DOMAIN m BY <3>3, <2>2
            <4>4. m[k + 1] = Parent[m[k]] BY <4>3, <3>1, <2>2 DEF MissingLeadDown, m
            <4> QED BY <4>2, <4>3, <4>4, <3>1, <2>2
        <3> QED BY <3>2, <3>3
    <2>9. ExtendsTip(db, NextToConnect)'
        BY <2>1, <2>2, <2>4, <2>8, BlockTreeAssumption DEF ExtendsTip
    <2>10. LastHeight(e) # 0
        BY <2>2, <2>4, BlockTreeAssumption
    <2>11. ReorgInv'
        BY <1>1, <2>1, <2>4, <2>6, <2>7, <2>9, <2>10 DEF ReorgInv
    <2>12. IsDb(db)' /\ Linked(db)'
        BY <2>1, <2>4, DbIsRecord
    <2>13. TypeOK'
        BY <1>1, <2>1, <2>6, <2>12 DEF IndInv, TypeOK, InJob, dcrdVars, fetchVars
    <2> QED BY <2>1, <2>11, <2>12, <2>13 DEF IndInv, ProcessedIsChain
<1>3. CASE ConnectTarget
    <2> DEFINE b == job.target
               e == ConnectBlock(db, b, job.prev)
    <2>1. /\ ExtendsTip(db, b) /\ (Approves[b] \/ job.prev # NoBlock)
          /\ job.missing = << >> /\ db' = e /\ pc' = job.ret /\ job' = NoJob
          /\ UNCHANGED <<dcrdVars, subscribed, ntfns, fetchVars, wtx>>
        BY <1>3 DEF ConnectTarget
    <2>2. b = NextToConnect /\ b \in Blocks \ {Genesis} /\ job.ret \in {"launch", "sync", "idle"}
        BY <1>1, <2>1, JobFacts DEF NextToConnect, Job
    <2>3. Ops(b, job.prev) \in Seq(Op)
        BY <1>1, <2>1, <2>2, OpsWhileConnecting
    <2>4. e \in DbRecord /\ Linked(e)
        BY <1>1, <2>1, <2>2, <2>3, ConnectBlockLemma
    <2> HIDE DEF b, e
    <2>5. IsDb(db)' /\ Linked(db)'
        BY <2>1, <2>4, DbIsRecord
    <2>6. TypeOK'
        BY <2>1, <2>2, <2>5 DEF IndInv, TypeOK, PCs, InJob, dcrdVars, fetchVars
    <2>7. ReorgInv'
        BY <1>1, <2>1, <2>2 DEF ReorgInv, InJob
    <2> QED BY <2>1, <2>5, <2>6, <2>7 DEF IndInv, ProcessedIsChain
<1> QED BY <1>2, <1>3 DEF ConnectStep

\* Preprocessing at startup: the tip check, the workers and the consumer.
LEMMA StartupStepInd == IndInv /\ StartupStep => IndInv'
<1> SUFFICES ASSUME IndInv, StartupStep PROVE IndInv'
    OBVIOUS
<1>1. LastHeight(db) + 1 \in Nat \ {0} /\ next \in Nat \ {0}
    <2>1. db \in DbRecord BY DbIsRecord DEF IndInv, TypeOK
    <2> QED BY <2>1, LastProcessedType DEF IndInv, TypeOK
<1>2. IsPartialFcn(fetched, Nat \ {0}, (Blocks \ {Genesis}) \cup {AfterTip})
    BY DEF IndInv, TypeOK
<1>3. CASE StartOnMainChain
    <2>1. pc = "startup" /\ pc' = "launch" /\ UNCHANGED <<job, wtx, db>>
        BY <1>3 DEF StartOnMainChain
    <2>2. TypeOK'
        BY <1>3, <2>1 DEF StartOnMainChain, IndInv, TypeOK, PCs, InJob, dcrdVars, fetchVars
    <2>3. ProcessedIsChain' /\ ReorgInv'
        BY <2>1 DEF IndInv, ProcessedIsChain, ReorgInv, InJob
    <2> QED BY <2>2, <2>3 DEF IndInv
<1>4. CASE StartReorged
    <2>1. PICK b \in Blocks \ {Genesis} : SwitchChainTo(b, "launch")
        BY <1>4 DEF StartReorged
    <2>2. /\ pc' \in PCs /\ InJob' /\ job' \in Job
          /\ IsDb(wtx)' /\ IsDb(db)' /\ ProcessedIsChain' /\ ReorgInv'
        BY <1>4, <2>1, SwitchChainToLemma DEF StartReorged
    <2>3. TypeOK'
        BY <1>4, <2>2 DEF StartReorged, IndInv, TypeOK, dcrdVars, fetchVars
    <2> QED BY <2>2, <2>3 DEF IndInv
<1>10. CASE LaunchWorkers
    <2>1. pc = "launch" /\ pc' = "sync" /\ UNCHANGED <<job, wtx, db>>
        BY <1>10 DEF LaunchWorkers
    <2>2. TypeOK'
        BY <1>1, <1>10, <2>1 DEF LaunchWorkers, IndInv, TypeOK, PCs, InJob, dcrdVars
    <2>3. ProcessedIsChain' /\ ReorgInv'
        BY <2>1 DEF IndInv, ProcessedIsChain, ReorgInv, InJob
    <2> QED BY <2>2, <2>3 DEF IndInv
<1>5. ASSUME NEW h \in next..(next + Concurrency - 1), FetchBlock(h) PROVE IndInv'
    <2>1. h \in Nat \ {0}
        BY <1>1, SyncAssumption
    <2>2. PICK r \in (Blocks \ {Genesis}) \cup {AfterTip} :
              fetched' = [k \in DOMAIN fetched \cup {h} |-> IF k = h THEN r ELSE fetched[k]]
        <3>1. PICK r \in Blocks \cup {AfterTip} :
                /\ IF MainChainAt(tip, h) = {} THEN r = AfterTip ELSE r \in MainChainAt(tip, h)
                /\ fetched' = [k \in DOMAIN fetched \cup {h} |->
                                    IF k = h THEN r ELSE fetched[k]]
            BY <1>5 DEF FetchBlock
        <3>2. r \in (Blocks \ {Genesis}) \cup {AfterTip}
            BY <2>1, <3>1, BlockTreeAssumption DEF MainChainAt, AfterTip
        <3> QED BY <3>1, <3>2
    <2>3. IsPartialFcn(fetched, Nat \ {0}, (Blocks \ {Genesis}) \cup {AfterTip})'
        BY <1>2, <2>1, <2>2 DEF IsPartialFcn
    <2>4. UNCHANGED reorgVars
        BY <1>5 DEF FetchBlock, reorgVars
    <2>5. TypeOK'
        BY <1>5, <2>3, <2>4, ReorgUntouched DEF FetchBlock, IndInv, TypeOK, dcrdVars
    <2> QED BY <2>4, <2>5, ReorgUntouched DEF IndInv
<1>6. CASE TakeFetched
    <2>1. fetched[next] \in Blocks \ {Genesis}
        BY <1>2, <1>6 DEF TakeFetched, IsPartialFcn
    <2>2. SwitchChainTo(fetched[next], "sync") /\ UNCHANGED db
        BY <1>6 DEF TakeFetched
    <2>3. /\ pc' \in PCs /\ InJob' /\ job' \in Job
          /\ IsDb(wtx)' /\ IsDb(db)' /\ ProcessedIsChain' /\ ReorgInv'
        BY <2>1, <2>2, SwitchChainToLemma
    <2>4. IsPartialFcn(fetched, Nat \ {0}, (Blocks \ {Genesis}) \cup {AfterTip})'
        BY <1>2, <1>6 DEF TakeFetched, IsPartialFcn
    <2>5. next' \in Nat \ {0}
        BY <1>1, <1>6 DEF TakeFetched
    <2>6. TypeOK'
        BY <1>6, <2>3, <2>4, <2>5 DEF TakeFetched, IndInv, TypeOK, dcrdVars
    <2> QED BY <2>3, <2>6 DEF IndInv
<1>7. CASE ReachTip
    <2>1. pc = "sync" /\ pc' = "subscribe" /\ UNCHANGED <<job, wtx, db>>
        BY <1>7 DEF ReachTip
    <2>2. IsPartialFcn(fetched, Nat \ {0}, (Blocks \ {Genesis}) \cup {AfterTip})'
        BY <1>7 DEF ReachTip, IsPartialFcn
    <2>3. TypeOK'
        BY <1>7, <2>1, <2>2 DEF ReachTip, IndInv, TypeOK, PCs, InJob, dcrdVars
    <2>4. ProcessedIsChain' /\ ReorgInv'
        BY <2>1 DEF IndInv, ProcessedIsChain, ReorgInv, InJob
    <2> QED BY <2>3, <2>4 DEF IndInv
<1>8. CASE NotifyBlocks
    <2>1. pc = "subscribe" /\ pc' = "idle" /\ UNCHANGED <<job, wtx, db>>
        BY <1>8 DEF NotifyBlocks
    <2>2. subscribed' \in BOOLEAN
        BY <1>8 DEF NotifyBlocks
    <2>3. TypeOK'
        BY <1>8, <2>1, <2>2 DEF NotifyBlocks, IndInv, TypeOK, PCs, InJob, dcrdVars, fetchVars
    <2>4. ProcessedIsChain' /\ ReorgInv'
        BY <2>1 DEF IndInv, ProcessedIsChain, ReorgInv, InJob
    <2> QED BY <2>3, <2>4 DEF IndInv
<1>9. CASE StartPastChain
    BY <1>9, TerminateInd DEF StartPastChain
<1> QED BY <1>3, <1>4, <1>5, <1>6, <1>7, <1>8, <1>9, <1>10 DEF StartupStep

\* The notification handlers.
LEMMA EventStepInd == IndInv /\ EventStep => IndInv'
<1> SUFFICES ASSUME IndInv, EventStep PROVE IndInv'
    OBVIOUS
<1>1. ntfns \in Seq(Ntfn) /\ ntfns # << >> /\ ntfns' = Tail(ntfns)
    BY DEF IndInv, TypeOK, EventStep, IgnoreConnected, HandleBlockConnected,
        HandleBlockDisconnected
<1>2. ntfns' \in Seq(Ntfn) /\ Head(ntfns) \in Ntfn
    BY <1>1
<1>3. CASE IgnoreConnected
    <2>1. UNCHANGED reorgVars
        BY <1>3 DEF IgnoreConnected, reorgVars
    <2>2. TypeOK'
        BY <1>2, <1>3, <2>1, ReorgUntouched DEF IgnoreConnected, IndInv, TypeOK, dcrdVars, fetchVars
    <2> QED BY <2>1, <2>2, ReorgUntouched DEF IndInv
<1>4. CASE HandleBlockConnected
    <2>1. Head(ntfns).block \in Blocks \ {Genesis}
        BY <1>2 DEF Ntfn
    <2>2. SwitchChainTo(Head(ntfns).block, "idle") /\ UNCHANGED db
        BY <1>4 DEF HandleBlockConnected
    <2>3. /\ pc' \in PCs /\ InJob' /\ job' \in Job
          /\ IsDb(wtx)' /\ IsDb(db)' /\ ProcessedIsChain' /\ ReorgInv'
        BY <2>1, <2>2, SwitchChainToLemma
    <2>4. TypeOK'
        BY <1>2, <1>4, <2>3 DEF HandleBlockConnected, IndInv, TypeOK, dcrdVars, fetchVars
    <2> QED BY <2>3, <2>4 DEF IndInv
<1>5. CASE HandleBlockDisconnected
    <2>1. pc = "idle" /\ pc' = pc /\ job' = job /\ wtx' = wtx
        BY <1>5 DEF HandleBlockDisconnected
    <2>2. db \in DbRecord /\ Linked(db)
        BY DbIsRecord DEF IndInv, TypeOK, ProcessedIsChain
    <2>3. db' \in DbRecord /\ Linked(db')
        BY <1>5, <2>2, UndoTipLemma DEF HandleBlockDisconnected
    <2>4. IsDb(db)' /\ Linked(db)'
        BY <2>3, DbIsRecord
    <2>5. TypeOK'
        BY <1>2, <1>5, <2>1, <2>4
        DEF HandleBlockDisconnected, IndInv, TypeOK, InJob, dcrdVars, fetchVars
    <2>6. ReorgInv'
        BY <2>1 DEF IndInv, ReorgInv, InJob
    <2>7. ProcessedIsChain'
        BY <2>1, <2>4 DEF IndInv, ProcessedIsChain
    <2> QED BY <2>5, <2>6, <2>7 DEF IndInv
<1> QED BY <1>3, <1>4, <1>5 DEF EventStep

\* Every step preserves the invariant.
LEMMA NextInd == IndInv /\ [Next]_vars => IndInv'
<1> SUFFICES ASSUME IndInv, [Next]_vars PROVE IndInv'
    OBVIOUS
<1>1. CASE Stop
    BY <1>1, TerminateInd DEF Stop
<1>2. CASE UNCHANGED vars
    <2>1. UNCHANGED reorgVars
        BY <1>2 DEF vars, reorgVars
    <2>2. TypeOK'
        BY <1>2, <2>1, ReorgUntouched DEF vars, IndInv, TypeOK
    <2> QED BY <2>1, <2>2, ReorgUntouched DEF IndInv
<1>3. CASE Next
    BY <1>1, <1>3, DcrdStepInd, StartInd, StartupStepInd, EventStepInd, RollbackStepInd,
       ConnectStepInd DEF Next, RunStep
<1> QED BY <1>2, <1>3

\* The invariant holds in every reachable state.
LEMMA AlwaysInd == Spec => []IndInv
BY InitInd, NextInd, PTL DEF Spec

-----------------------------------------------------------------------------
(* The theorems.                                                           *)

\* Every variable keeps its type; in particular every block the reorg
\* machinery asks dcrd for exists, and what it stores has the store's types.
THEOREM TypeCorrect == Spec => []TypeOK
<1>1. IndInv => TypeOK BY DEF IndInv
<1> QED BY <1>1, AlwaysInd, PTL

\* The processed blocks are one branch of the block tree, through any mix of
\* reorgs, lost notifications, rollbacks and crashes.
THEOREM ChainTheorem == Spec => []ProcessedIsChain
<1>1. IndInv => ProcessedIsChain BY DEF IndInv
<1> QED BY <1>1, AlwaysInd, PTL

\* reorgToParentOf and switchChainTo only connect blocks that extend the tip,
\* with the block a disapproval reverses at hand: the two errors of
\* preProcessAccountBlock about it are unreachable.
THEOREM OrderTheorem == Spec => []ConnectsInOrder
<1>1. IndInv => ConnectsInOrder
    <2> SUFFICES ASSUME IndInv, pc = "connect", ~Approves[NextToConnect]
                 PROVE  ExtendsTip(db, NextToConnect) /\ job.prev = Parent[NextToConnect]
        BY DEF ConnectsInOrder, IndInv, ReorgInv
    <2>1. InJob BY DEF InJob
    <2>2. NextToConnect \in Blocks \ {Genesis} BY <2>1, JobFacts
    <2>3. ExtendsTip(db, NextToConnect)
          /\ job.prev = IF LastHeight(db) = 0 THEN NoBlock ELSE LastProcessedBlock(db)
        BY DEF IndInv, ReorgInv
    <2>4. Parent[NextToConnect] # Genesis
        BY <2>2, BlockTreeAssumption
    <2>5. LastHeight(db) # 0
        <3>1. db \in DbRecord BY DbIsRecord DEF IndInv, TypeOK
        <3> QED BY <3>1, <2>3, <2>4, LastProcessedType DEF ExtendsTip
    <2> QED BY <2>3, <2>5 DEF ExtendsTip
<1> QED BY <1>1, AlwaysInd, PTL

-----------------------------------------------------------------------------
(* The balance history.                                                    *)

\* BalancesAddUp, of any database.
AddsUp(d) ==
    \A a \in Accounts : \A h \in 1..LastHeight(d) :
        Balance(d, a, h) = Balance(d, a, h - 1)
                           + NetAmount(Ops(d.processed[h], Parent[d.processed[h]]), a)

BalanceInv == IndInv /\ AddsUp(db) /\ AddsUp(wtx)

\* Two databases with the same history up to height n have the same balances
\* there, so one adds up where the other does.
LEMMA AddsUpLocal ==
    ASSUME NEW d \in DbRecord, NEW e \in DbRecord, NEW n \in Nat, AddsUp(d),
           n <= LastHeight(d), n <= Len(d.balances), n <= Len(e.balances),
           \A k \in 1..n : d.balances[k] = e.balances[k] /\ d.processed[k] = e.processed[k]
    PROVE  \A a \in Accounts : \A h \in 1..n :
              Balance(e, a, h) = Balance(e, a, h - 1)
                                 + NetAmount(Ops(e.processed[h], Parent[e.processed[h]]), a)
<1> SUFFICES ASSUME NEW a \in Accounts, NEW h \in 1..n
             PROVE  Balance(e, a, h) = Balance(e, a, h - 1)
                        + NetAmount(Ops(e.processed[h], Parent[e.processed[h]]), a)
    OBVIOUS
<1>1. LastHeight(d) \in Nat /\ Len(d.balances) \in Nat /\ Len(e.balances) \in Nat
    BY LastProcessedType DEF DbRecord
<1>2. ASSUME NEW k \in 0..n PROVE Balance(e, a, k) = Balance(d, a, k)
    <2>1. k \in Nat /\ k <= Len(d.balances) /\ k <= Len(e.balances) /\ 1..k \subseteq 1..n
        BY <1>1
    <2> QED BY <2>1, BalanceLocal
<1>3. h \in 1..LastHeight(d) /\ h \in 0..n /\ h - 1 \in 0..n
    BY <1>1
<1>4. Balance(d, a, h) = Balance(d, a, h - 1)
          + NetAmount(Ops(d.processed[h], Parent[d.processed[h]]), a)
    BY <1>3 DEF AddsUp
<1> QED BY <1>2, <1>3, <1>4

\* Rolling back the tip keeps the history below it.
LEMMA UndoAddsUp ==
    ASSUME NEW d \in DbRecord, Linked(d), CanRollbackTip(d), AddsUp(d)
    PROVE  AddsUp(UndoTip(d))
<1> DEFINE e == UndoTip(d)
           n == LastHeight(d) - 1
<1>1. /\ e \in DbRecord /\ Linked(e) /\ LastHeight(e) = n
      /\ \A h \in 1..n : e.processed[h] = d.processed[h] /\ e.balances[h] = d.balances[h]
    BY UndoTipLemma
<1>2. n \in Nat /\ n <= LastHeight(d) /\ Len(d.balances) = LastHeight(d)
      /\ Len(e.balances) = LastHeight(e)
    BY <1>1, LastProcessedType DEF CanRollbackTip, Linked, LastHeight
<1> HIDE DEF e, n
<1>3. n <= Len(d.balances) /\ n <= Len(e.balances)
    BY <1>1, <1>2
<1>4. \A a \in Accounts : \A h \in 1..n :
          Balance(e, a, h) = Balance(e, a, h - 1)
                             + NetAmount(Ops(e.processed[h], Parent[e.processed[h]]), a)
    BY <1>1, <1>2, <1>3, AddsUpLocal
<1> QED BY <1>1, <1>4 DEF AddsUp, e

\* Connecting a block extends the history: a touched account's new record is
\* its last balance plus the block's operations, and an account without a
\* record at the new height is one the block's operations leave alone.
LEMMA ConnectAddsUp ==
    ASSUME NEW d \in DbRecord, NEW b \in Blocks \ {Genesis}, NEW prev,
           Linked(d), ExtendsTip(d, b), AddsUp(d),
           Ops(b, prev) \in Seq(Op), Ops(b, prev) = Ops(b, Parent[b])
    PROVE  AddsUp(ConnectBlock(d, b, prev))
<1> DEFINE e == ConnectBlock(d, b, prev)
           ops == Ops(b, prev)
           nb == NewBalances(d, ops)
           n == LastHeight(d)
<1>1. /\ e \in DbRecord /\ Linked(e) /\ e.processed = Append(d.processed, b)
      /\ e.balances = Append(d.balances, nb) /\ LastHeight(e) = Height[b]
    BY ConnectBlockLemma
<1>2. n \in Nat /\ LastHeight(e) = n + 1 /\ Len(d.balances) = n /\ Len(d.processed) = n
      /\ ops \in Seq(Op)
    BY <1>1, LastProcessedType, BlockTreeAssumption DEF ExtendsTip, Linked, LastHeight
<1>3. Len(e.balances) = n + 1
    BY <1>1, <1>2 DEF Linked, LastHeight
<1>4. d.processed \in Seq(Blocks \ {Genesis}) /\ d.balances \in Seq(BalanceRecords)
    BY DEF DbRecord
<1> HIDE DEF e, ops, nb, n
<1>5. /\ \A k \in 1..n : d.balances[k] = e.balances[k] /\ d.processed[k] = e.processed[k]
      /\ e.processed[n + 1] = b /\ e.balances[n + 1] = nb
    BY <1>1, <1>2, <1>4
<1>6. n <= LastHeight(d) /\ n <= Len(d.balances) /\ n <= Len(e.balances)
    BY <1>2, <1>3 DEF n
<1>7. \A a \in Accounts : \A h \in 1..n :
          Balance(e, a, h) = Balance(e, a, h - 1)
                             + NetAmount(Ops(e.processed[h], Parent[e.processed[h]]), a)
    BY <1>1, <1>2, <1>5, <1>6, AddsUpLocal
<1>8. ASSUME NEW a \in Accounts
      PROVE  Balance(e, a, n + 1) = Balance(e, a, n) + NetAmount(ops, a)
    <2>1. Balance(e, a, n) = Balance(d, a, n)
        BY <1>1, <1>2, <1>5, <1>6, BalanceLocal
    <2>2. CASE a \in Touched(ops)
        <3>1. DOMAIN nb = Touched(ops) /\ nb[a] = Balance(d, a, n) + NetAmount(ops, a)
            BY <2>2 DEF nb, NewBalances, n
        <3>2. n + 1 \in RecordedHeights(e, a, n + 1)
            BY <1>2, <1>3, <1>5, <2>2, <3>1 DEF RecordedHeights
        <3>3. n + 1 \in Nat BY <1>2
        <3>4. PICK m \in RecordedHeights(e, a, n + 1) :
                  /\ \A k \in RecordedHeights(e, a, n + 1) : k <= m
                  /\ Balance(e, a, n + 1) = e.balances[m][a]
            BY <1>1, <3>2, <3>3, BalanceIsRecord
        <3>5. m = n + 1
            <4>1. m \in 1..(n + 1) /\ n + 1 <= m BY <3>2, <3>4 DEF RecordedHeights
            <4> QED BY <4>1, <1>2
        <3> QED BY <1>5, <2>1, <3>1, <3>4, <3>5
    <2>3. CASE a \notin Touched(ops)
        <3>1. DOMAIN nb = Touched(ops)
            BY DEF nb, NewBalances
        <3>2. RecordedHeights(e, a, n + 1) = RecordedHeights(e, a, n)
            BY <1>2, <1>5, <2>3, <3>1 DEF RecordedHeights
        <3>3. Balance(e, a, n + 1) = Balance(e, a, n)
            BY <3>2 DEF Balance
        <3>4. NetAmount(ops, a) = 0
            BY <1>2, <2>3, NetAmountUntouched
        <3>5. Balance(e, a, n) \in Int
            BY <1>1, <1>2, BalanceType
        <3> QED BY <3>3, <3>4, <3>5
    <2> QED BY <2>2, <2>3
<1>9. ASSUME NEW a \in Accounts, NEW h \in 1..(n + 1)
      PROVE  Balance(e, a, h) = Balance(e, a, h - 1)
                 + NetAmount(Ops(e.processed[h], Parent[e.processed[h]]), a)
    <2>1. CASE h = n + 1
        <3>1. h - 1 = n /\ Ops(e.processed[h], Parent[e.processed[h]]) = ops
            BY <1>2, <1>5, <2>1 DEF ops
        <3> QED BY <1>8, <2>1, <3>1
    <2>2. CASE h # n + 1
        <3>1. h \in 1..n BY <1>2, <2>2
        <3> QED BY <1>7, <3>1
    <2> QED BY <2>1, <2>2
<1> QED BY <1>2, <1>9 DEF AddsUp, e

\* What a step may make of the committed database and of the copy: one of the
\* two as it was, an empty one, one of the two without its tip, or the committed
\* database with one block more.
ReachedInOneStep(e) ==
    \/ e \in {db, wtx, NoTx}
    \/ \E d \in {db, wtx} : CanRollbackTip(d) /\ e = UndoTip(d)
    \/ \E b \in Blocks \ {Genesis}, prev \in Blocks \cup {NoBlock} :
        /\ ExtendsTip(db, b)
        /\ Ops(b, prev) = Ops(b, Parent[b]) /\ Ops(b, prev) \in Seq(Op)
        /\ e = ConnectBlock(db, b, prev)

\* The database and the open Update are reached one operation at a time.
LEMMA DbSteps == IndInv /\ [Next]_vars => ReachedInOneStep(db') /\ ReachedInOneStep(wtx')
<1> SUFFICES ASSUME IndInv, [Next]_vars PROVE ReachedInOneStep(db') /\ ReachedInOneStep(wtx')
    OBVIOUS
<1>1. \A e \in {db, wtx, NoTx} : ReachedInOneStep(e)
    BY DEF ReachedInOneStep
<1>2. \A d \in {db, wtx} : CanRollbackTip(d) => ReachedInOneStep(UndoTip(d))
    BY DEF ReachedInOneStep
<1>3. CASE UNCHANGED <<db, wtx>>
    BY <1>1, <1>3
<1>4. CASE Terminate
    BY <1>1, <1>4 DEF Terminate
<1>5. ASSUME NEW b, NEW ret, SwitchChainTo(b, ret), UNCHANGED db
      PROVE  ReachedInOneStep(db') /\ ReachedInOneStep(wtx')
    BY <1>1, <1>5 DEF SwitchChainTo
<1>6. CASE HandleBlockDisconnected
    BY <1>1, <1>2, <1>6 DEF HandleBlockDisconnected
<1>7. CASE RewindTip
    BY <1>1, <1>2, <1>7 DEF RewindTip
<1>8. CASE UnwindTip
    BY <1>1, <1>2, <1>8 DEF UnwindTip
<1>9. CASE CommitRollback
    BY <1>1, <1>9 DEF CommitRollback
<1>10. ASSUME NEW b, pc = "connect", ExtendsTip(db, b), Approves[b] \/ job.prev # NoBlock,
              db' = ConnectBlock(db, b, job.prev), wtx' = wtx, b = NextToConnect
       PROVE  ReachedInOneStep(db') /\ ReachedInOneStep(wtx')
    <2>1. /\ b \in Blocks \ {Genesis} /\ Ops(b, job.prev) = Ops(b, Parent[b])
          /\ Ops(b, job.prev) \in Seq(Op)
        BY <1>10, OpsWhileConnecting
    <2>2. job.prev \in Blocks \cup {NoBlock}
        BY <1>10, JobFacts DEF InJob, Job
    <2>3. ReachedInOneStep(db') BY <1>10, <2>1, <2>2 DEF ReachedInOneStep
    <2> QED BY <1>1, <1>10, <2>3
<1>11. CASE ConnectMissing
    BY <1>10, <1>11 DEF ConnectMissing, NextToConnect
<1>12. CASE ConnectTarget
    BY <1>10, <1>12 DEF ConnectTarget, NextToConnect
<1>13. CASE DcrdStep \/ Start
    BY <1>3, <1>13 DEF DcrdStep, ChainConnect, ChainDisconnect, LinkChange, Start
<1>14. CASE StartupStep
    <2>1. CASE StartReorged BY <1>5, <2>1 DEF StartReorged
    <2>2. CASE TakeFetched BY <1>5, <2>2 DEF TakeFetched
    <2>3. CASE StartPastChain BY <1>4, <2>3 DEF StartPastChain
    <2> QED BY <1>3, <1>14, <2>1, <2>2, <2>3
        DEF StartupStep, StartOnMainChain, LaunchWorkers, FetchBlock, ReachTip, NotifyBlocks
<1>15. CASE IgnoreConnected
    BY <1>3, <1>15 DEF IgnoreConnected
<1>16. CASE HandleBlockConnected
    BY <1>5, <1>16 DEF HandleBlockConnected
<1>17. CASE CollectMissing
    BY <1>3, <1>17 DEF CollectMissing
<1>18. CASE RollbackFails \/ Stop
    BY <1>4, <1>18 DEF RollbackFails, Stop
<1>19. CASE UNCHANGED vars
    BY <1>3, <1>19 DEF vars
<1> QED BY <1>6, <1>7, <1>8, <1>9, <1>11, <1>12, <1>13, <1>14, <1>15, <1>16, <1>17, <1>18, <1>19
        DEF Next, RunStep, EventStep, RollbackStep, ConnectStep

\* Every step keeps the history adding up.
LEMMA BalanceInit == Init => BalanceInv
<1>1. AddsUp(EmptyDb) BY DEF AddsUp, EmptyDb, LastHeight
<1> QED BY <1>1, InitInd DEF Init, BalanceInv, NoTx

\* Every step keeps the invariant.
LEMMA BalanceNext == BalanceInv /\ [Next]_vars => BalanceInv'
<1> SUFFICES ASSUME BalanceInv, [Next]_vars PROVE AddsUp(db') /\ AddsUp(wtx')
    BY NextInd DEF BalanceInv, AddsUp
<1>1. IndInv /\ AddsUp(db) /\ AddsUp(wtx) BY DEF BalanceInv
<1>2. db \in DbRecord /\ wtx \in DbRecord /\ Linked(db) /\ Linked(wtx)
    BY <1>1, DbIsRecord DEF IndInv, TypeOK, ProcessedIsChain
<1>3. AddsUp(NoTx)
    BY DEF AddsUp, NoTx, EmptyDb, LastHeight
<1>4. ASSUME NEW e, ReachedInOneStep(e) PROVE AddsUp(e)
    <2>1. CASE e \in {db, wtx, NoTx} BY <1>1, <1>3, <2>1
    <2>2. CASE \E d \in {db, wtx} : CanRollbackTip(d) /\ e = UndoTip(d)
        BY <1>1, <1>2, <2>2, UndoAddsUp
    <2>3. CASE \E b \in Blocks \ {Genesis}, prev \in Blocks \cup {NoBlock} :
                 /\ ExtendsTip(db, b)
                 /\ Ops(b, prev) = Ops(b, Parent[b]) /\ Ops(b, prev) \in Seq(Op)
                 /\ e = ConnectBlock(db, b, prev)
        BY <1>1, <1>2, <2>3, ConnectAddsUp
    <2> QED BY <1>4, <2>1, <2>2, <2>3 DEF ReachedInOneStep
<1> QED BY <1>1, <1>4, DbSteps

\* The balance history is exact: at every processed height every account's
\* balance is the one a block earlier plus that block's operations, although
\* StoreBalances records only touched accounts and RollbackTip drops records.
THEOREM BalanceTheorem == Spec => []BalancesAddUp
<1>1. BalanceInv => BalancesAddUp
    BY DEF BalanceInv, AddsUp, BalancesAddUp
<1> QED BY <1>1, BalanceInit, BalanceNext, PTL DEF Spec

-----------------------------------------------------------------------------
(* The block tree.                                                         *)

\* What holds of genesis, and of a block when it holds of its parent, holds of
\* every block.
LEMMA BlockInduction ==
    ASSUME NEW G, Genesis \in G,
           \A b \in Blocks \ {Genesis} : Parent[b] \in G => b \in G
    PROVE  Blocks \subseteq G
<1> DEFINE Bad == Blocks \ G
           Hs == {Height[b] : b \in Bad}
<1> SUFFICES ASSUME Bad # {} PROVE FALSE
    OBVIOUS
<1>1. Hs \in SUBSET Nat /\ Hs # {}
    BY BlockTreeAssumption
<1>2. PICK m \in Hs : \A k \in Hs : m <= k
    <2> HIDE DEF Hs
    <2> QED BY <1>1, LeastNat
<1>3. PICK b \in Bad : Height[b] = m
    BY <1>2
<1>4. b \in Blocks \ {Genesis} /\ Parent[b] \in Blocks /\ Parent[b] \in Bad
    BY <1>3, BlockTreeAssumption
<1>5. Height[Parent[b]] \in Hs
    BY <1>4
<1>6. m <= Height[Parent[b]]
    <2> HIDE DEF Hs
    <2> QED BY <1>2, <1>5
<1> QED BY <1>3, <1>4, <1>6, BlockTreeAssumption

\* The equation Ancestors is defined by: the least set that holds the block
\* and is closed under Parent solves it.
LEMMA AncestorsDef ==
    ASSUME NEW b \in Blocks
    PROVE  Ancestors[b] = {b} \cup (IF b = Genesis THEN {} ELSE Ancestors[Parent[b]])
<1> DEFINE Closed(x, S) == x \in S /\ \A y \in S \ {Genesis} : Parent[y] \in S
           Least(x) == {c \in Blocks : \A S \in SUBSET Blocks : Closed(x, S) => c \in S}
           Eqn(f) == f = [x \in Blocks |->
                             {x} \cup (IF x = Genesis THEN {} ELSE f[Parent[x]])]
           w == [x \in Blocks |-> Least(x)]
<1>1. ASSUME NEW x \in Blocks
      PROVE  Least(x) = {x} \cup (IF x = Genesis THEN {} ELSE Least(Parent[x]))
    <2>1. CASE x = Genesis
        <3>1. Closed(x, {x}) BY <2>1
        <3>2. {x} \in SUBSET Blocks OBVIOUS
        <3>3. x \in Least(x) OBVIOUS
        <3> QED BY <3>1, <3>2, <3>3, <2>1
    <2>2. CASE x # Genesis
        <3> DEFINE p == Parent[x]
                   T == {x} \cup Least(p)
        <3>1. p \in Blocks BY <2>2, BlockTreeAssumption
        <3>2. Least(x) \subseteq T
            <4>1. \A S \in SUBSET Blocks : Closed(p, S) => p \in S OBVIOUS
            <4>2. p \in Least(p) BY <4>1, <3>1
            <4>3. ASSUME NEW y \in Least(p) \ {Genesis} PROVE Parent[y] \in Least(p)
                <5>1. y \in Blocks /\ Parent[y] \in Blocks BY BlockTreeAssumption
                <5>2. ASSUME NEW S \in SUBSET Blocks, Closed(p, S) PROVE Parent[y] \in S
                    <6>1. y \in S BY <5>2
                    <6> QED BY <6>1, <5>2
                <5> QED BY <5>1, <5>2
            <4>4. T \in SUBSET Blocks OBVIOUS
            <4>5. Closed(x, T) BY <4>2, <4>3
            <4> HIDE DEF T
            <4> QED BY <4>4, <4>5
        <3>3. ASSUME NEW c \in T PROVE c \in Least(x)
            <4>1. c \in Blocks OBVIOUS
            <4>2. ASSUME NEW S \in SUBSET Blocks, Closed(x, S) PROVE c \in S
                <5>1. Closed(p, S) BY <4>2, <2>2
                <5> QED BY <4>2, <5>1, <3>3
            <4> QED BY <4>1, <4>2
        <3> QED BY <3>2, <3>3, <2>2
    <2> QED BY <2>1, <2>2
<1>2. Eqn(w)
    <2> HIDE DEF Least
    <2>1. \A x \in Blocks \ {Genesis} : Parent[x] \in Blocks BY BlockTreeAssumption
    <2> QED BY <1>1, <2>1
<1>3. Ancestors = CHOOSE f : Eqn(f)
    BY DEF Ancestors
<1>4. Eqn(Ancestors)
    <2> HIDE DEF Eqn, w
    <2> QED BY <1>2, <1>3
<1> QED BY <1>4

\* Ancestors are blocks at most as high as the block.
LEMMA AncestorsBelow ==
    ASSUME NEW b \in Blocks
    PROVE  \A c \in Ancestors[b] : c \in Blocks /\ Height[c] <= Height[b]
<1> DEFINE G == {x \in Blocks : \A c \in Ancestors[x] : c \in Blocks /\ Height[c] <= Height[x]}
<1>1. Genesis \in G
    BY BlockTreeAssumption, AncestorsDef
<1>2. ASSUME NEW x \in Blocks \ {Genesis}, Parent[x] \in G PROVE x \in G
    <2>1. Ancestors[x] = {x} \cup Ancestors[Parent[x]] BY AncestorsDef
    <2>2. Height[x] = Height[Parent[x]] + 1 /\ Height[x] \in Nat /\ Parent[x] \in Blocks
          /\ Height[Parent[x]] \in Nat
        BY BlockTreeAssumption
    <2>3. ASSUME NEW c \in Ancestors[x] PROVE c \in Blocks /\ Height[c] <= Height[x]
        <3>1. CASE c = x BY <3>1, <2>2
        <3>2. CASE c \in Ancestors[Parent[x]]
            <4>1. c \in Blocks /\ Height[c] <= Height[Parent[x]] BY <3>2, <1>2
            <4>2. Height[c] \in Nat BY <4>1, BlockTreeAssumption
            <4> QED BY <4>1, <4>2, <2>2
        <3> QED BY <3>1, <3>2, <2>1
    <2> QED BY <2>3
<1>3. Blocks \subseteq G
    <2> HIDE DEF G
    <2> QED BY <1>1, <1>2, BlockInduction
<1> QED BY <1>3

\* A chain has one block per height.
LEMMA AncestorsUnique ==
    ASSUME NEW b \in Blocks
    PROVE  \A c, d \in Ancestors[b] : Height[c] = Height[d] => c = d
<1> DEFINE G == {x \in Blocks : \A c, d \in Ancestors[x] : Height[c] = Height[d] => c = d}
<1>1. Genesis \in G
    BY BlockTreeAssumption, AncestorsDef
<1>2. ASSUME NEW x \in Blocks \ {Genesis}, Parent[x] \in G PROVE x \in G
    <2>1. Ancestors[x] = {x} \cup Ancestors[Parent[x]] BY AncestorsDef
    <2>2. Height[x] = Height[Parent[x]] + 1 /\ Parent[x] \in Blocks /\ Height[Parent[x]] \in Nat
        BY BlockTreeAssumption
    <2>3. ASSUME NEW c \in Ancestors[Parent[x]] PROVE Height[c] # Height[x]
        <3>1. c \in Blocks /\ Height[c] <= Height[Parent[x]] BY <2>2, AncestorsBelow
        <3>2. Height[c] \in Nat BY <3>1, BlockTreeAssumption
        <3> QED BY <3>1, <3>2, <2>2
    <2>4. \A c, d \in Ancestors[Parent[x]] : Height[c] = Height[d] => c = d BY <1>2
    <2> QED BY <2>1, <2>3, <2>4
<1>3. Blocks \subseteq G
    <2> HIDE DEF G
    <2> QED BY <1>1, <1>2, BlockInduction
<1> QED BY <1>3

\* A block is on its own chain, and so is the parent of every block of it.
LEMMA AncestorsClosed ==
    ASSUME NEW b \in Blocks
    PROVE  /\ b \in Ancestors[b]
           /\ \A c \in Ancestors[b] \ {Genesis} : Parent[c] \in Ancestors[b]
<1>0. \A x \in Blocks : x \in Ancestors[x]
    BY AncestorsDef
<1> DEFINE G == {x \in Blocks : \A c \in Ancestors[x] \ {Genesis} : Parent[c] \in Ancestors[x]}
<1>1. Genesis \in G
    BY BlockTreeAssumption, AncestorsDef
<1>2. ASSUME NEW x \in Blocks \ {Genesis}, Parent[x] \in G PROVE x \in G
    <2>1. Ancestors[x] = {x} \cup Ancestors[Parent[x]] BY AncestorsDef
    <2>2. Parent[x] \in Blocks BY BlockTreeAssumption
    <2>3. Parent[x] \in Ancestors[Parent[x]] BY <1>0, <2>2
    <2>4. \A c \in Ancestors[Parent[x]] \ {Genesis} : Parent[c] \in Ancestors[Parent[x]]
        BY <1>2
    <2> QED BY <2>1, <2>3, <2>4
<1>3. Blocks \subseteq G
    <2> HIDE DEF G
    <2> QED BY <1>1, <1>2, BlockInduction
<1> QED BY <1>0, <1>3

-----------------------------------------------------------------------------
(* The inductive invariant.                                                *)

\* e holds the blocks of d up to some height, and not none of them.
IsPrefixOf(e, d) ==
    /\ LastHeight(e) <= LastHeight(d)
    /\ LastHeight(d) > 0 => LastHeight(e) > 0
    /\ \A h \in 1..LastHeight(e) : e.processed[h] = d.processed[h]

\* While a rollback is open: the copy is the committed chain up to some height;
\* the cursor is on the target's chain; blocks above the cursor are only rolled
\* back before the first missing block is noted; and what was rolled back is
\* not on the target's chain.
ForkInv ==
    pc = "rollback" =>
        /\ IsPrefixOf(wtx, db)
        /\ job.cursor \in Ancestors[Parent[job.target]]
        /\ LastHeight(wtx) > Height[job.cursor] => job.missing = << >>
        /\ \A h \in (LastHeight(wtx) + 1)..LastHeight(db) :
              db.processed[h] \notin Ancestors[Parent[job.target]]

\* What the proofs use of the invariants while a rollback is open.
LEMMA RollbackFacts ==
    ASSUME IndInv, ForkInv, pc = "rollback"
    PROVE  /\ wtx \in DbRecord /\ db \in DbRecord /\ Linked(wtx) /\ Linked(db)
           /\ LastHeight(wtx) \in Nat /\ LastHeight(db) \in Nat
           /\ job \in Job /\ job.target \in Blocks \ {Genesis}
           /\ Parent[job.target] \in Blocks
           /\ job.cursor \in Blocks /\ Height[job.cursor] \in Nat
           /\ (Height[job.cursor] = 0 <=> job.cursor = Genesis)
           /\ (job.cursor # Genesis => Height[Parent[job.cursor]] = Height[job.cursor] - 1)
           /\ (job.missing = << >> => job.cursor = Parent[job.target])
<1>1. wtx \in DbRecord /\ db \in DbRecord /\ Linked(wtx) /\ Linked(db)
    BY DbIsRecord DEF IndInv, TypeOK, ProcessedIsChain
<1>2. InJob BY DEF InJob
<1>3. job \in Job BY <1>2, JobFacts
<1>4. job.cursor \in Blocks /\ job.target \in Blocks \ {Genesis} BY <1>3 DEF Job
<1>5. Height[job.cursor] \in Nat /\ Parent[job.target] \in Blocks
      /\ (Height[job.cursor] = 0 <=> job.cursor = Genesis)
    BY <1>4, BlockTreeAssumption
<1>6. job.cursor # Genesis => Height[Parent[job.cursor]] = Height[job.cursor] - 1
    <2> SUFFICES ASSUME job.cursor # Genesis
                 PROVE  Height[Parent[job.cursor]] = Height[job.cursor] - 1
        OBVIOUS
    <2>1. Parent[job.cursor] \in Blocks /\ Height[job.cursor] = Height[Parent[job.cursor]] + 1
        BY <1>4, BlockTreeAssumption
    <2>2. Height[Parent[job.cursor]] \in Nat BY <2>1, BlockTreeAssumption
    <2> QED BY <2>1, <2>2
<1>7. job.missing = << >> => job.cursor = Parent[job.target]
    BY DEF IndInv, ReorgInv, NextToConnect
<1> QED BY <1>1, <1>3, <1>4, <1>5, <1>6, <1>7, LastProcessedType

\* Dropping the tip of the copy keeps it a prefix; when the dropped block is
\* not on the target's chain, neither is any dropped so far.
LEMMA UndoKeepsFork ==
    ASSUME IndInv, ForkInv, pc = "rollback", CanRollbackTip(wtx),
           LastProcessedBlock(wtx) \notin Ancestors[Parent[job.target]]
    PROVE  /\ IsPrefixOf(UndoTip(wtx), db)
           /\ LastHeight(UndoTip(wtx)) = LastHeight(wtx) - 1
           /\ \A h \in (LastHeight(UndoTip(wtx)) + 1)..LastHeight(db) :
                 db.processed[h] \notin Ancestors[Parent[job.target]]
<1> DEFINE e == UndoTip(wtx)
           n == LastHeight(wtx)
<1>1. wtx \in DbRecord /\ Linked(wtx) /\ n \in Nat /\ LastHeight(db) \in Nat
    BY RollbackFacts
<1>2. LastHeight(e) = n - 1 /\ \A h \in 1..(n - 1) : e.processed[h] = wtx.processed[h]
    BY <1>1, UndoTipLemma
<1>3. n > 1 BY DEF CanRollbackTip
<1>4. n <= LastHeight(db) /\ \A h \in 1..n : wtx.processed[h] = db.processed[h]
    BY DEF ForkInv, IsPrefixOf
<1>5. LastProcessedBlock(wtx) = db.processed[n]
    BY <1>1, <1>3, <1>4, LastProcessedType
<1>6. \A h \in (n + 1)..LastHeight(db) : db.processed[h] \notin Ancestors[Parent[job.target]]
    BY DEF ForkInv
<1> HIDE DEF e, n
<1>7. IsPrefixOf(e, db)
    BY <1>1, <1>2, <1>3, <1>4 DEF IsPrefixOf
<1>8. ASSUME NEW h \in (LastHeight(e) + 1)..LastHeight(db)
      PROVE  db.processed[h] \notin Ancestors[Parent[job.target]]
    <2>1. h = n \/ h \in (n + 1)..LastHeight(db)
        BY <1>1, <1>2
    <2> QED BY <2>1, <1>5, <1>6
<1> QED BY <1>2, <1>7, <1>8 DEF e, n

\* The first loop of rollbackDbChain: the tip is higher than the target's
\* parent, so it is not on that block's chain.
LEMMA RewindTipFork == IndInv /\ ForkInv /\ RewindTip => ForkInv'
<1> SUFFICES ASSUME IndInv, ForkInv, RewindTip PROVE ForkInv'
    OBVIOUS
<1> DEFINE p == Parent[job.target]
           b == LastProcessedBlock(wtx)
<1>1. pc = "rollback" /\ pc' = "rollback" /\ wtx' = UndoTip(wtx) /\ job' = job /\ db' = db
      /\ LastHeight(wtx) > Height[job.cursor] /\ CanRollbackTip(wtx)
    BY DEF RewindTip
<1>2. job.missing = << >> /\ job.cursor = p /\ p \in Blocks /\ wtx \in DbRecord /\ Linked(wtx)
      /\ LastHeight(wtx) \in Nat /\ Height[p] \in Nat
    BY <1>1, RollbackFacts DEF ForkInv
<1>3. b \in Blocks /\ Height[b] = LastHeight(wtx)
    <2>1. LastHeight(wtx) \in 1..Len(wtx.processed) /\ b = wtx.processed[LastHeight(wtx)]
          /\ b \in Blocks
        BY <1>1, <1>2, LastProcessedType
    <2>2. LastHeight(wtx) \in DOMAIN wtx.processed
        BY <1>2, <2>1 DEF DbRecord
    <2> QED BY <1>2, <2>1, <2>2 DEF Linked
<1>4. b \notin Ancestors[p]
    <2> SUFFICES ASSUME b \in Ancestors[p] PROVE FALSE
        OBVIOUS
    <2>1. Height[b] <= Height[p] BY <1>2, AncestorsBelow
    <2> QED BY <1>1, <1>2, <1>3, <2>1
<1>5. /\ IsPrefixOf(UndoTip(wtx), db)
      /\ \A h \in (LastHeight(UndoTip(wtx)) + 1)..LastHeight(db) : db.processed[h] \notin Ancestors[p]
    BY <1>1, <1>4, UndoKeepsFork
<1>6. job.cursor \in Ancestors[p]
    BY <1>1 DEF ForkInv
<1> QED BY <1>1, <1>2, <1>5, <1>6 DEF ForkInv

\* The second loop: the cursor moves down the target's chain and does not pass
\* the tip.
LEMMA CollectMissingFork == IndInv /\ ForkInv /\ CollectMissing => ForkInv'
<1> SUFFICES ASSUME IndInv, ForkInv, CollectMissing PROVE ForkInv'
    OBVIOUS
<1> DEFINE p == Parent[job.target]
<1>1. pc = "rollback" /\ pc' = "rollback" /\ wtx' = wtx /\ db' = db
      /\ Height[job.cursor] > LastHeight(wtx)
      /\ job' = [job EXCEPT !.missing = Append(@, job.cursor), !.cursor = Parent[@]]
    BY DEF CollectMissing
<1>2. job \in Job /\ p \in Blocks /\ LastHeight(wtx) \in Nat /\ Height[job.cursor] \in Nat
      /\ job.cursor # Genesis /\ Height[Parent[job.cursor]] = Height[job.cursor] - 1
    BY <1>1, RollbackFacts
<1>3. job'.target = job.target /\ job'.cursor = Parent[job.cursor]
    BY <1>1, <1>2 DEF Job
<1>4. Parent[job.cursor] \in Ancestors[p]
    <2>1. job.cursor \in Ancestors[p] BY <1>1 DEF ForkInv
    <2> QED BY <1>2, <2>1, AncestorsClosed
<1>5. ~(LastHeight(wtx') > Height[job'.cursor])
    BY <1>1, <1>2, <1>3
<1>6. IsPrefixOf(wtx, db) /\ \A h \in (LastHeight(wtx) + 1)..LastHeight(db) :
                                db.processed[h] \notin Ancestors[p]
    BY <1>1 DEF ForkInv
<1> QED BY <1>1, <1>3, <1>4, <1>5, <1>6 DEF ForkInv

\* The third loop: the tip and the cursor are different blocks of one height,
\* and the target's chain has only one.
LEMMA UnwindTipFork == IndInv /\ ForkInv /\ UnwindTip => ForkInv'
<1> SUFFICES ASSUME IndInv, ForkInv, UnwindTip PROVE ForkInv'
    OBVIOUS
<1> DEFINE p == Parent[job.target]
           b == LastProcessedBlock(wtx)
<1>1. pc = "rollback" /\ pc' = "rollback" /\ wtx' = UndoTip(wtx) /\ db' = db
      /\ Height[job.cursor] = LastHeight(wtx) /\ job.cursor # b /\ CanRollbackTip(wtx)
      /\ LastHeight(wtx) > 0
      /\ job' = [job EXCEPT !.missing = Append(@, job.cursor), !.cursor = Parent[@]]
    BY DEF UnwindTip
<1>2. job \in Job /\ p \in Blocks /\ LastHeight(wtx) \in Nat /\ wtx \in DbRecord /\ Linked(wtx)
      /\ job.cursor # Genesis /\ Height[Parent[job.cursor]] = Height[job.cursor] - 1
    BY <1>1, RollbackFacts
<1>3. job'.target = job.target /\ job'.cursor = Parent[job.cursor]
    BY <1>1, <1>2 DEF Job
<1>4. job.cursor \in Ancestors[p]
    BY <1>1 DEF ForkInv
<1>5. Parent[job.cursor] \in Ancestors[p]
    BY <1>2, <1>4, AncestorsClosed
<1>6. Height[b] = LastHeight(wtx)
    <2>1. LastHeight(wtx) \in 1..Len(wtx.processed) /\ b = wtx.processed[LastHeight(wtx)]
        BY <1>1, <1>2, LastProcessedType
    <2>2. LastHeight(wtx) \in DOMAIN wtx.processed
        BY <1>2, <2>1 DEF DbRecord
    <2> QED BY <1>2, <2>1, <2>2 DEF Linked
<1>7. b \notin Ancestors[p]
    BY <1>1, <1>2, <1>4, <1>6, AncestorsUnique
<1>8. /\ IsPrefixOf(UndoTip(wtx), db) /\ LastHeight(UndoTip(wtx)) = LastHeight(wtx) - 1
      /\ \A h \in (LastHeight(UndoTip(wtx)) + 1)..LastHeight(db) : db.processed[h] \notin Ancestors[p]
    BY <1>1, <1>7, UndoKeepsFork
<1>9. ~(LastHeight(wtx') > Height[job'.cursor])
    BY <1>1, <1>2, <1>3, <1>8
<1> QED BY <1>1, <1>3, <1>5, <1>8, <1>9 DEF ForkInv

\* switchChainTo starts on the committed database, at the target's parent.
LEMMA SwitchChainToFork ==
    ASSUME IndInv', NEW b, NEW ret, SwitchChainTo(b, ret), UNCHANGED db
    PROVE  ForkInv'
<1>1. pc' = "rollback" /\ wtx' = db /\ db' = db
      /\ job' = [target |-> b, cursor |-> Parent[b], missing |-> << >>,
                 prev |-> NoBlock, ret |-> ret]
    BY DEF SwitchChainTo
<1>2. job'.target = b /\ job'.cursor = Parent[b] /\ job'.missing = << >>
    BY <1>1
<1>3. b \in Blocks \ {Genesis} /\ IsDb(db)
    <2>1. job' \in Job /\ IsDb(db) BY <1>1 DEF IndInv, TypeOK, InJob
    <2> QED BY <1>2, <2>1 DEF Job
<1>4. Parent[b] \in Ancestors[Parent[b]]
    <2>1. Parent[b] \in Blocks BY <1>3, BlockTreeAssumption
    <2> QED BY <2>1, AncestorsClosed
<1>5. LastHeight(db) \in Nat
    BY <1>3, DbIsRecord, LastProcessedType
<1>6. IsPrefixOf(db, db) /\ (LastHeight(db) + 1)..LastHeight(db) = {}
    BY <1>5 DEF IsPrefixOf
<1> QED BY <1>1, <1>2, <1>4, <1>6 DEF ForkInv

\* Every step.
LEMMA ForkNext == IndInv /\ ForkInv /\ [Next]_vars => ForkInv'
<1> SUFFICES ASSUME IndInv, ForkInv, [Next]_vars PROVE ForkInv'
    OBVIOUS
<1>1. IndInv' BY NextInd
<1>2. CASE UNCHANGED reorgVars
    BY <1>2 DEF reorgVars, ForkInv
<1>3. CASE pc' # "rollback"
    BY <1>3 DEF ForkInv
<1>4. CASE DcrdStep
    BY <1>2, <1>4 DEF DcrdStep, ChainConnect, ChainDisconnect, LinkChange, reorgVars
<1>5. CASE Start \/ Stop \/ RollbackFails \/ CommitRollback
    BY <1>3, <1>5 DEF Start, Stop, RollbackFails, Terminate, CommitRollback
<1>6. CASE StartupStep
    <2>1. CASE StartReorged BY <1>1, <2>1, SwitchChainToFork DEF StartReorged
    <2>2. CASE TakeFetched BY <1>1, <2>2, SwitchChainToFork DEF TakeFetched
    <2>3. CASE \E h \in next..(next + Concurrency - 1) : FetchBlock(h)
        BY <1>2, <2>3 DEF FetchBlock, reorgVars
    <2> QED BY <1>3, <1>6, <2>1, <2>2, <2>3
        DEF StartupStep, StartOnMainChain, LaunchWorkers, ReachTip, NotifyBlocks,
            StartPastChain, Terminate
<1>7. CASE EventStep
    <2>1. CASE HandleBlockConnected
        BY <1>1, <2>1, SwitchChainToFork DEF HandleBlockConnected
    <2> QED BY <1>3, <1>7, <2>1 DEF EventStep, IgnoreConnected, HandleBlockDisconnected
<1>8. CASE ConnectStep
    <2>1. ConnectMissing => pc' # "rollback" BY DEF ConnectMissing
    <2>2. ConnectTarget => pc' # "rollback"
        <3> SUFFICES ASSUME ConnectTarget PROVE pc' # "rollback"
            OBVIOUS
        <3>1. InJob /\ pc' = job.ret BY DEF ConnectTarget, InJob
        <3>2. job \in Job BY <3>1, JobFacts
        <3> QED BY <3>1, <3>2 DEF Job
    <2> QED BY <1>3, <1>8, <2>1, <2>2 DEF ConnectStep
<1>9. CASE UNCHANGED vars
    BY <1>2, <1>9 DEF vars, reorgVars
<1> QED BY <1>4, <1>5, <1>6, <1>7, <1>8, <1>9, RewindTipFork, CollectMissingFork, UnwindTipFork
        DEF Next, RunStep, RollbackStep

\* ForkInv holds always.
LEMMA AlwaysFork == Spec => [](IndInv /\ ForkInv)
<1>1. Init => IndInv /\ ForkInv
    BY InitInd DEF Init, ForkInv
<1> QED BY <1>1, NextInd, ForkNext, PTL DEF Spec

-----------------------------------------------------------------------------
(* The theorems.                                                           *)

\* When the tip of a linked database is on a chain, every processed block is.
LEMMA LinkedOnChain ==
    ASSUME NEW d \in DbRecord, Linked(d), NEW p \in Blocks,
           LastProcessedBlock(d) \in Ancestors[p]
    PROVE  \A h \in 1..LastHeight(d) : d.processed[h] \in Ancestors[p]
<1> DEFINE n == LastHeight(d)
           G == {k \in Nat : k < n => d.processed[n - k] \in Ancestors[p]}
<1>1. n \in Nat /\ DOMAIN d.processed = 1..n /\ \A h \in 1..n : d.processed[h] \in Blocks \ {Genesis}
    BY DEF LastHeight, DbRecord
<1>2. 0 \in G
    <2>1. n > 0 => d.processed[n] \in Ancestors[p] BY LastProcessedType
    <2> QED BY <1>1, <2>1
<1>3. ASSUME NEW i \in 1..n, i - 1 \in G PROVE i \in G
    <2> SUFFICES ASSUME i < n PROVE d.processed[n - i] \in Ancestors[p]
        OBVIOUS
    <2> DEFINE j == n - (i - 1)
    <2>1. j \in 1..n /\ j # 1 /\ j - 1 = n - i BY <1>1
    <2>2. d.processed[j] \in Ancestors[p] BY <1>1, <1>3
    <2>3. Parent[d.processed[j]] = d.processed[n - i]
        <3> HIDE DEF j, n
        <3> QED BY <1>1, <2>1 DEF Linked
    <2>4. d.processed[j] # Genesis
        <3> HIDE DEF j, n
        <3> QED BY <1>1, <2>1
    <2> HIDE DEF j, n
    <2> QED BY <2>2, <2>3, <2>4, AncestorsClosed
<1>4. 0..n \subseteq G
    <2> HIDE DEF G, n
    <2> QED BY <1>1, <1>2, <1>3, FiniteInduction
<1>5. ASSUME NEW h \in 1..n PROVE d.processed[h] \in Ancestors[p]
    <2>1. n - h \in 0..n /\ n - h < n /\ n - (n - h) = h BY <1>1
    <2>2. n - h \in G BY <1>4, <2>1
    <2> QED BY <2>1, <2>2
<1> QED BY <1>5

\* reorgToParentOf's rollback ends exactly at the fork: the step that commits
\* it drops the processed blocks that are not on the chain of the target's
\* parent, and no others, on every tree and for every target.
THEOREM ForkTheorem == Spec => RollbackStopsAtFork
<1> DEFINE Stops ==
        pc = "rollback" /\ pc' = "connect" =>
            Range(db'.processed) = Range(db.processed) \cap Ancestors[Parent[job.target]]
<1>1. IndInv /\ ForkInv /\ [Next]_vars => [Stops]_vars
    <2> SUFFICES ASSUME IndInv, ForkInv, Next, pc = "rollback", pc' = "connect"
                 PROVE  Range(db'.processed)
                            = Range(db.processed) \cap Ancestors[Parent[job.target]]
        OBVIOUS
    <2> DEFINE p == Parent[job.target]
               m == LastHeight(wtx)
               n == LastHeight(db)
    <2>1. CommitRollback
        BY DEF Next, DcrdStep, ChainConnect, ChainDisconnect, LinkChange, Start, RunStep,
               StartupStep, StartOnMainChain, StartReorged, LaunchWorkers, FetchBlock,
               TakeFetched, ReachTip, NotifyBlocks, StartPastChain, EventStep,
               IgnoreConnected, HandleBlockConnected, HandleBlockDisconnected, RollbackStep,
               RewindTip, CollectMissing, UnwindTip, RollbackFails, ConnectStep,
               ConnectMissing, ConnectTarget, Stop, Terminate, SwitchChainTo
    <2>2. /\ wtx \in DbRecord /\ db \in DbRecord /\ Linked(wtx) /\ Linked(db)
          /\ m \in Nat /\ n \in Nat /\ p \in Blocks
        BY RollbackFacts
    <2>3. /\ m <= n /\ (n > 0 => m > 0)
          /\ \A h \in 1..m : wtx.processed[h] = db.processed[h]
          /\ \A h \in (m + 1)..n : db.processed[h] \notin Ancestors[p]
          /\ job.cursor \in Ancestors[p]
        BY DEF ForkInv, IsPrefixOf
    <2>4. db'.processed = wtx.processed /\ (m = 0 \/ job.cursor = LastProcessedBlock(wtx))
        BY <2>1 DEF CommitRollback
    <2>5. DOMAIN wtx.processed = 1..m /\ DOMAIN db.processed = 1..n
        BY <2>2 DEF DbRecord, LastHeight
    <2>6. \A h \in 1..m : db.processed[h] \in Ancestors[p]
        <3>1. CASE m = 0 BY <3>1
        <3>2. CASE m # 0
            <4>1. \A h \in 1..m : wtx.processed[h] \in Ancestors[p]
                BY <2>2, <2>3, <2>4, <3>2, LinkedOnChain
            <4> QED BY <4>1, <2>3
        <3> QED BY <3>1, <3>2
    <2> HIDE DEF m, n, p
    <2>7. ASSUME NEW c \in Range(wtx.processed) PROVE c \in Range(db.processed) /\ c \in Ancestors[p]
        <3>1. PICK h \in 1..m : c = wtx.processed[h] BY <2>5 DEF Range
        <3>2. h \in 1..n BY <2>2, <2>3
        <3> QED BY <3>1, <3>2, <2>3, <2>5, <2>6 DEF Range
    <2>8. ASSUME NEW c \in Range(db.processed), c \in Ancestors[p] PROVE c \in Range(wtx.processed)
        <3>1. PICK h \in 1..n : c = db.processed[h] BY <2>5 DEF Range
        <3>2. h \in 1..m
            <4>1. h \in 1..m \/ h \in (m + 1)..n BY <2>2
            <4> QED BY <4>1, <3>1, <2>3, <2>8
        <3> QED BY <3>1, <3>2, <2>3, <2>5 DEF Range
    <2> QED BY <2>4, <2>7, <2>8 DEF p
<1> QED BY <1>1, AlwaysFork, PTL DEF Spec, RollbackStopsAtFork

\* A prefix is an initial segment of the sequence of processed blocks.
LEMMA PrefixIsSubSeq ==
    ASSUME NEW e \in DbRecord, NEW d \in DbRecord, IsPrefixOf(e, d)
    PROVE  e.processed = SubSeq(d.processed, 1, LastHeight(e))
<1> DEFINE S == Blocks \ {Genesis}
           s == e.processed
           t == d.processed
<1>1. s \in Seq(S) /\ t \in Seq(S)
    BY DEF DbRecord
<1>2. Len(s) <= Len(t) /\ Len(s) \in Nat /\ Len(t) \in Nat /\ \A h \in 1..Len(s) : s[h] = t[h]
    BY <1>1 DEF IsPrefixOf, LastHeight
<1> HIDE DEF S, s, t
<1>3. SubSeq(t, 1, Len(s)) \in Seq(S) /\ Len(SubSeq(t, 1, Len(s))) = Len(s)
      /\ \A h \in 1..Len(s) : SubSeq(t, 1, Len(s))[h] = t[h]
    BY <1>1, <1>2
<1>4. s = SubSeq(t, 1, Len(s))
    BY <1>1, <1>2, <1>3, SeqEqual
<1> QED BY <1>4 DEF s, t, LastHeight

\* The database as the API reads it is the abstract chain of ProcessedChain:
\* it is extended by a child of its tip or cut to a shorter, non-empty prefix,
\* and changes in no other way, through reorgs, lost notifications and crashes.
THEOREM KeepsChainTheorem == Spec => KeepsChain
<1> DEFINE chain == db.processed
<1>1. Init => Processed!ChainInit
    BY DEF Init, EmptyDb, Processed!ChainInit
<1>2. ASSUME IndInv, ForkInv, [Next]_vars PROVE [Processed!ChainNext]_chain
    <2>1. db \in DbRecord /\ Linked(db)
        BY <1>2, DbIsRecord DEF IndInv, TypeOK, ProcessedIsChain
    <2>2. chain \in Seq(Blocks \ {Genesis}) /\ Len(chain) = LastHeight(db) /\ LastHeight(db) \in Nat
          /\ Processed!ChainTip = LastProcessedBlock(db)
        BY <2>1 DEF DbRecord, LastHeight, LastProcessedBlock, Processed!ChainTip
    <2>3. CASE UNCHANGED db
        BY <2>3
    <2>4. ASSUME NEW b \in Blocks \ {Genesis}, ExtendsTip(db, b), NEW prev,
                 Ops(b, prev) \in Seq(Op), db' = ConnectBlock(db, b, prev)
          PROVE  Processed!ChainNext
        <3>1. chain' = Append(chain, b) BY <2>1, <2>4, ConnectBlockLemma
        <3>2. Processed!Extend(b) BY <2>2, <2>4, <3>1 DEF Processed!Extend, ExtendsTip
        <3> QED BY <3>2 DEF Processed!ChainNext
    <2>5. CASE HandleBlockDisconnected
        <3>1. CASE Head(ntfns).block = LastProcessedBlock(db)
            <4> DEFINE e == UndoTip(db)
                       n == LastHeight(db) - 1
            <4>1. CanRollbackTip(db) /\ db' = e BY <2>5, <3>1 DEF HandleBlockDisconnected
            <4>2. e \in DbRecord /\ LastHeight(e) = n /\ \A h \in 1..n : e.processed[h] = db.processed[h]
                BY <2>1, <4>1, UndoTipLemma
            <4>3. n \in 1..(Len(chain) - 1) /\ n \in 1..Len(chain)
                BY <2>2, <4>1 DEF CanRollbackTip
            <4>4. IsPrefixOf(e, db) BY <2>2, <4>2, <4>3 DEF IsPrefixOf
            <4>5. e.processed = SubSeq(chain, 1, n)
                <5> HIDE DEF e, n
                <5> QED BY <2>1, <4>2, <4>4, PrefixIsSubSeq
            <4>6. Processed!Rewind(n)
                BY <4>1, <4>3, <4>5 DEF Processed!Rewind
            <4> QED BY <4>3, <4>6 DEF Processed!ChainNext
        <3>2. CASE Head(ntfns).block # LastProcessedBlock(db)
            BY <2>3, <2>5, <3>2 DEF HandleBlockDisconnected
        <3> QED BY <3>1, <3>2
    <2>6. CASE CommitRollback
        <3> DEFINE m == LastHeight(wtx)
        <3>1. pc = "rollback" /\ db' = wtx BY <2>6 DEF CommitRollback
        <3>2. wtx \in DbRecord /\ m \in Nat BY <1>2, <3>1, RollbackFacts
        <3>3. IsPrefixOf(wtx, db) BY <1>2, <3>1 DEF ForkInv
        <3>4. wtx.processed = SubSeq(chain, 1, m) BY <2>1, <3>2, <3>3, PrefixIsSubSeq
        <3>5. CASE m = LastHeight(db)
            <4>1. SubSeq(chain, 1, Len(chain)) = chain
                <5> HIDE DEF chain
                <5> QED BY <2>2
            <4> QED BY <2>2, <3>1, <3>4, <3>5, <4>1
        <3>6. CASE m # LastHeight(db)
            <4>1. m \in 1..(Len(chain) - 1) /\ m \in 1..Len(chain)
                BY <2>2, <3>2, <3>3, <3>6 DEF IsPrefixOf
            <4>2. Processed!Rewind(m)
                BY <3>1, <3>4, <4>1 DEF Processed!Rewind
            <4> QED BY <4>1, <4>2 DEF Processed!ChainNext
        <3> QED BY <3>5, <3>6
    <2>7. CASE ConnectMissing
        <3> DEFINE b == job.missing[Len(job.missing)]
        <3>1. /\ pc = "connect" /\ ExtendsTip(db, b) /\ (Approves[b] \/ job.prev # NoBlock)
              /\ db' = ConnectBlock(db, b, job.prev) /\ b = NextToConnect
            BY <2>7 DEF ConnectMissing, NextToConnect
        <3> HIDE DEF b
        <3>2. b \in Blocks \ {Genesis} /\ Ops(b, job.prev) \in Seq(Op)
            BY <1>2, <3>1, OpsWhileConnecting
        <3> QED BY <2>4, <3>1, <3>2
    <2>8. CASE ConnectTarget
        <3> DEFINE b == job.target
        <3>1. /\ pc = "connect" /\ ExtendsTip(db, b) /\ (Approves[b] \/ job.prev # NoBlock)
              /\ db' = ConnectBlock(db, b, job.prev) /\ b = NextToConnect
            BY <2>8 DEF ConnectTarget, NextToConnect
        <3> HIDE DEF b
        <3>2. b \in Blocks \ {Genesis} /\ Ops(b, job.prev) \in Seq(Op)
            BY <1>2, <3>1, OpsWhileConnecting
        <3> QED BY <2>4, <3>1, <3>2
    <2>9. CASE DcrdStep \/ Start \/ Stop
        BY <2>3, <2>9 DEF DcrdStep, ChainConnect, ChainDisconnect, LinkChange, Start, Stop, Terminate
    <2>10. CASE StartupStep
        BY <2>3, <2>10 DEF StartupStep, StartOnMainChain, StartReorged, LaunchWorkers, FetchBlock,
                           TakeFetched, ReachTip, NotifyBlocks, StartPastChain, Terminate
    <2>11. CASE IgnoreConnected \/ HandleBlockConnected
        BY <2>3, <2>11 DEF IgnoreConnected, HandleBlockConnected
    <2>12. CASE RewindTip \/ CollectMissing \/ UnwindTip \/ RollbackFails
        BY <2>3, <2>12 DEF RewindTip, CollectMissing, UnwindTip, RollbackFails, Terminate
    <2>13. CASE UNCHANGED vars
        BY <2>3, <2>13 DEF vars
    <2> QED BY <1>2, <2>5, <2>6, <2>7, <2>8, <2>9, <2>10, <2>11, <2>12, <2>13
        DEF Next, RunStep, EventStep, RollbackStep, ConnectStep
<1>3. IndInv /\ ForkInv /\ [Next]_vars => [Processed!ChainNext]_chain
    BY <1>2
<1> QED BY <1>1, <1>3, AlwaysFork, PTL DEF Spec, KeepsChain, Processed!ChainSpec

=============================================================================
