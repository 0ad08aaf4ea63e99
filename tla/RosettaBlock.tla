----------------------------- MODULE RosettaBlock ----------------------------
(***************************************************************************)
(* Blocks and transactions as the API shows them: WireBlockToRosetta and   *)
(* MempoolTxToRosetta over the operations of BlockOps.                     *)
(***************************************************************************)
EXTENDS BlockOps

\* What an operation does to a coin.  The treasury holds no coins; reversing
\* an operation undoes what it did.
NoCoinChange == [action |-> "none", coin |-> <<"none", 0>>]

\* Mutant: the status of the operation is not looked at.
CoinChangeIgnoresStatus(op) ==
    IF op.acct = Treasury THEN NoCoinChange
    ELSE [action |-> IF op.typ = "debit" THEN "coin_spent" ELSE "coin_created",
          coin |-> op.outp]

CoinChange(op) ==
    IF op.acct = Treasury THEN NoCoinChange
    ELSE [action |-> IF (op.typ = "debit") = (op.st = "success")
                     THEN "coin_spent" ELSE "coin_created",
          coin |-> op.outp]

\* Op.ROp.
ROp(op) == [type |-> op.typ, status |-> op.st, acct |-> op.acct, amt |-> op.amt,
            change |-> CoinChange(op)]

ROps(ops) == [i \in DOMAIN ops |-> ROp(ops[i])]

\* Mutant: a reversed transaction keeps its own hash as identifier.
TxIdPlain(tx, status, prev) == <<tx>>

\* txMetaToRosetta: a reversed transaction is identified together with the
\* block it was mined in.
TxId(tx, status, prev) == IF status = "reversed" THEN <<prev, tx>> ELSE <<tx>>

\* applyOp of WireBlockToRosetta starts a transaction with its first operation,
\* so a transaction without operations is left out.
RosettaTxs(tree, status, txs, prev) ==
    FlattenSeq([idx \in DOMAIN txs |->
        LET ops == TxOps(tree, status, txs[idx], idx)
        IN  IF ops = << >> THEN << >>
            ELSE << [id |-> TxId(txs[idx], status, prev), ops |-> ROps(ops)] >>])

\* The parent of the genesis block is the block itself.
ParentOf(b) == IF Height[b] = 0 THEN b ELSE Parent[b]

\* WireBlockToRosetta, with the parent Server.Block fetches for it.
WireBlockToRosetta(b) ==
    [id |-> b, index |-> Height[b], parent |-> ParentOf(b),
     txs |-> (IF Approves[b] \/ Height[b] = 0 THEN << >>
              ELSE RosettaTxs("regular", "reversed", Regular[Parent[b]], Parent[b]))
             \o RosettaTxs("regular", "success", Regular[b], NoBlock)
             \o RosettaTxs("stake", "success", Stake[b], NoBlock)]

\* Mutant: the index of the transaction is left at its zero value, which is
\* that of a coinbase.
MempoolTxToRosettaIndexed(tx) ==
    LET tree == IF TxType[tx] = "regular" THEN "regular" ELSE "stake"
    IN  [id |-> TxId(tx, "success", NoBlock), ops |-> ROps(TxOps(tree, "success", tx, 1))]

\* MempoolTxToRosetta: the tree follows from the type, and the index is the
\* index of no transaction of a block.
MempoolTxToRosetta(tx) ==
    LET tree == IF TxType[tx] = "regular" THEN "regular" ELSE "stake"
    IN  [id |-> TxId(tx, "success", NoBlock), ops |-> ROps(TxOps(tree, "success", tx, 0))]

=============================================================================
