------------------------------- MODULE Ledger --------------------------------
(***************************************************************************)
(* Sync over blocks made of transactions: what the database records,       *)
(* compared with the ledger the processed chain defines.                   *)
(***************************************************************************)
EXTENDS Sync, BlockOps

\* The operations Sync connects are those of the blocks.
ASSUME LedgerAssumption ==
    /\ Treasury \in Accounts
    /\ \A t \in Tx : \A i \in DOMAIN TxOuts[t] :
        TxOuts[t][i].acct \in Accounts /\ <<t, i>> \in Outpoints
    /\ \A t \in Tx : \A i \in DOMAIN TxIns[t] : TxIns[t][i].outp \in Outpoints
    /\ \A b \in Blocks \ {Genesis} : Ops(b, Parent[b]) = IterateBlockOps(b, Parent[b])

\* The reference ledger at every block.
UnspentAt == [b \in Blocks |-> Unspent(b)]
LedgerBalanceAt == [b \in Blocks |-> [a \in Accounts |-> LedgerBalance(b, a)]]

\* No block touches the coin twice, and no operation on it is worthless or
\* names no output.  rollbackTip walks the operations of a block in the order in
\* which they were connected and restores every debit, so it restores the coins
\* of a block exactly when they are plain.
CoinOf(op) == <<op.acct, op.outp>>
PlainCoin(c) ==
    \A b \in Blocks \ {Genesis} : LET ops == Ops(b, Parent[b]) IN
        \A i \in DOMAIN ops : CoinOf(ops[i]) = c =>
            /\ ops[i].amt # 0 /\ c[2][1] \in Tx
            /\ \A j \in DOMAIN ops : CoinOf(ops[j]) = c => j = i

\* /account/coins: the recorded unspent outputs are those of the processed
\* chain, with their amounts, through every reorg, disapproval and rollback.
UtxosAreUnspent == db.utxos = UnspentAt[LastProcessedBlock(db)]

\* /account/balance: at every processed height, the balance of every account
\* (the treasury too) is what the transactions in force at that block of the
\* chain add up to.  Later blocks, reorgs included, do not disturb the history.
BalancesAreLedger ==
    \A a \in Accounts : \A h \in 1..LastHeight(db) :
        Balance(db, a, h) = LedgerBalanceAt[db.processed[h]][a]

\* The two records agree: the recorded balance of an account is the sum of its
\* recorded unspent outputs.  (The treasury is no sum of outputs: treasury
\* spends debit it without spending one.)
BalanceIsSumOfCoins ==
    \A a \in Accounts \ {Treasury} :
        Balance(db, a, LastHeight(db)) = SumFunction(ListUtxos(db, a))

=============================================================================
