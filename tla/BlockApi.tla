------------------------------- MODULE BlockApi ------------------------------
(***************************************************************************)
(* The block, network and mempool endpoints, and a client that follows     *)
(* them, while the processed chain moves as ProcessedChain allows (which   *)
(* Sync is shown to implement).                                            *)
(*                                                                         *)
(* The client is external: the syncer of the Rosetta SDK.  It asks for the *)
(* status, fetches the blocks up to it one index at a time, takes its own  *)
(* last block back when the next one has another parent, and keeps the     *)
(* coins and balances the operations of its blocks add up to.              *)
(***************************************************************************)
EXTENDS RosettaBlock

CONSTANT Accounts

VARIABLES
    chain,      \* the processed blocks of the database
    head,       \* the height of the client's last NetworkStatus answer
    blocks,     \* the client's blocks, genesis first
    coins,      \* the coins it holds to be unspent
    balances,   \* the balances it computed
    mempoolTx   \* an answer of MempoolTransaction, or NoTx

client == <<head, blocks, coins, balances>>
vars == <<chain, client, mempoolTx>>

Processed == INSTANCE ProcessedChain

NoTx == [id |-> << >>]
Zero == [a \in Accounts |-> 0]

Init ==
    /\ Processed!ChainInit
    /\ head = 0 /\ blocks = << >> /\ coins = {} /\ balances = Zero
    /\ mempoolTx = NoTx

ChainStep == Processed!ChainNext /\ UNCHANGED <<client, mempoolTx>>

-----------------------------------------------------------------------------
(***************************************************************************)
(* The endpoints.  Blocks are fetched by hash, from the cache or from      *)
(* dcrd, and never change; what an answer depends on is one read of the    *)
(* processed chain.                                                        *)
(***************************************************************************)

\* NetworkStatus: bestBlock, which is the genesis block of a new database.
BestBlock == IF chain = << >> THEN Genesis ELSE chain[Len(chain)]

\* Mutant: the tip is not served yet.
BlockHashBelowTip(index) ==
    IF index = 0 THEN {Genesis} ELSE {chain[h] : h \in {index} \cap (1 .. Len(chain) - 1)}

\* getBlockHash: the processed block of an index, if any.
BlockHash(index) ==
    IF index = 0 THEN {Genesis} ELSE {chain[h] : h \in {index} \cap DOMAIN chain}

\* Every block as Server.Block answers with it, and at most one by index: none
\* when the answer is an error.
Answers == [b \in Blocks |-> WireBlockToRosetta(b)]
Block(index) == {Answers[b] : b \in BlockHash(index)}

\* MempoolTransaction asks dcrd for any transaction, mined or not.  It fails
\* when an input it does not know to be special spends no transaction, as that
\* of a coinbase does.
MempoolTransaction(tx) ==
    /\ mempoolTx = NoTx
    /\ \A i \in DOMAIN TxIns[tx] :
        TxIns[tx][i].outp[1] \notin Tx => i = 1 /\ TxType[tx] \in {"vote", "tspend"}
    /\ mempoolTx' = MempoolTxToRosetta(tx)
    /\ UNCHANGED <<chain, client>>

ForgetMempoolTx == mempoolTx # NoTx /\ mempoolTx' = NoTx /\ UNCHANGED <<chain, client>>

-----------------------------------------------------------------------------
(***************************************************************************)
(* The client.                                                             *)
(***************************************************************************)

\* What a block it is served does to the client's records.  A coin both created
\* and spent by a block is left as it was.
OpsOf == [b \in Blocks |-> FlattenSeq([i \in DOMAIN Answers[b].txs |-> Answers[b].txs[i].ops])]
Changes(b, action) ==
    {op.change.coin : op \in {op \in Range(OpsOf[b]) : op.change.action = action}}
Created == [b \in Blocks |-> Changes(b, "coin_created") \ Changes(b, "coin_spent")]
Spent == [b \in Blocks |-> Changes(b, "coin_spent") \ Changes(b, "coin_created")]
Sums == [b \in Blocks |-> [a \in Accounts |->
            FoldLeft(LAMBDA n, op : IF op.acct = a THEN n + op.amt ELSE n, 0, OpsOf[b])]]

AskStatus ==
    /\ head' = Height[BestBlock]
    /\ UNCHANGED <<chain, blocks, coins, balances, mempoolTx>>

\* The next block fits: add it.
AddBlock ==
    /\ Len(blocks) <= head
    /\ \E rb \in Block(Len(blocks)) :
        /\ blocks # << >> => rb.parent = blocks[Len(blocks)]
        /\ blocks' = Append(blocks, rb.id)
        /\ coins' = (coins \ Spent[rb.id]) \cup Created[rb.id]
        /\ balances' = [a \in Accounts |-> balances[a] + Sums[rb.id][a]]
    /\ UNCHANGED <<chain, head, mempoolTx>>

\* It does not: the client's last block was orphaned, so take it back.
RemoveBlock ==
    /\ Len(blocks) \in 2 .. head
    /\ \E rb \in Block(Len(blocks)) : rb.parent # blocks[Len(blocks)]
    /\ LET b == blocks[Len(blocks)]
       IN  /\ coins' = (coins \ Created[b]) \cup Spent[b]
           /\ balances' = [a \in Accounts |-> balances[a] - Sums[b][a]]
    /\ blocks' = SubSeq(blocks, 1, Len(blocks) - 1)
    /\ UNCHANGED <<chain, head, mempoolTx>>

ClientStep == AskStatus \/ AddBlock \/ RemoveBlock

Next ==
    \/ ChainStep \/ ClientStep
    \/ \E tx \in Tx : MempoolTransaction(tx)
    \/ ForgetMempoolTx

\* The client goes on asking.
FairSpec ==
    /\ Init /\ [][Next]_vars
    /\ WF_vars(AskStatus) /\ WF_vars(AddBlock) /\ WF_vars(RemoveBlock)

-----------------------------------------------------------------------------
(***************************************************************************)
(* Properties.                                                             *)
(***************************************************************************)

\* The ledger at every block, defined without operations; the treasury holds
\* no coins.
CoinsAt == [b \in Blocks |-> {c[2] : c \in {c \in DOMAIN Unspent(b) : c[1] # Treasury}}]
BalancesAt == [b \in Blocks |-> [a \in Accounts |-> LedgerBalance(b, a)]]

\* A client that only adds up the operations and coin changes of the blocks it
\* is served, and takes back those of orphaned blocks, ends up with the coins
\* and balances of its last block, through disapproved blocks and reorgs.
ClientReconciles ==
    blocks # << >> =>
        LET b == blocks[Len(blocks)]
        IN  coins = CoinsAt[b] /\ balances = BalancesAt[b]

\* Within a block every transaction has its own identifier, also when the block
\* mines again what it reverses.
TxIdsUnique ==
    \A i \in DOMAIN blocks :
        LET txs == Answers[blocks[i]].txs
        IN  \A j, k \in DOMAIN txs : txs[j].id = txs[k].id => j = k

\* A transaction seen through the mempool endpoint has the operations it has in
\* the block that mines it.
MempoolMatchesBlock ==
    \A i \in DOMAIN blocks :
        LET txs == Answers[blocks[i]].txs
        IN  \A j \in DOMAIN txs : txs[j].id = mempoolTx.id => txs[j].ops = mempoolTx.ops

\* When the processed chain stays on a block, and no other is as high, the
\* client gets there however many of its blocks were orphaned on the way.
ClientCatchesUp ==
    \A b \in {b \in Blocks : \A c \in Blocks \ {b} : Height[c] < Height[b]} :
        []<>(blocks # << >> /\ blocks[Len(blocks)] = b) \/ []<>(BestBlock # b)

\* docs/mapping.md on block disapproval: the reversal is an operation of type
\* "reversed" whose status is still "success".
ReversedAsDocumented ==
    \A i \in DOMAIN blocks :
        \A op \in Range(OpsOf[blocks[i]]) : op.status = "success"
=============================================================================
