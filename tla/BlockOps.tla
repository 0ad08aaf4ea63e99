------------------------------ MODULE BlockOps -------------------------------
(***************************************************************************)
(* types.IterateBlockOps: the Rosetta operations of a block, in the order  *)
(* in which the callback sees them.                                        *)
(*                                                                         *)
(* Transactions are elements of Tx.  An output is identified by            *)
(* <<tx, index>>; the tree of an outpoint is the tree its transaction is   *)
(* in, so it adds nothing.  Scripts are abstracted to the account they pay *)
(* (every script has one: unknown scripts get a raw account).              *)
(***************************************************************************)
EXTENDS BlockTree, SequencesExt

CONSTANTS
    Tx,         \* transactions of all blocks
    TxType,     \* stake.DetermineTxType
    TxIns,      \* for each tx, its inputs: [outp, valueIn]
    TxOuts,     \* for each tx, its outputs: [acct, value]
    Regular,    \* for each block, its regular tree: a sequence of txs
    Stake,      \* for each block, its stake tree: a sequence of txs
    Treasury    \* TreasuryAccountAdddress

TxTypes == {"regular", "ticket", "vote", "treasurybase", "tadd", "tspend"}

ASSUME BlockOpsAssumption ==
    /\ TxType \in [Tx -> TxTypes]
    /\ DOMAIN TxIns = Tx /\ DOMAIN TxOuts = Tx
    /\ DOMAIN Regular = Blocks /\ DOMAIN Stake = Blocks

-----------------------------------------------------------------------------
\* The account and amount of a spent output.  dcrd's txindex answers for every
\* transaction of the tree, so the fetch finds it.
PrevOutput(outp) == TxOuts[outp[1]][outp[2]]

\* Coinbases are recognised by position, treasury bases by position and type.
IsCoinbase(tree, tx, idx) == tree = "regular" /\ TxType[tx] = "regular" /\ idx = 1
IsTBase(tree, tx, idx) == tree = "stake" /\ TxType[tx] = "treasurybase" /\ idx = 1
IsStakeType(tree, tx, type) == tree = "stake" /\ TxType[tx] = type

\* The first input of votes (stakebase), coinbases and treasury bases creates
\* money and is no operation.
SkipsInput(tree, tx, idx, i) ==
    i = 1 /\ (TxType[tx] = "vote" \/ IsCoinbase(tree, tx, idx) \/ IsTBase(tree, tx, idx))

\* Mutant: reversed operations keep the sign of the original.
SignedIgnoresStatus(status, amount) == amount

\* A reversed operation carries the opposite amount.
Signed(status, amount) == IF status = "reversed" THEN -amount ELSE amount

\* addTxIns: one debit per input.  A treasury spend debits the treasury and
\* has no previous output.
Debit(tree, status, tx, i) ==
    LET in == TxIns[tx][i]
        tspend == IsStakeType(tree, tx, "tspend")
    IN  [typ  |-> "debit",
         st   |-> status,
         acct |-> IF tspend THEN Treasury ELSE PrevOutput(in.outp).acct,
         outp |-> in.outp,
         amt  |-> Signed(status, IF tspend THEN -in.valueIn ELSE -PrevOutput(in.outp).value)]

DebitOps(tree, status, tx, idx) ==
    FlattenSeq([i \in DOMAIN TxIns[tx] |->
        IF SkipsInput(tree, tx, idx, i) THEN << >> ELSE << Debit(tree, status, tx, i) >>])

\* addTxOuts: one credit per output that carries value.  The first output of
\* treasury adds and treasury bases credits the treasury.
Credit(tree, status, tx, idx, i) ==
    LET toTreasury == i = 1 /\ (IsTBase(tree, tx, idx) \/ IsStakeType(tree, tx, "tadd"))
    IN  [typ  |-> "credit",
         st   |-> status,
         acct |-> IF toTreasury THEN Treasury ELSE TxOuts[tx][i].acct,
         outp |-> <<tx, i>>,
         amt  |-> Signed(status, TxOuts[tx][i].value)]

CreditOps(tree, status, tx, idx) ==
    FlattenSeq([i \in DOMAIN TxOuts[tx] |->
        IF TxOuts[tx][i].value = 0 THEN << >> ELSE << Credit(tree, status, tx, idx, i) >>])

\* iterateBlockOpsInTx: inputs before outputs, the other way around when the
\* transaction is reversed.
TxOps(tree, status, tx, idx) ==
    IF status = "success"
    THEN DebitOps(tree, status, tx, idx) \o CreditOps(tree, status, tx, idx)
    ELSE CreditOps(tree, status, tx, idx) \o DebitOps(tree, status, tx, idx)

\* applyTxs: the transactions in block order, whatever the status.
ApplyTxs(tree, status, txs) ==
    FlattenSeq([idx \in DOMAIN txs |-> TxOps(tree, status, txs[idx], idx)])

\* A block that disapproves its parent first reverses the regular transactions
\* of prev, the block the caller passes for it; then come its own regular and
\* stake transactions.
IterateBlockOps(b, prev) ==
    (IF Approves[b] \/ Height[b] = 0 THEN << >>
     ELSE ApplyTxs("regular", "reversed", Regular[prev]))
        \o ApplyTxs("regular", "success", Regular[b])
        \o ApplyTxs("stake", "success", Stake[b])

-----------------------------------------------------------------------------
(***************************************************************************)
(* The ledger the operations should add up to, defined without them: the   *)
(* outputs created and not spent by the transactions in force on the chain *)
(* that ends in b.                                                         *)
(***************************************************************************)

\* A block's regular transactions are in force unless its child on the chain
\* disapproves it; stake transactions always are.
InForce(b) ==
    {c \in Ancestors[b] : ~\E d \in Ancestors[b] \ {Genesis} : Parent[d] = c /\ ~Approves[d]}

RegularTxs(b) == UNION {Range(Regular[c]) : c \in InForce(b)}
StakeTxs(b) == UNION {Range(Stake[c]) : c \in Ancestors[b]}
AppliedTxs(b) == RegularTxs(b) \cup StakeTxs(b)

OutAccount(tx, i) ==
    IF i = 1 /\ TxType[tx] \in {"tadd", "treasurybase"} THEN Treasury
    ELSE TxOuts[tx][i].acct

\* The outputs that transactions create (those that carry value) and spend.
OutputsOf(txs) ==
    UNION {{<<t, i>> : i \in {i \in DOMAIN TxOuts[t] : TxOuts[t][i].value # 0}} : t \in txs}
SpentBy(txs) == UNION {{TxIns[t][i].outp : i \in DOMAIN TxIns[t]} : t \in txs}

\* (account, outpoint) |-> value of every unspent output at block b.
Unspent(b) ==
    LET left == OutputsOf(AppliedTxs(b)) \ SpentBy(AppliedTxs(b))
    IN  [c \in {<<OutAccount(o[1], o[2]), o>> : o \in left} |-> PrevOutput(c[2]).value]

\* What a transaction paid to an account, and what it took from it.  A treasury
\* spend takes its declared input value from the treasury.
PaidBy(t, a) ==
    SumFunction([i \in DOMAIN TxOuts[t] |->
        IF OutAccount(t, i) = a THEN TxOuts[t][i].value ELSE 0])

TakenBy(t, a) ==
    IF TxType[t] = "tspend"
    THEN IF a = Treasury THEN TxIns[t][1].valueIn ELSE 0
    ELSE SumFunction([i \in DOMAIN TxIns[t] |->
            IF TxIns[t][i].outp[1] \in Tx /\ OutAccount(TxIns[t][i].outp[1], TxIns[t][i].outp[2]) = a
            THEN PrevOutput(TxIns[t][i].outp).value ELSE 0])

LedgerBalance(b, a) == SumFunction([t \in AppliedTxs(b) |-> PaidBy(t, a) - TakenBy(t, a)])

-----------------------------------------------------------------------------
(***************************************************************************)
(* What consensus guarantees of the blocks dcrd serves.                    *)
(***************************************************************************)

\* The type of a transaction and its place in the block go together.  An input
\* spends no output exactly where the code expects it: the first input of a
\* coinbase, a vote or a treasury base, and the input of a treasury spend.
WellPlaced(b) ==
    /\ Regular[b] \in Seq(Tx) /\ Stake[b] \in Seq(Tx)
    /\ IsInjective(Regular[b]) /\ IsInjective(Stake[b])
    /\ \A j \in DOMAIN Regular[b] : LET t == Regular[b][j] IN
        /\ TxType[t] = "regular"
        /\ \A i \in DOMAIN TxIns[t] : TxIns[t][i].outp[1] \notin Tx <=> j = 1 /\ i = 1
    /\ \A j \in DOMAIN Stake[b] : LET t == Stake[b][j] IN
        /\ TxType[t] # "regular" /\ (TxType[t] = "treasurybase" => j = 1)
        /\ TxType[t] = "tspend" => Len(TxIns[t]) = 1
        /\ \A i \in DOMAIN TxIns[t] :
            TxIns[t][i].outp[1] \notin Tx <=> i = 1 /\ TxType[t] \in {"vote", "treasurybase", "tspend"}

\* The transactions in force below b, once those it disapproves are reversed.
Reversed(b) == IF Approves[b] THEN {} ELSE Range(Regular[Parent[b]])
Mined(b) == Range(Regular[b]) \cup Range(Stake[b])
Below(b) == AppliedTxs(Parent[b]) \ Reversed(b)

\* Every output the transactions spend is one of theirs, and spent once.  An
\* output to the treasury is spent by none of them.
Consistent(txs) ==
    \A t \in txs : \A i \in DOMAIN TxIns[t] : LET o == TxIns[t][i].outp IN
        o[1] \in Tx =>
            /\ o[1] \in txs /\ o[2] \in DOMAIN TxOuts[o[1]]
            /\ OutAccount(o[1], o[2]) = PrevOutput(o).acct
            /\ \A s \in txs : \A j \in DOMAIN TxIns[s] :
                TxIns[s][j].outp = o => s = t /\ j = i

\* No transaction is mined again while it is in force.  The genesis block pays
\* nobody.
ASSUME ConsensusAssumption ==
    /\ \A t \in Tx :
        /\ TxOuts[t] \in Seq(Range(TxOuts[t])) /\ TxIns[t] \in Seq(Range(TxIns[t]))
        /\ \A i \in DOMAIN TxOuts[t] : TxOuts[t][i].value \in Int
        /\ \A i \in DOMAIN TxIns[t] : LET in == TxIns[t][i] IN
            in.valueIn \in Int /\ in.outp = <<in.outp[1], in.outp[2]>>
    /\ Regular[Genesis] = << >> /\ Stake[Genesis] = << >>
    /\ \A b \in Blocks \ {Genesis} :
        /\ WellPlaced(b)
        /\ Mined(b) \cap Below(b) = {}
        /\ Consistent(Below(b)) /\ Consistent(AppliedTxs(b))

=============================================================================
