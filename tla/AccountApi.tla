------------------------------ MODULE AccountApi -----------------------------
(***************************************************************************)
(* The account endpoints, served by HTTP goroutines while Run moves the    *)
(* database.  AccountCoins reads tip and utxos in one View.                *)
(* AccountBalance resolves the block identifier in one View, fetches the   *)
(* block from dcrd, and reads the balance in a second View: the database   *)
(* may move in between.  Requests do not affect each other, so one is      *)
(* followed at a time.                                                     *)
(***************************************************************************)
EXTENDS Ledger, RosettaBlock

CONSTANT QueryAccounts      \* the accounts clients ask about

ASSUME QueryAssumption == QueryAccounts \subseteq Accounts

VARIABLE call   \* the request: not made, resolved to a block, or answered

apiVars == <<vars, call>>

NoCall == [phase |-> "none"]

\* The block a partial block identifier resolves to, a set with at most one
\* element: the processed tip by default (the zero hash of a new database names
\* no block), the processed block of an index, or any block by its hash, which
\* may not be processed.
BlockByPartialId(d, id) ==
    CASE id.by = "tip"   -> IF LastHeight(d) = 0 THEN {} ELSE {LastProcessedBlock(d)}
      [] id.by = "index" -> IF id.index = 0 THEN {Genesis}
                            ELSE {d.processed[h] : h \in DOMAIN d.processed \cap {id.index}}
      [] id.by = "hash"  -> {id.hash}

PartialIds ==
    {[by |-> "tip"]} \cup [by : {"index"}, index : Range(Height)]
        \cup [by : {"hash"}, hash : Blocks]

\* First half of AccountBalance: resolve the block and fetch it.  An
\* unresolvable identifier is answered with an error right away.
ResolveBalance(a, id) ==
    /\ call = NoCall
    /\ \E b \in BlockByPartialId(db, id) :
        call' = [phase |-> "resolved", acct |-> a, by |-> id.by, block |-> b]
    /\ UNCHANGED vars

\* Mutant: reads the balance at the processed tip.
AnswerBalanceAtTip ==
    /\ call.phase = "resolved"
    /\ call' = [phase |-> "balance", acct |-> call.acct, by |-> call.by,
                block |-> call.block,
                amount |-> Balance(db, call.acct, LastHeight(db))]
    /\ UNCHANGED vars

\* Second half: the balance at the height of that block, from the database as
\* it is now, answered under the hash resolved before.
AnswerBalance ==
    /\ call.phase = "resolved"
    /\ call' = [phase |-> "balance", acct |-> call.acct, by |-> call.by,
                block |-> call.block,
                amount |-> Balance(db, call.acct, Height[call.block])]
    /\ UNCHANGED vars

\* Mutant: names dcrd's tip instead of the processed one.
AccountCoinsAtDcrdTip(a) ==
    /\ call = NoCall
    /\ call' = [phase |-> "coins", acct |-> a, block |-> tip, coins |-> ListUtxos(db, a)]
    /\ UNCHANGED vars

\* AccountCoins: tip and coins in one View.  A new database answers with the
\* zero hash, no block.
AccountCoins(a) ==
    /\ call = NoCall
    /\ call' = [phase |-> "coins", acct |-> a,
                block |-> IF LastHeight(db) = 0 THEN NoBlock ELSE LastProcessedBlock(db),
                coins |-> ListUtxos(db, a)]
    /\ UNCHANGED vars

\* The client has its answer.
Answered == call.phase \in {"balance", "coins"} /\ call' = NoCall /\ UNCHANGED vars

ApiStep ==
    \/ \E a \in QueryAccounts : AccountCoins(a) \/ \E id \in PartialIds : ResolveBalance(a, id)
    \/ AnswerBalance
    \/ Answered

ApiInit == Init /\ call = NoCall

\* The HTTP server lives in the process: requests are served while Run is up,
\* startup included, and die with it.
ApiNext ==
    \/ Next /\ call' = (IF pc' = "down" THEN NoCall ELSE call)
    \/ pc # "down" /\ ApiStep

ApiSpec == ApiInit /\ [][ApiNext]_apiVars

-----------------------------------------------------------------------------
\* The coins of an account are listed under the block whose ledger they are,
\* whatever Run was doing when they were read; under no block there are none.
CoinsMatchTheirBlock ==
    call.phase = "coins" =>
        LET unspent == IF call.block = NoBlock THEN << >> ELSE UnspentAt[call.block]
        IN  call.coins = Restrict(unspent, {c \in DOMAIN unspent : c[1] = call.acct})

\* A balance is right for the block it is reported under as long as that block
\* is (again) on the processed chain when the balance is read.
BalanceOfProcessedBlock ==
    [][call.phase = "resolved" /\ call'.phase = "balance"
       /\ call.block \in Range(db.processed) \cup {Genesis}
       => call'.amount = LedgerBalanceAt[call.block][call.acct]]_apiVars

\* A balance asked for by index, or at the tip, is the balance at the block it
\* is reported under.
BalanceMatchesItsBlock ==
    call.phase = "balance" /\ call.by \in {"tip", "index"} =>
        call.amount = LedgerBalanceAt[call.block][call.acct]

\* The coins the blocks create, as /block shows them.
CreatedIn == [b \in Blocks |->
    {op.change.coin : op \in {op \in UNION {Range(tx.ops) : tx \in Range(WireBlockToRosetta(b).txs)} :
                                op.change.action = "coin_created"}}]

\* ROp's comment: an output to the treasury creates no coin; so /account/coins
\* lists no coin that no block of the chain created.
ListedCoinsWereCreated ==
    call.phase = "coins" /\ call.block # NoBlock =>
        \A c \in DOMAIN call.coins : \E b \in Ancestors[call.block] : c[2] \in CreatedIn[b]

=============================================================================
