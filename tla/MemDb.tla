-------------------------------- MODULE MemDb --------------------------------
(***************************************************************************)
(* The memory store.  Tables are read through the journal of the open      *)
(* Update, which is merged into them on success; RollbackTip alone writes  *)
(* the tables directly.  The unspent outputs of an account live in one of  *)
(* three buckets, depending on how many there are.                         *)
(*                                                                         *)
(* A bucket that may be nil is a set of at most one value; a utxo is the   *)
(* pair of its outpoint and amount; the slice of "a few" is a bag, as the  *)
(* order Go's map iteration gives it is arbitrary.  The mutex is held for  *)
(* a whole View or Update, so nobody reads while an Update is open.        *)
(***************************************************************************)
EXTENDS Updates, Bags

CONSTANT FewUtxoLimit    \* 12 in the code

ASSUME MemDbAssumption == FewUtxoLimit \in Nat \ {0}

VARIABLES
    balances,         \* account |-> sequence of (height, balance)
    last,             \* lastBlockHash and lastHeight
    processedBlocks,  \* height |-> (hash, accounts)
    buckets,          \* account |-> singleUtxos, fewUtxos and utxos
    tx,               \* the transaction passed to the open Update
    before            \* history: what reads saw before the open Update

vars == <<balances, last, processedBlocks, buckets, tx, upd, before>>
tables == <<balances, last, processedBlocks, buckets>>

Utxo == Outpoints \X Int
Outps(us) == {u[1] : u \in us}

\* Assigning utxos to a map keyed by outpoint.
Assign(m, us) == {u \in m : u[1] \notin Outps(us)} \cup us

EmptyTx == [balances |-> [a \in Accounts |-> << >>], updatedBlock |-> FALSE,
            blockHash |-> NoBlock, blockHeight |-> 0, processedBlocks |-> << >>,
            utxos |-> << >>, delUtxos |-> {}]

NewMemDB ==
    /\ balances = [a \in Accounts |-> << >>]
    /\ last = [hash |-> NoBlock, height |-> 0]
    /\ processedBlocks = << >>
    /\ buckets = [a \in Accounts |-> [single |-> {}, few |-> {}, many |-> {}]]

-----------------------------------------------------------------------------
(* Reads, through transaction t.                                           *)

\* sort.Search: the first entry at or above height h, or one past the end.
SearchHeight(s, h) == Min({i \in DOMAIN s : s[i].height >= h} \cup {Len(s) + 1})

\* Mutant: the transaction's own balances hide the database's.
MemBalanceHides(t, a, h) ==
    LET s == IF t.balances[a] = << >> THEN balances[a] ELSE t.balances[a]
        i == SearchHeight(s, h)
    IN  IF i <= Len(s) /\ s[i].height = h THEN s[i].balance
        ELSE IF i = 1 THEN 0 ELSE s[i - 1].balance

MemBalance(t, a, h) ==
    LET s == IF t.balances[a] = << >> \/ t.balances[a][1].height > h
             THEN balances[a] ELSE t.balances[a]
        i == SearchHeight(s, h)
    IN  IF i <= Len(s) /\ s[i].height = h THEN s[i].balance
        ELSE IF i = 1 THEN 0 ELSE s[i - 1].balance

MemLastBlock(t) ==
    IF t.updatedBlock THEN [hash |-> t.blockHash, height |-> t.blockHeight] ELSE last

\* NoBlock stands for ErrBlockHeightNotFound.
ProcessedBlockHash(t, h) ==
    IF h \in DOMAIN t.processedBlocks THEN t.processedBlocks[h].hash
    ELSE IF h \in DOMAIN processedBlocks THEN processedBlocks[h].hash
    ELSE NoBlock

MemListUtxos(t, a) ==
    LET stored == buckets[a].single \cup (UNION {BagToSet(b) : b \in buckets[a].few})
                  \cup (UNION buckets[a].many)
        added == IF a \in DOMAIN t.utxos THEN t.utxos[a] ELSE {}
    IN  {u \in Assign(stored, added) : <<a, u[1]>> \notin t.delUtxos}

\* All that reads through t can see, as one value of the contract.
Seen(t) ==
    LET tip == MemLastBlock(t).height
        at(h) == {x \in UNION {{a} \X Range(balances[a] \o t.balances[a]) : a \in Accounts} :
                     x[2].height = h}
        coins == UNION {{a} \X MemListUtxos(t, a) : a \in Accounts}
    IN  [processed |-> [h \in 1..tip |-> ProcessedBlockHash(t, h)],
         balances  |-> [h \in 1..tip |->
             [a \in {x[1] : x \in at(h)} |->
                 (CHOOSE x \in at(h) : x[1] = a)[2].balance]],
         utxos     |-> [c \in {<<x[1], x[2][1]>> : x \in coins} |->
                           (CHOOSE x \in coins : c = <<x[1], x[2][1]>>)[2][2]]]

-----------------------------------------------------------------------------
Init == NewMemDB /\ tx = EmptyTx /\ upd = NoUpdate /\ before = EmptyDb

Begin ==
    /\ BeginCall
    /\ tx' = EmptyTx
    /\ before' = Seen(EmptyTx)
    /\ UNCHANGED tables

\* Adding cancels a scheduled deletion.  A block creates outputs, or restores
\* those it undoes the spending of: none that the Update lists already, but
\* perhaps one it deleted before.
MemAddUtxo(a, o) ==
    /\ UtxoCall(MemLastBlock(tx).height)
    /\ o \notin Outps(MemListUtxos(tx, a))
    /\ ReAdds \/ <<a, o>> \notin DOMAIN before.utxos
    /\ tx' = [tx EXCEPT
                !.utxos = [x \in DOMAIN @ \cup {a} |->
                    IF x # a THEN @[x]
                    ELSE Assign(IF a \in DOMAIN @ THEN @[a] ELSE {}, {<<o, Amount(o)>>})],
                !.delUtxos = @ \ {<<a, o>>}]
    /\ UNCHANGED <<tables, before>>

\* Deleting drops an addition and schedules the removal.
MemDelUtxo(a, o) ==
    /\ UtxoCall(MemLastBlock(tx).height)
    /\ tx' = [tx EXCEPT !.utxos = [x \in DOMAIN @ |->
                            IF x = a THEN {u \in @[a] : u[1] # o} ELSE @[x]],
                        !.delUtxos = @ \cup {<<a, o>>}]
    /\ UNCHANGED <<tables, before>>

\* The two errors: the height was processed, or is not one above the tip.
MemStoreBalances(b, bals) ==
    LET h == Height[b]
    IN  /\ StoreCall
        /\ ~(tx.updatedBlock /\ tx.blockHeight = h) /\ last.height # h
        /\ h = MemLastBlock(tx).height + 1
        /\ tx' = [tx EXCEPT
                    !.balances = [a \in Accounts |->
                        IF a \in DOMAIN bals
                        THEN Append(@[a], [height |-> h, balance |-> bals[a]]) ELSE @[a]],
                    !.processedBlocks = [k \in DOMAIN @ \cup {h} |->
                        IF k = h THEN [hash |-> b, accounts |-> DOMAIN bals] ELSE @[k]],
                    !.blockHash = b, !.blockHeight = h, !.updatedBlock = TRUE]
        /\ UNCHANGED <<tables, before>>

\* The caller passes the block LastProcessedBlock named.  Balances and processed
\* blocks are removed from the tables at once; only the new tip is journaled.
\* There is no block below block 1: the code dereferences nil.
MemRollbackTip ==
    LET tip == IF tx.blockHeight = 0 THEN last
               ELSE [hash |-> tx.blockHash, height |-> tx.blockHeight]
        h == tip.height
    IN  /\ RollbackCall
        /\ tip = MemLastBlock(tx)
        /\ h > 0
        /\ IF h \notin DOMAIN processedBlocks THEN UNCHANGED <<balances, processedBlocks, tx>>
           ELSE /\ h - 1 \in DOMAIN processedBlocks
                /\ balances' = [a \in Accounts |->
                     LET s == balances[a]
                     IN  IF /\ a \in processedBlocks[h].accounts
                            /\ s # << >> /\ s[Len(s)].height = h
                         THEN SubSeq(s, 1, Len(s) - 1) ELSE s]
                /\ processedBlocks' = Restrict(processedBlocks, DOMAIN processedBlocks \ {h})
                /\ tx' = [tx EXCEPT !.blockHash = processedBlocks[h - 1].hash,
                                    !.blockHeight = h - 1, !.updatedBlock = TRUE]
        /\ UNCHANGED <<last, buckets, before>>

-----------------------------------------------------------------------------
(* The end of Update.                                                      *)

FewOf(bk) == IF bk.few = {} THEN EmptyBag ELSE CHOOSE b \in bk.few : TRUE

\* Mutant: the single utxo is forgotten when an account gets many.
AddToBucketsLosesFirst(bk, us) ==
    LET few == FewOf(bk)
        total == Cardinality(us) + BagCardinality(few) + Cardinality(bk.single)
    IN  IF bk.single = {} /\ bk.few = {} /\ bk.many = {} /\ Cardinality(us) = 1
        THEN [bk EXCEPT !.single = us]
        ELSE IF bk.many = {} /\ total < FewUtxoLimit
        THEN [bk EXCEPT !.single = {}, !.few = {few (+) SetToBag(bk.single) (+) SetToBag(us)}]
        ELSE [single |-> {}, few |-> {}, many |-> {Assign((UNION bk.many) \cup BagToSet(few), us)}]

\* Mutant: the limit counts the new utxos only.
AddToBucketsCountsNew(bk, us) ==
    IF bk.single = {} /\ bk.few = {} /\ bk.many = {} /\ Cardinality(us) = 1
    THEN [bk EXCEPT !.single = us]
    ELSE IF bk.many = {} /\ Cardinality(us) < FewUtxoLimit
    THEN [bk EXCEPT !.single = {}, !.few = {FewOf(bk) (+) SetToBag(bk.single) (+) SetToBag(us)}]
    ELSE [single |-> {}, few |-> {},
          many |-> {Assign(Assign(Assign(UNION bk.many, bk.single), BagToSet(FewOf(bk))), us)}]

\* The utxos us a transaction adds to an account: its first single one, a few
\* in all, or the long tail, which absorbs the other buckets for good.
AddToBuckets(bk, us) ==
    LET few == FewOf(bk)
        total == Cardinality(us) + BagCardinality(few) + Cardinality(bk.single)
    IN  IF bk.single = {} /\ bk.few = {} /\ bk.many = {} /\ Cardinality(us) = 1
        THEN [bk EXCEPT !.single = us]
        ELSE IF bk.many = {} /\ total < FewUtxoLimit
        THEN [bk EXCEPT !.single = {}, !.few = {few (+) SetToBag(bk.single) (+) SetToBag(us)}]
        ELSE [single |-> {}, few |-> {},
              many |-> {Assign(Assign(Assign(UNION bk.many, bk.single), BagToSet(few)), us)}]

\* Removes one entry for the outpoint from "a few", and any from the others.
DelFromBuckets(bk, o) ==
    LET few == FewOf(bk)
        found == {u \in BagToSet(few) : u[1] = o}
    IN  [single |-> {u \in bk.single : u[1] # o},
         few    |-> IF found = {} THEN bk.few
                    ELSE {few (-) SetToBag({CHOOSE u \in found : TRUE})},
         many   |-> {{u \in m : u[1] # o} : m \in bk.many}]

Commit ==
    /\ CommitCall
    /\ balances' = [a \in Accounts |-> balances[a] \o tx.balances[a]]
    /\ processedBlocks' = [h \in DOMAIN processedBlocks \cup DOMAIN tx.processedBlocks |->
         IF h \in DOMAIN tx.processedBlocks THEN tx.processedBlocks[h] ELSE processedBlocks[h]]
    /\ last' = MemLastBlock(tx)
    /\ buckets' = [a \in Accounts |->
         FoldSet(LAMBDA o, bk : DelFromBuckets(bk, o),
                 IF a \in DOMAIN tx.utxos THEN AddToBuckets(buckets[a], tx.utxos[a])
                 ELSE buckets[a],
                 {c[2] : c \in {c \in tx.delUtxos : c[1] = a}})]
    /\ tx' = EmptyTx
    /\ before' = EmptyDb

Abort ==
    /\ AbortCall
    /\ tx' = EmptyTx
    /\ before' = EmptyDb
    /\ UNCHANGED tables

Next ==
    \/ Begin \/ MemRollbackTip \/ Commit \/ Abort
    \/ \E c \in Coins : MemAddUtxo(c[1], c[2]) \/ MemDelUtxo(c[1], c[2])
    \/ \E b \in Blocks \ {Genesis}, bals \in BalanceMaps : MemStoreBalances(b, bals)

Spec == Init /\ [][Next]_vars

-----------------------------------------------------------------------------
(***************************************************************************)
(* Properties.                                                             *)
(***************************************************************************)

Promised == INSTANCE Store WITH
    db  <- IF upd.kind = "none" THEN Seen(EmptyTx) ELSE before,
    wtx <- IF upd.kind = "none" THEN EmptyDb ELSE Seen(tx)

\* The memory store keeps the contract of backenddb.DB as long as no Update adds
\* an output that it deleted (~ReAdds) and none fails once it has called
\* RollbackTip (~LateAborts): what the reads of an Update see and what is
\* committed are those of a copy that is installed or dropped, although coins
\* move between three buckets and deletions are journaled; an Update that fails
\* before its first RollbackTip leaves nothing behind.  In the other cases the
\* code departs from the contract: FailedUpdateChangesNothing, DeletedIsGone.
MemKeepsContract == Promised!Spec

\* Balance answers from the journal or from the tables by binary search; either
\* way it is the latest balance recorded at or below the height asked for, also
\* after an Update failed with its rollbacks half done (MemLatestTheorem).  The
\* comment on DB.Balance says "higher than": BalanceAsDocumented.
MemBalanceIsLatest ==
    \A a \in Accounts, h \in 0..(MemLastBlock(tx).height + 1) :
        MemBalance(tx, a, h) = Balance(Seen(tx), a, h)

\* An account has a single utxo or a few, and once it has many it has only
\* those; "a few" stay below the limit and no output is listed twice.
OneBucket ==
    \A a \in Accounts :
        LET bk == buckets[a]
        IN  /\ bk.many # {} => bk.single = {} /\ bk.few = {}
            /\ BagCardinality(FewOf(bk)) < FewUtxoLimit
            /\ \A u \in BagToSet(FewOf(bk)) : FewOf(bk)[u] = 1

\* What the comment on DB.Balance says it returns: "the latest balance for the
\* given account address that is at a height higher than the specified height".
BalanceAsDocumented ==
    \A a \in Accounts, h \in 0..MemLastBlock(tx).height :
        LET d  == Seen(tx)
            hs == RecordedHeights(d, a, LastHeight(d)) \ 1..h
        IN  MemBalance(tx, a, h) = IF hs = {} THEN 0 ELSE d.balances[Max(hs)][a]

\* The comment on DB.Update, for an Update that fails after RollbackTip:
\* "If the function returns an error, then any DB changes are *not* committed."
FailedUpdateChangesNothing == [][Abort => Seen(EmptyTx)' = before]_vars

\* The comment on DB.DelUtxo: "removes the given outpoint as an unspent output of
\* the given account".  What an Update deleted and did not add again is not listed after it.
DeletedIsGone ==
    [][Commit =>
        \A c \in tx.delUtxos : c \notin DOMAIN Seen(EmptyTx)'.utxos]_vars

=============================================================================
