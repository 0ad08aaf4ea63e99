------------------------------ MODULE BadgerDb -------------------------------
(***************************************************************************)
(* The Badger store: everything is in one ordered map from byte strings to *)
(* values, so the layout of the keys decides what an iteration finds.  A   *)
(* key is a sequence of naturals (its bytes): a prefix naming the table,   *)
(* then accounts, heights and outpoints as db_ops.go lays them out.        *)
(* Heights have two digits (eight bytes in the code) and an outpoint one   *)
(* byte (37).  Badger itself is external: a transaction sees its own       *)
(* writes over a snapshot, commits them at once or drops them.             *)
(***************************************************************************)
EXTENDS Updates

CONSTANTS
    Base,        \* bound: the values of a byte of a height (256)
    MaxTxn       \* bound: the writes a transaction may hold (ErrTxnTooBig)

\* Accounts are non-empty byte strings of letters; no byte of an account is the
\* zero byte or a slash.
Nul == 0
Slash == 1
IsLetter(x) == x \in Nat /\ x > Slash

ASSUME BadgerAssumption ==
    /\ Base \in Nat \ {0, 1}
    /\ MaxTxn \in Nat
    /\ \A a \in Accounts : a \in Seq(Nat) \ {<< >>} /\ \A i \in DOMAIN a : IsLetter(a[i])
    /\ \A o \in Outpoints : o \in Seq(Nat) /\ Len(o) = 1
    /\ \A b \in Blocks : Height[b] < Base * Base

VARIABLES
    kv,       \* the committed map
    txn,      \* the map the open transaction sees
    writes    \* the number of writes it holds

vars == <<kv, txn, writes, upd>>

\* The table prefixes; only their being different matters.
Act == <<10>>
Pb == <<11>>
Bac == <<12>>
Autxos == <<13>>
LastKey == <<14>>

-----------------------------------------------------------------------------
(* Keys.                                                                   *)

\* Mutant: little-endian heights.
LittleEndian(h) == <<h % Base, h \div Base>>

BigEndian(h) == <<h \div Base, h % Base>>

\* The byte between account and height is left zero.
AccountBalanceAtHeightKey(a, h) == Act \o a \o <<Nul>> \o BigEndian(h)

ProcessedBlockKey(h) == Pb \o BigEndian(h)
BlockAccountKey(h, a) == Bac \o BigEndian(h) \o a

\* Mutant: no separator after the account.
UtxoPrefixNoSlash(a) == Autxos \o a

AccountUtxoPrefix(a) == Autxos \o a \o <<Slash>>

AccountUtxoKey(a, o) == AccountUtxoPrefix(a) \o o

HasPrefix(k, p) == Len(k) >= Len(p) /\ SubSeq(k, 1, Len(p)) = p

\* Byte-wise order of keys.
AtMost(k, l) ==
    \/ HasPrefix(l, k)
    \/ \E i \in DOMAIN k \cap DOMAIN l :
        k[i] < l[i] /\ \A j \in 1..(i - 1) : k[j] = l[j]

KeysWithPrefix(m, p) == {k \in DOMAIN m : HasPrefix(k, p)}

-----------------------------------------------------------------------------
(* Reads of map m.                                                         *)

\* A reverse iteration over the keys that start with the account, from the key
\* of the height down: the first key found, zero without one.
FetchAccountBalanceAt(m, a, h) ==
    LET below == {k \in KeysWithPrefix(m, Act \o a) :
                    AtMost(k, AccountBalanceAtHeightKey(a, h))}
    IN  IF below = {} THEN 0
        ELSE m[CHOOSE k \in below : \A l \in below : AtMost(l, k)]

FetchLastProcessedBlock(m) ==
    IF LastKey \in DOMAIN m THEN m[LastKey] ELSE [hash |-> NoBlock, height |-> 0]

\* NoBlock stands for ErrKeyNotFound.
FetchProcessedBlockHash(m, h) ==
    IF ProcessedBlockKey(h) \in DOMAIN m THEN m[ProcessedBlockKey(h)] ELSE NoBlock

FetchBlockAccounts(m, h) ==
    LET p == BlockAccountKey(h, << >>)
    IN  {SubSeq(k, Len(p) + 1, Len(k)) : k \in KeysWithPrefix(m, p)}

\* Outpoint and amount of the keys under the account; the outpoint is the end
\* of the key.
FetchAccountUtxos(m, a) ==
    LET ks == KeysWithPrefix(m, AccountUtxoPrefix(a))
    IN  [o \in {<<k[Len(k)]>> : k \in ks} |->
            m[CHOOSE k \in ks : k[Len(k)] = o[1]]]

\* All that the reads of m can see, as one value of the contract.
Seen(m) ==
    LET tip == FetchLastProcessedBlock(m).height
    IN  [processed |-> [h \in 1..tip |-> FetchProcessedBlockHash(m, h)],
         balances  |-> [h \in 1..tip |->
             [a \in {a \in Accounts : AccountBalanceAtHeightKey(a, h) \in DOMAIN m} |->
                 m[AccountBalanceAtHeightKey(a, h)]]],
         utxos     |-> [c \in {c \in Coin : c[2] \in DOMAIN FetchAccountUtxos(m, c[1])} |->
                           FetchAccountUtxos(m, c[1])[c[2]]]]

-----------------------------------------------------------------------------
(* Writes.                                                                 *)

\* dbtx.Set for every entry of puts, and dbtx.Delete; the transaction fails
\* when it grows too big.
Write(puts, dels) ==
    /\ writes' = writes + Cardinality(DOMAIN puts \cup dels)
    /\ writes' <= MaxTxn
    /\ txn' = [k \in (DOMAIN txn \ dels) \cup DOMAIN puts |->
                  IF k \in DOMAIN puts THEN puts[k] ELSE txn[k]]
    /\ UNCHANGED kv

Init == kv = << >> /\ txn = << >> /\ writes = 0 /\ upd = NoUpdate

Begin == BeginCall /\ txn' = kv /\ writes' = 0 /\ UNCHANGED kv

BadgerAddUtxo(a, o) ==
    /\ UtxoCall(FetchLastProcessedBlock(txn).height)
    /\ Write([k \in {AccountUtxoKey(a, o)} |-> Amount(o)], {})

BadgerDelUtxo(a, o) ==
    /\ UtxoCall(FetchLastProcessedBlock(txn).height)
    /\ Write(<< >>, {AccountUtxoKey(a, o)})

\* Not processed yet, and one above the tip.
BadgerStoreBalances(b, bals) ==
    LET h == Height[b]
        acts == {AccountBalanceAtHeightKey(a, h) : a \in DOMAIN bals}
        bacs == {BlockAccountKey(h, a) : a \in DOMAIN bals}
    IN  /\ StoreCall
        /\ FetchProcessedBlockHash(txn, h) = NoBlock
        /\ h = FetchLastProcessedBlock(txn).height + 1
        /\ Write([k \in acts \cup bacs \cup {ProcessedBlockKey(h), LastKey} |->
                    CASE k \in acts ->
                           bals[CHOOSE a \in DOMAIN bals : k = AccountBalanceAtHeightKey(a, h)]
                      [] k \in bacs -> "nil"
                      [] k = ProcessedBlockKey(h) -> b
                      [] k = LastKey -> [hash |-> b, height |-> h]], {})

\* Mutant: the accounts of the block below are used.
BadgerRollbackTipWrongAccounts ==
    LET h == FetchLastProcessedBlock(txn).height
        prev == FetchProcessedBlockHash(txn, h - 1)
        gone == {AccountBalanceAtHeightKey(a, h) : a \in FetchBlockAccounts(txn, h - 1)}
    IN  /\ RollbackCall
        /\ h > 0
        /\ prev # NoBlock
        /\ Write([k \in {LastKey} |-> [hash |-> prev, height |-> h - 1]],
                 gone \cup {ProcessedBlockKey(h)})

\* The balances of the accounts listed under the height are deleted; that list
\* itself is not.  The block below has to be there.
BadgerRollbackTip ==
    LET h == FetchLastProcessedBlock(txn).height
        prev == FetchProcessedBlockHash(txn, h - 1)
        gone == {AccountBalanceAtHeightKey(a, h) : a \in FetchBlockAccounts(txn, h)}
    IN  /\ RollbackCall
        /\ h > 0
        /\ prev # NoBlock
        /\ Write([k \in {LastKey} |-> [hash |-> prev, height |-> h - 1]],
                 gone \cup {ProcessedBlockKey(h)})

Commit == CommitCall /\ kv' = txn /\ txn' = << >> /\ writes' = 0

Abort == AbortCall /\ txn' = << >> /\ writes' = 0 /\ UNCHANGED kv

Next ==
    \/ Begin \/ BadgerRollbackTip \/ Commit \/ Abort
    \/ \E c \in Coins : BadgerAddUtxo(c[1], c[2]) \/ BadgerDelUtxo(c[1], c[2])
    \/ \E b \in Blocks \ {Genesis}, bals \in BalanceMaps : BadgerStoreBalances(b, bals)

Spec == Init /\ [][Next]_vars

-----------------------------------------------------------------------------
(***************************************************************************)
(* Properties.                                                             *)
(***************************************************************************)

Promised == INSTANCE Store WITH
    db  <- Seen(kv),
    wtx <- IF upd.kind = "none" THEN EmptyDb ELSE Seen(txn)

\* The Badger store keeps the contract of backenddb.DB through rollbacks, stale
\* lists of accounts, outputs added again and Updates that fail at any point.
BadgerKeepsContract == Promised!Spec

\* The reverse iteration has no separator in its prefix and finds the keys of
\* every account that starts with the one asked for; still the balance is the
\* latest of that account at or below the height, also where one account is a
\* prefix of another and where heights carry into the next byte.  (The comment
\* on DB.Balance says "higher than"; see BalanceAsDocumented in MemDb.)
BadgerBalanceIsLatest ==
    \A m \in {kv, txn} : \A a \in Accounts, h \in 0..(FetchLastProcessedBlock(m).height + 1) :
        FetchAccountBalanceAt(m, a, h) = Balance(Seen(m), a, h)

\* RollbackTip finds the balances to drop through the accounts listed under the
\* height: whatever was rolled back and stored again, every recorded balance is
\* listed, and none is recorded above the tip.
RecordedIsListed ==
    \A a \in Accounts, h \in 1..(Base * Base - 1) :
        AccountBalanceAtHeightKey(a, h) \in DOMAIN kv =>
            h <= FetchLastProcessedBlock(kv).height /\ a \in FetchBlockAccounts(kv, h)

=============================================================================
