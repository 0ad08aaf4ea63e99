------------------------------ MODULE BackendDb ------------------------------
(***************************************************************************)
(* What the backenddb.DB interface promises, as pure operators over one    *)
(* value per database state: the record of                                 *)
(*   processed  the processed block hashes; index i is height i (genesis   *)
(*              is never stored, an empty sequence is a new database)      *)
(*   balances   for each processed height, the balances of the accounts    *)
(*              that block touched, and of no others                       *)
(*   utxos      the unspent outputs: (account, outpoint) |-> amount        *)
(* An open Update works on a copy of such a record; commit installs the    *)
(* copy, an error drops it.                                                *)
(***************************************************************************)
EXTENDS BlockTree, Sequences, FiniteSetsExt, Functions

CONSTANTS
    Accounts,    \* account addresses, the treasury included
    Outpoints    \* transaction outputs (hash, index and tree)

Coin == Accounts \X Outpoints

\* f is a function from a subset of S to T.
IsPartialFcn(f, S, T) ==
    DOMAIN f \subseteq S /\ f \in [DOMAIN f -> T]

\* Each processed height records the balances of the accounts it touched.
IsDb(d) ==
    /\ d \in [processed : Seq(Blocks \ {Genesis}), balances : Seq(Range(d.balances)),
              utxos : {d.utxos}]
    /\ \A bals \in Range(d.balances) : IsPartialFcn(bals, Accounts, Int)
    /\ IsPartialFcn(d.utxos, Coin, Int)

\* A newly created database.
EmptyDb == [processed |-> << >>, balances |-> << >>, utxos |-> << >>]

-----------------------------------------------------------------------------
LastHeight(d) == Len(d.processed)

\* The last processed block.  The store answers the zero hash at height 0 when
\* nothing was stored yet; every caller that compares that answer with a block
\* substitutes the genesis hash first, or compares only at heights above 0.
LastProcessedBlock(d) ==
    IF d.processed = << >> THEN Genesis ELSE d.processed[LastHeight(d)]

\* The heights up to h at which account a has a recorded balance.
RecordedHeights(d, a, h) ==
    {k \in 1..h : k <= Len(d.balances) /\ a \in DOMAIN d.balances[k]}

\* The most recent balance recorded at or below height h, zero without one.
Balance(d, a, h) ==
    LET hs == RecordedHeights(d, a, h)
    IN  IF hs = {} THEN 0 ELSE d.balances[Max(hs)][a]

\* Record block b as the new tip with the balances it changed.  Guard for
\* callers: the height stored is LastHeight(d) + 1, otherwise the store fails
\* with ErrBlockAlreadyProcessed or ErrNotExtendingTip.
StoreBalances(d, b, bals) ==
    [d EXCEPT !.processed = Append(@, b), !.balances = Append(@, bals)]

\* Mutant: block 1 can be dropped too.
CanRollbackTipToGenesis(d) == LastHeight(d) > 0

\* Both stores look up the block below the tip when they drop the tip, and
\* genesis is never stored: dropping block 1 fails (badger: key not found;
\* memdb: nil dereference).
CanRollbackTip(d) == LastHeight(d) > 1

\* Mutant: the balances recorded at the dropped height are left behind.
RollbackTipKeepsBalances(d) ==
    [d EXCEPT !.processed = SubSeq(@, 1, Len(@) - 1)]

\* Drop the tip and the balances recorded at its height.
RollbackTip(d) ==
    [d EXCEPT !.processed = SubSeq(@, 1, Len(@) - 1),
              !.balances  = SubSeq(@, 1, Len(@) - 1)]

\* AddUtxo overwrites an existing entry, DelUtxo of a missing one is a no-op.
AddUtxo(u, c, amt) == [x \in DOMAIN u \cup {c} |-> IF x = c THEN amt ELSE u[x]]
DelUtxo(u, c)      == [x \in DOMAIN u \ {c} |-> u[x]]

ListUtxos(d, a) == Restrict(d.utxos, {c \in DOMAIN d.utxos : c[1] = a})

=============================================================================
