-------------------------------- MODULE Store --------------------------------
(***************************************************************************)
(* What backenddb.DB promises its callers: an Update works on a copy of    *)
(* the database; its reads see its own writes; when it succeeds the copy   *)
(* becomes the database, when it fails the database is as it was.          *)
(***************************************************************************)
EXTENDS Updates

VARIABLES db, wtx

vars == <<db, wtx, upd>>

Init == db = EmptyDb /\ wtx = EmptyDb /\ upd = NoUpdate

Begin == BeginCall /\ wtx' = db /\ UNCHANGED db

Add(c) ==
    /\ UtxoCall(LastHeight(wtx))
    /\ wtx' = [wtx EXCEPT !.utxos = AddUtxo(@, c, Amount(c[2]))]
    /\ UNCHANGED db

Del(c) ==
    /\ UtxoCall(LastHeight(wtx))
    /\ wtx' = [wtx EXCEPT !.utxos = DelUtxo(@, c)]
    /\ UNCHANGED db

StoreBlock(b, bals) ==
    /\ StoreCall
    /\ Height[b] = LastHeight(wtx) + 1
    /\ wtx' = StoreBalances(wtx, b, bals)
    /\ UNCHANGED db

DropTip ==
    /\ RollbackCall
    /\ CanRollbackTip(wtx)
    /\ wtx' = RollbackTip(wtx)
    /\ UNCHANGED db

Commit == CommitCall /\ db' = wtx /\ wtx' = EmptyDb

Abort == AbortCall /\ wtx' = EmptyDb /\ UNCHANGED db

Next ==
    \/ Begin \/ DropTip \/ Commit \/ Abort
    \/ \E c \in Coins : Add(c) \/ Del(c)
    \/ \E b \in Blocks \ {Genesis}, bals \in BalanceMaps : StoreBlock(b, bals)

Spec == Init /\ [][Next]_vars

=============================================================================
