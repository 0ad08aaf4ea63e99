------------------------------- MODULE Updates -------------------------------
(***************************************************************************)
(* How the server calls a backenddb.DB: the pattern of calls inside one    *)
(* Update, the same for the two stores and for what they promise.          *)
(*                                                                         *)
(* A "connect" Update (preProcessAccountBlock) adds and deletes the        *)
(* outputs a block touches, then calls StoreBalances once.  A "rollback"   *)
(* Update (rollbackDbChain, handleBlockDisconnected) does that once per    *)
(* block, each time followed by RollbackTip; it may also find nothing to   *)
(* roll back.  Only Run writes, so one Update is open at a time.           *)
(***************************************************************************)
EXTENDS BackendDb

CONSTANTS
    Coins,           \* the outputs, each with the account it pays
    Amount(_),       \* the amount of an output
    BalanceMaps,     \* the balances a StoreBalances call may pass
    MaxCalls,        \* bound: AddUtxo and DelUtxo calls per block
    ReAdds,          \* an Update may delete an output and add it again
    LateAborts       \* an Update may fail after it has called RollbackTip

ASSUME UpdatesAssumption ==
    /\ MaxCalls \in Nat
    /\ ReAdds \in BOOLEAN /\ LateAborts \in BOOLEAN
    /\ \A bals \in BalanceMaps : IsPartialFcn(bals, Accounts, Int)
    /\ Coins \subseteq Coin
    /\ \A o \in Outpoints : Amount(o) \in Int

VARIABLE upd         \* the Update in progress

\* calls: outputs touched since the tip last changed.  tips: whether this Update
\* has changed the tip.
NoUpdate == [kind |-> "none", calls |-> 0, tips |-> FALSE]

BeginCall == /\ upd.kind = "none"
             /\ \E k \in {"connect", "rollback"} : upd' = [NoUpdate EXCEPT !.kind = k]

\* h: the height of the tip the Update sees.  A rollback of block 1 cannot
\* succeed, so it is not begun.
UtxoCall(h) ==
            /\ \/ upd.kind = "rollback" /\ h > 1
               \/ upd.kind = "connect" /\ ~upd.tips
            /\ upd.calls < MaxCalls
            /\ upd' = [upd EXCEPT !.calls = @ + 1]

StoreCall == /\ upd.kind = "connect" /\ ~upd.tips
             /\ upd' = [upd EXCEPT !.calls = 0, !.tips = TRUE]

RollbackCall == /\ upd.kind = "rollback"
                /\ upd' = [upd EXCEPT !.calls = 0, !.tips = TRUE]

CommitCall == /\ upd.kind # "none" /\ upd.calls = 0
              /\ upd.kind = "connect" => upd.tips
              /\ upd' = NoUpdate

\* The function passed to Update returns an error.  rollbackDbChain asks dcrd for
\* blocks between its RollbackTips, so it may also fail there (LateAborts).
AbortCall == /\ upd.kind # "none"
             /\ LateAborts \/ ~(upd.kind = "rollback" /\ upd.tips)
             /\ upd' = NoUpdate

=============================================================================
