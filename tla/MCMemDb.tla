------------------------------- MODULE MCMemDb -------------------------------
(***************************************************************************)
(* A few blocks and outputs for the memory store.                          *)
(***************************************************************************)
EXTENDS MemDb

MCBlocks == {"g", "a1", "a2", "b2", "a3"}
MCParent == [a1 |-> "g", a2 |-> "a1", b2 |-> "a1", a3 |-> "a2"]
MCHeight == [g |-> 0, a1 |-> 1, a2 |-> 2, b2 |-> 2, a3 |-> 3]
MCApproves == [b \in MCBlocks |-> TRUE]

\* Three outputs fill all of an account's buckets in turn; the other account
\* has balances only.
MCCoins == {"alice"} \X {1, 2, 3}

MCAmount(o) == o
MCBalanceMaps == {[x \in {"alice"} |-> 1], [x \in {"alice", "bob"} |-> 2]}

=============================================================================
