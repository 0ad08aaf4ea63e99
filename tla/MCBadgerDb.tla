------------------------------ MODULE MCBadgerDb -----------------------------
(***************************************************************************)
(* Three accounts, of which each is a prefix of the next, heights that     *)
(* carry into the second byte, and an output of each account.              *)
(***************************************************************************)
EXTENDS BadgerDb

MCBlocks == {"g", "a1", "a2", "b2", "a3"}
MCParent == [a1 |-> "g", a2 |-> "a1", b2 |-> "a1", a3 |-> "a2"]
MCHeight == [g |-> 0, a1 |-> 1, a2 |-> 2, b2 |-> 2, a3 |-> 3]
MCApproves == [b \in MCBlocks |-> TRUE]

A == <<2>>
AB == <<2, 3>>
ABA == <<2, 3, 2>>
MCAccounts == {A, AB, ABA}
MCOutpoints == {<<1>>, <<2>>}
MCCoins == {<<A, <<1>>>>, <<AB, <<2>>>>}
MCAmount(o) == o[1]
MCBalanceMaps == {[x \in {A} |-> 1], [x \in {AB, ABA} |-> 2]}

=============================================================================
