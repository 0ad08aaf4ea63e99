------------------------------- MODULE MCTree --------------------------------
(***************************************************************************)
(* Small chains for TLC.                                                   *)
(*                                                                         *)
(*   g - a1 - a2 - a3        a3 disapproves a2                             *)
(*         \- b2 - b3                                                      *)
(*                                                                         *)
(* and, rooted at genesis, r1: a second block 1, for the rollbacks the     *)
(* stores refuse.  a2 and b2 spend the same output.  The stake trees hold  *)
(* a ticket, the vote that spends it, a treasury base and a treasury add.  *)
(***************************************************************************)
EXTENDS Functions

MCBlocks == {"g", "a1", "a2", "a3", "b2", "b3", "r1"}
MCGenesis == "g"
MCNoBlock == "nil"
MCParent == [a1 |-> "g", a2 |-> "a1", a3 |-> "a2", b2 |-> "a1", b3 |-> "b2", r1 |-> "g"]
MCHeight == [g |-> 0, a1 |-> 1, a2 |-> 2, a3 |-> 3, b2 |-> 2, b3 |-> 3, r1 |-> 1]
MCApproves == [b \in MCBlocks |-> b # "a3"]

\* Without r1.
MCBlocks3 == MCBlocks \ {"r1"}
MCParent3 == Restrict(MCParent, MCBlocks3 \ {"g"})
MCHeight3 == Restrict(MCHeight, MCBlocks3)
MCApproves3 == Restrict(MCApproves, MCBlocks3)

MCAccounts == {"alice", "bob", "*treasury"}
MCTreasury == "*treasury"

Out(a, v) == [acct |-> a, value |-> v]
In(tx, i) == [outp |-> <<tx, i>>, valueIn |-> 0]
NullIn(v) == [outp |-> <<"null", 0>>, valueIn |-> v]

Coinbases == {"cb1", "cba2", "cba3", "cbb2", "cbb3", "cbr1"}

MCTx == Coinbases \cup {"pay1", "pay2", "ticket", "vote", "tbase", "tadd", "tspend"}

MCTxType ==
    [t \in MCTx |-> CASE t = "ticket" -> "ticket" [] t = "vote" -> "vote"
                      [] t = "tbase" -> "treasurybase" [] t = "tadd" -> "tadd"
                      [] t = "tspend" -> "tspend" [] OTHER -> "regular"]

MCTxIns ==
    [t \in MCTx |->
        CASE t \in {"pay1", "pay2"} -> << In("cb1", 1) >>
          [] t = "ticket" -> << In("cb1", 2) >>
          [] t = "vote" -> << NullIn(1), In("ticket", 1) >>
          [] t = "tadd" -> << In("pay2", 1) >>
          [] t = "tspend" -> << NullIn(1) >>
          [] OTHER -> << NullIn(0) >>]

MCTxOuts ==
    [t \in MCTx |->
        CASE t = "cb1" -> << Out("alice", 4), Out("bob", 2) >>
          [] t = "pay1" -> << Out("bob", 3), Out("alice", 0) >>
          [] t = "pay2" -> << Out("bob", 1), Out("alice", 3) >>
          [] t = "ticket" -> << Out("bob", 2) >>
          [] t = "vote" -> << Out("bob", 0), Out("bob", 3) >>
          [] t \in {"tbase", "tadd"} -> << Out("*treasury", 1) >>
          [] t = "tspend" -> << Out("alice", 1) >>
          [] OTHER -> << Out("alice", 1) >>]

MCRegular ==
    [g |-> << >>, a1 |-> <<"cb1">>, a2 |-> <<"cba2", "pay1">>, a3 |-> <<"cba3">>,
     b2 |-> <<"cbb2", "pay2">>, b3 |-> <<"cbb3">>, r1 |-> <<"cbr1">>]

\* pay1, reversed by a3's disapproval of a2, is mined again in a3.
MCRegularRemined == [MCRegular EXCEPT !["a3"] = <<"cba3", "pay1">>]

MCStake ==
    [g |-> << >>, a1 |-> << >>, a2 |-> <<"ticket">>, a3 |-> <<"tbase", "vote">>,
     b2 |-> << >>, b3 |-> <<"tadd">>, r1 |-> << >>]

MCRegular3 == Restrict(MCRegular, MCBlocks3)
MCRegularRemined3 == Restrict(MCRegularRemined, MCBlocks3)
MCStake3 == Restrict(MCStake, MCBlocks3)

\* b3 also spends from the treasury.
MCStakeTSpend == [MCStake EXCEPT !["b3"] = <<"tadd", "tspend">>]
MCStakeTSpend3 == Restrict(MCStakeTSpend, MCBlocks3)

MCOutpoints == {<<"null", 0>>} \cup (MCTx \X (1..2))

=============================================================================
