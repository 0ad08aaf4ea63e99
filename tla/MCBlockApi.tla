----------------------------- MODULE MCBlockApi ------------------------------
(***************************************************************************)
(* BlockApi over the chains of MCTree, in the variant where a3 reverses    *)
(* pay1 and mines it again, and b3 spends from the treasury.  b4 makes one *)
(* branch longer.                                                          *)
(***************************************************************************)
EXTENDS BlockApi, MCTree

LongBlocks == MCBlocks3 \cup {"b4"}
LongParent == [b \in LongBlocks \ {"g"} |-> IF b = "b4" THEN "b3" ELSE MCParent3[b]]
LongHeight == [b \in LongBlocks |-> IF b = "b4" THEN 4 ELSE MCHeight3[b]]
LongApproves == [b \in LongBlocks |-> b # "a3"]
LongRegular == [b \in LongBlocks |-> IF b = "b4" THEN <<"cbr1">> ELSE MCRegularRemined[b]]
LongStake == [b \in LongBlocks |-> IF b = "b4" THEN << >> ELSE MCStakeTSpend[b]]
=============================================================================
