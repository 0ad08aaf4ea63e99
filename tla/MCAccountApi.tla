---------------------------- MODULE MCAccountApi -----------------------------
(* The account endpoints over the chains of MCSync, one queried account.   *)
EXTENDS AccountApi, MCSync

MCQueryAccounts == {"bob"}
TreasuryOnly == {MCTreasury}

=============================================================================
