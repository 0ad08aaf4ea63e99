------------------------------- MODULE MCSync --------------------------------
(***************************************************************************)
(* Sync and its ledger over the chains of MCTree.                          *)
(***************************************************************************)
EXTENDS Ledger, MCTree

\* IterateBlockOps tabulated, for TLC to evaluate once (a block that disapproves
\* its parent is never connected without it).
OpsTable ==
    [b \in Blocks \ {Genesis} |-> [p \in Blocks \cup {NoBlock} |->
        IF p = NoBlock /\ ~Approves[b] THEN << >> ELSE IterateBlockOps(b, p)]]
MCOps(b, p) == OpsTable[b][p]

=============================================================================
