------------------------------ MODULE BlockTree ------------------------------
(***************************************************************************)
(* The blocks dcrd may ever serve: a tree rooted at the genesis block,     *)
(* linked by the PrevBlock field of the block headers.  dcrros refers to a *)
(* block by its hash; hashes identify blocks, so a block is an element of  *)
(* Blocks and stands for both.  dcrd answers getblock for side-chain       *)
(* blocks too, so every block of the tree can be fetched at any time.      *)
(***************************************************************************)
EXTENDS Integers

CONSTANTS
    Blocks,     \* every block of every branch, genesis included
    Genesis,    \* chainParams.GenesisHash
    NoBlock,    \* a nil *wire.MsgBlock
    Parent,     \* Header.PrevBlock
    Height,     \* Header.Height
    Approves    \* Header.VoteBits approves the parent's regular tree

\* A block's height is one more than its parent's; only genesis has height 0.
\* Consensus makes votes start long after block 1, so block 1 (the one block
\* dcrros processes without a stored parent) approves its parent.
ASSUME BlockTreeAssumption ==
    /\ Genesis \in Blocks
    /\ NoBlock \notin Blocks
    /\ Parent \in [Blocks \ {Genesis} -> Blocks]
    /\ Height \in [Blocks -> Nat]
    /\ Approves \in [Blocks -> BOOLEAN]
    /\ \A b \in Blocks : (Height[b] = 0) <=> (b = Genesis)
    /\ \A b \in Blocks \ {Genesis} : Height[b] = Height[Parent[b]] + 1
    /\ \A b \in Blocks \ {Genesis} : Parent[b] = Genesis => Approves[b]

\* The block and everything below it: the chain a block commits to.
Ancestors[b \in Blocks] ==
    {b} \cup (IF b = Genesis THEN {} ELSE Ancestors[Parent[b]])

\* The main-chain block at height h when dcrd's tip is t: what its
\* getblockhash answers ({} when h is past the tip, errRPCOutOfRange).
MainChainAt(t, h) == {b \in Ancestors[t] : Height[b] = h}

=============================================================================
