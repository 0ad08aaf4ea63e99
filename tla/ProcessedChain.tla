---------------------------- MODULE ProcessedChain ---------------------------
(***************************************************************************)
(* What the rest of the server may rely on while Run moves the database:   *)
(* the processed blocks are a chain from genesis that grows by a child of  *)
(* its tip or loses blocks at its end, and never all of them.              *)
(***************************************************************************)
EXTENDS BlockTree, Sequences

VARIABLE chain  \* the processed blocks; index i is height i

ChainTip == IF chain = << >> THEN Genesis ELSE chain[Len(chain)]

\* preProcessAccountBlock.
Extend(b) ==
    /\ Parent[b] = ChainTip
    /\ chain' = Append(chain, b)

\* reorgToParentOf and handleBlockDisconnected.
Rewind(h) ==
    /\ h \in 1 .. Len(chain) - 1
    /\ chain' = SubSeq(chain, 1, h)

ChainInit == chain = << >>
ChainNext ==
    \/ \E b \in Blocks \ {Genesis} : Extend(b)
    \/ \E h \in 1 .. Len(chain) : Rewind(h)

ChainSpec == ChainInit /\ [][ChainNext]_chain
=============================================================================
