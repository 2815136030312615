------------------------------ MODULE NodeChain ------------------------------
(***************************************************************************)
(* The Velas node, as the adapter sees it through rpc.Client.  The node is *)
(* external to the repository: it is modelled from the three answers the   *)
(* scanner asks of it,                                                     *)
(*   - NodeInfo().Blockchain.Height   (WalletManager.GetBlockHeight),      *)
(*   - GetByHeight(h)                 (WalletManager.GetBlock),            *)
(*   - the prev_block field of a block header.                             *)
(* A block hash identifies a block and, through prev_block, all of its     *)
(* ancestors, so the blocks that can ever exist form a tree given by       *)
(* constants and the node's state is one block of it: the tip it serves.   *)
(***************************************************************************)
EXTENDS Integers

CONSTANTS
    Block,       \* the blocks that may be mined, named by their hash
    NoBlock,     \* "no such block": an RPC error or an absent database row
    Genesis,     \* the block of height 0
    Parent,      \* Parent[b]: header field prev_block
    HeightOf,    \* HeightOf[b]: header field height
    AncestorAt,  \* AncestorAt[b][h]: the block of height h on the path to b
    TieBreaks,   \* may the node switch between branches of equal length?
    MaxHeight    \* bound: no block is higher

Height == 0..MaxHeight

\* The constants describe a tree of blocks rooted in Genesis, and AncestorAt
\* is the path from the root to each block.
ASSUME TreeAssumption ==
    /\ NoBlock \notin Block
    /\ Genesis \in Block
    /\ MaxHeight \in Nat
    /\ TieBreaks \in BOOLEAN
    /\ HeightOf \in [Block -> Height]
    /\ Parent \in [Block -> Block \cup {NoBlock}]
    /\ AncestorAt \in [Block -> [Height -> Block \cup {NoBlock}]]
    /\ Parent[Genesis] = NoBlock
    /\ \A b \in Block : HeightOf[b] = 0 <=> b = Genesis
    /\ \A b \in Block \ {Genesis} :
          /\ Parent[b] \in Block
          /\ HeightOf[Parent[b]] = HeightOf[b] - 1

ASSUME PathAssumption ==
    \A b \in Block, h \in Height :
       /\ h > HeightOf[b] => AncestorAt[b][h] = NoBlock
       /\ h = HeightOf[b] => AncestorAt[b][h] = b
       /\ h <= HeightOf[b] => /\ AncestorAt[b][h] \in Block
                              /\ HeightOf[AncestorAt[b][h]] = h
       /\ h < HeightOf[b] => AncestorAt[b][h] = AncestorAt[Parent[b]][h]
       /\ (0 < h /\ h <= HeightOf[b]) =>
             Parent[AncestorAt[b][h]] = AncestorAt[b][h - 1]

VARIABLE tip     \* the last block of the chain the node serves

\* WalletManager.GetBlockHeight: the height the node reports.
NodeHeight == HeightOf[tip]

\* WalletManager.GetBlock: the block the node serves for a height.  A height
\* above the chain, or one that wrapped around as an unsigned integer, is an
\* error of the node.  The client asks for the header of that height and then
\* for the block of its hash: the first answer decides which block it is, and
\* when the second fails the whole lookup does.
NodeBlock(h) == IF h \in Height THEN AncestorAt[tip][h] ELSE NoBlock

\* b and its ancestors.
PathTo(b) == {AncestorAt[b][h] : h \in 0..HeightOf[b]}

\* A block is mined on top of the chain.
NodeGrows ==
    \E b \in Block :
       /\ Parent[b] = tip
       /\ tip' = b

\* The node switches to another branch, which is longer, or as long.
NodeReorgs ==
    \E b \in Block :
       /\ \/ HeightOf[b] > HeightOf[tip]
          \/ TieBreaks /\ HeightOf[b] = HeightOf[tip]
       /\ AncestorAt[b][HeightOf[tip]] # tip
       /\ tip' = b
==============================================================================
