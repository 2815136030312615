--------------------------- MODULE MCBlockScanner ----------------------------
(***************************************************************************)
(* Block trees and fault budgets on which TLC checks BlockScanner.  A cfg  *)
(* picks one tree (Parent, and what follows from it), the blocks that are  *)
(* empty and one budget.                                                   *)
(***************************************************************************)
EXTENDS BlockScanner, TLC

------------------------------------------------------------------------------
(* Block trees: a function from each block to its parent. *)

\* One chain: the node never reorganises.
LineParent == "g" :> NoBlock @@ "a1" :> "g" @@ "a2" :> "a1" @@ "a3" :> "a2"
              @@ "a4" :> "a3"

\* Two branches that part after a1.
ForkParent == "g" :> NoBlock @@ "a1" :> "g" @@ "a2" :> "a1" @@ "a3" :> "a2"
              @@ "a4" :> "a3"
              @@ "b2" :> "a1" @@ "b3" :> "b2" @@ "b4" :> "b3"

\* The same, with one branch of a single block: it is overtaken once.
OvertakeParent == [b \in DOMAIN ForkParent \ {"a3", "a4"} |-> ForkParent[b]]

\* Two branches that part after the genesis block.
ForkAtOneParent == "g" :> NoBlock @@ "a1" :> "g" @@ "a2" :> "a1"
                   @@ "b1" :> "g" @@ "b2" :> "b1" @@ "b3" :> "b2"

\* The height of every block of a tree.
HeightIn(parent) ==
    LET height[b \in DOMAIN parent] ==
          IF parent[b] = NoBlock THEN 0 ELSE height[parent[b]] + 1
    IN  height

\* The ancestors of every block of a tree, by height.
AncestorsIn(parent) ==
    LET height == HeightIn(parent)
        ancestor[b \in DOMAIN parent] ==
          [h \in Height |->
             IF h > height[b] THEN NoBlock
             ELSE IF h = height[b] THEN b ELSE ancestor[parent[b]][h]]
    IN  ancestor

LineBlocks    == DOMAIN LineParent
LineHeights   == HeightIn(LineParent)
LineAncestors == AncestorsIn(LineParent)

ForkBlocks    == DOMAIN ForkParent
ForkHeights   == HeightIn(ForkParent)
ForkAncestors == AncestorsIn(ForkParent)

OvertakeBlocks    == DOMAIN OvertakeParent
OvertakeHeights   == HeightIn(OvertakeParent)
OvertakeAncestors == AncestorsIn(OvertakeParent)

ForkAtOneBlocks    == DOMAIN ForkAtOneParent
ForkAtOneHeights   == HeightIn(ForkAtOneParent)
ForkAtOneAncestors == AncestorsIn(ForkAtOneParent)

------------------------------------------------------------------------------
(* Budgets: how often each kind of fault may strike. *)

NoFaults == [f \in Fault |-> 0]

\* The node's answers get lost, the process crashes, clients call ScanBlock
\* and SetRescanBlockHeight.
UnreliableBudget ==
    "rpc" :> 2 @@ "crash" :> 1 @@ "scan" :> 1 @@ "reset" :> 1 @@ NoFaults

\* The chain reorganises twice, an answer of the node is lost and a client
\* pauses the scanner.
ReorgBudget == "reorg" :> 2 @@ "rpc" :> 1 @@ "pause" :> 1 @@ NoFaults

\* A crash, a reorganisation, a database that does not open, and a client that
\* calls SetRescanBlockHeight while the task runs.
LiveBudget ==
    "crash" :> 1 @@ "reorg" :> 1 @@ "db" :> 1 @@ "reset" :> 1 @@ NoFaults

\* An answer lost, two reorganisations, an observer that refuses once.
ConvergeBudget == "rpc" :> 1 @@ "reorg" :> 2 @@ "refuse" :> 1 @@ NoFaults

\* An observer refuses twice.
RefuseBudget == "refuse" :> 2 @@ NoFaults

\* The chain reorganises once, two answers of the node are lost.
LostAnswersBudget == "reorg" :> 1 @@ "rpc" :> 2 @@ NoFaults

\* The chain reorganises once.
OneReorgBudget == "reorg" :> 1 @@ NoFaults

\* A client calls SetRescanBlockHeight once.
OneResetBudget == "reset" :> 1 @@ NoFaults
==============================================================================
