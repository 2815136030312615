-------------------------- MODULE BlockScannerProofs --------------------------
(***************************************************************************)
(* Theorems about BlockScanner, for every block tree, chain length and     *)
(* fault budget.                                                           *)
(***************************************************************************)
EXTENDS BlockScanner, TLAPS

\* The facts about the constants that most steps need, without the tree's.
LEMMA Constants ==
    /\ MaxHeight \in Nat
    /\ UintMod \in Nat
    /\ UintMod > MaxHeight + 2
    /\ UintMod > RescanLastBlockCount
    /\ RescanLastBlockCount \in Nat
    /\ NoBlock \notin Block
    /\ HeightOf \in [Block -> Height]
    /\ ResetHeights \subseteq Height
  BY TreeAssumption, ScannerAssumption

------------------------------------------------------------------------------
(* What the shared operations return. *)

\* The node's answer is a block or none.
LEMMA NodeBlockType ==
    ASSUME tip \in Block, NEW h
    PROVE  NodeBlock(h) \in Block \cup {NoBlock}
  BY TreeAssumption DEF NodeBlock, Height

LEMMA FetchedType ==
    ASSUME tip \in Block, NEW h, NEW F
    PROVE  Fetched(h, F) \in Block \cup {NoBlock}
  BY NodeBlockType DEF Fetched

\* A row of the Block table is a block or none.
LEMMA LocalBlockType ==
    ASSUME dbBlock \in [Height -> Block \cup {NoBlock}], NEW h, NEW F
    PROVE  LocalBlock(h, F) \in Block \cup {NoBlock}
  BY DEF LocalBlock

\* Unsigned subtraction stays unsigned.
LEMMA MinusType ==
    ASSUME NEW a \in Uint, NEW b \in Nat, b < UintMod
    PROVE  Minus(a, b) \in Uint
  BY Constants DEF Minus, Uint

\* Faults are counted.
LEMMA SufferType ==
    ASSUME spent \in [Fault -> Nat], NEW F, Suffer(F)
    PROVE  spent' \in [Fault -> Nat]
  BY DEF Suffer

\* The types of the task's locals.
TaskTypeOK ==
    /\ pc \in PC
    /\ curHeight \in Uint
    /\ curHash \in Block \cup {NoBlock}
    /\ forkBlock \in Block \cup {NoBlock}
    /\ isFork \in BOOLEAN
    /\ todo \subseteq Uint
    /\ visiting \in Uint

\* The two ways out of the loop leave them well typed.
LEMMA ExitType ==
    ASSUME TypeOK, Return \/ LeaveLoop
    PROVE  TaskTypeOK' /\ pc' \in {"idle", "rescan"}
<1>1. /\ 0 \in Uint
      /\ RescanWindow(curHeight) \subseteq Uint
      /\ "idle" \in PC
      /\ "rescan" \in PC
  BY Constants DEF Uint, PC, RescanWindow
<1>2. CASE Return
  BY <1>1, <1>2, Zenon DEF Return, TaskTypeOK
<1>3. CASE LeaveLoop
  BY <1>1, <1>3, Zenon DEF LeaveLoop, TaskTypeOK, TypeOK
<1> QED BY <1>2, <1>3

\* Writing the unscan table, extracting a block, announcing one.
LEMMA UnscanType ==
    ASSUME unscan \subseteq Uint \ {0}, NEW h \in Uint, NEW holder, NEW F,
           SaveUnscan(h, holder, F) \/ DeleteUnscan(h, holder, F)
    PROVE  unscan' \subseteq Uint \ {0}
  BY DEF SaveUnscan, DeleteUnscan

LEMMA ExtractType ==
    ASSUME unscan \subseteq Uint \ {0}, extracted \subseteq Block,
           NEW b \in Block, NEW h \in Uint, NEW holder, NEW F,
           Extract(b, h, holder, F)
    PROVE  unscan' \subseteq Uint \ {0} /\ extracted' \subseteq Block
  BY UnscanType DEF Extract

LEMMA ScanOneType ==
    ASSUME TypeOK, NEW h \in Uint, NEW holder, NEW F, ScanOne(h, holder, F)
    PROVE  unscan' \subseteq Uint \ {0} /\ extracted' \subseteq Block
<1>1. Fetched(h, F) \in Block \cup {NoBlock}
  BY FetchedType DEF TypeOK
<1> QED BY <1>1, UnscanType, ExtractType DEF ScanOne, TypeOK

LEMMA NotifyType ==
    ASSUME TypeOK, NEW b \in Block, NEW fork \in BOOLEAN, Notify(b, fork)
    PROVE  notices' \in Seq(Notice) /\ live' \subseteq Block
  BY DEF Notify, Notice, TypeOK

------------------------------------------------------------------------------
(* Type correctness. *)

\* Inductive: what is about to be saved and announced is a block.
TypeInv ==
    /\ TypeOK
    /\ pc \in {"saveHeight", "saveHash", "saveBlock"} => curHash \in Block

LEMMA InitType == Init => TypeInv
<1> SUFFICES ASSUME Init PROVE TypeInv
  OBVIOUS
<1>1. tip \in Block /\ notices \in Seq(Notice) /\ spent \in [Fault -> Nat]
  BY DEF Init
<1>2. dbHeight \in Uint /\ curHeight \in Uint /\ visiting \in Uint /\ from \in Nat
  BY Constants DEF Init, Uint
<1>3. pc \in PC /\ isFork \in BOOLEAN /\ scanning \in BOOLEAN
  BY DEF Init, PC
<1>4. dbBlock \in [Height -> Block \cup {NoBlock}]
  BY DEF Init
<1> QED BY <1>1, <1>2, <1>3, <1>4 DEF Init, TypeOK, TypeInv

LEMMA NextType == TypeInv /\ [Next]_vars => TypeInv'
<1> SUFFICES ASSUME TypeInv, [Next]_vars PROVE TypeInv'
  OBVIOUS
<1> USE DEF TypeInv, TypeOK, dbVars, clientVars, obsVars
<1>a. tip \in Block /\ NodeHeight \in Uint
  BY Constants DEF NodeHeight, Uint, Height
<1>1. ASSUME NEW F, BeginTask(F) PROVE TypeInv'
  BY <1>1, SufferType DEF BeginTask, PC
<1>2. ASSUME NEW F, FreshHeight(F) PROVE TypeInv'
  <2>1. Minus(NodeHeight, 1) \in Uint
    BY <1>a, MinusType, Constants
  <2> QED BY <1>2, <2>1, ExitType, SufferType DEF FreshHeight, TaskTypeOK, PC
<1>3. ASSUME NEW F, FreshBlock(F) PROVE TypeInv'
  BY <1>3, FetchedType, ExitType, SufferType DEF FreshBlock, TaskTypeOK, PC
<1>4. ASSUME NEW F, LoopTop(F) PROVE TypeInv'
  <2>1. CASE Return \/ LeaveLoop
    BY <2>1, <1>4, ExitType, SufferType DEF LoopTop, TaskTypeOK
  <2>2. CASE ~(Return \/ LeaveLoop)
    <3>1. ~(curHeight >= NodeHeight)
      BY <2>2, <1>4, Zenon DEF LoopTop, AtChainEnd
    <3>2. curHeight + 1 \in Uint
      BY ONLY <3>1, <1>a, curHeight \in Uint, Constants DEF Uint
    <3> QED BY <3>2, <2>2, <1>4, SufferType DEF LoopTop, PC
  <2> QED BY <2>1, <2>2
<1>5. ASSUME NEW F, FetchFails(F) PROVE TypeInv'
  BY <1>5, UnscanType, SufferType DEF FetchFails, PC
<1>6. ASSUME NEW F, ScanNext(F) PROVE TypeInv'
  <2>1. Fetched(curHeight, F) \in Block
    BY <1>6, FetchedType DEF ScanNext
  <2>2. unscan' \subseteq Uint \ {0} /\ extracted' \subseteq Block
    BY <1>6, <2>1, ExtractType DEF ScanNext
  <2> QED BY <1>6, <2>1, <2>2, SufferType DEF ScanNext, PC
<1>7. ASSUME NEW F, ForkFound(F) PROVE TypeInv'
  BY <1>7, LocalBlockType, SufferType DEF ForkFound, PC
<1>8. ASSUME NEW F, DropRecord(F) PROVE TypeInv'
  <2>1. Rewound(curHeight) \in Uint
    BY Constants DEF Rewound, Minus, Uint
  <2> QED BY <1>8, <2>1, SufferType DEF DropRecord, DeleteUnscan, PC
<1>9. ASSUME NEW F, Rewind(F) PROVE TypeInv'
  <2>1. RewindBase(F) \in Block \cup {NoBlock}
    BY FetchedType, LocalBlockType DEF RewindBase
  <2> QED BY <1>9, <2>1, ExitType, SufferType DEF Rewind, TaskTypeOK, PC
<1>10. ASSUME AfterSave
       PROVE  /\ pc' \in PC
              /\ forkBlock' \in Block \cup {NoBlock}
              /\ isFork' \in BOOLEAN
              /\ notices' \in Seq(Notice)
              /\ live' \subseteq Block
  <2>1. CASE isFork
    BY <2>1, <1>10, NotifyType DEF AfterSave, PC
  <2>2. CASE ~isFork
    BY <2>2, <1>10 DEF AfterSave, PC
  <2> QED BY <2>1, <2>2
<1>11. ASSUME NEW F, SaveHeight(F) PROVE TypeInv'
  <2>1. CASE "db" \in F
    BY <2>1, <1>10, <1>11, SufferType DEF SaveHeight
  <2>2. CASE "db" \notin F
    <3>1. from' \in Nat
      BY <2>2, <1>11, Constants DEF SaveHeight, Uint
    <3> QED BY <2>2, <3>1, <1>11, SufferType DEF SaveHeight, PC
  <2> QED BY <2>1, <2>2
<1>12. ASSUME SaveHash({}) PROVE TypeInv'
  BY <1>10, <1>12, SufferType DEF SaveHash
<1>13. ASSUME NEW F, SaveBlock(F) PROVE TypeInv'
  <2>1. notices' \in Seq(Notice) /\ live' \subseteq Block
    BY <1>13, NotifyType DEF SaveBlock
  <2> QED BY <1>13, <2>1, SufferType DEF SaveBlock, Rows, PC
<1>14. ASSUME NEW F, RescanLast(F) PROVE TypeInv'
  <2>1. PICK h \in todo : ScanOne(h, ClientHolds, F) /\ todo' = todo \ {h}
    BY <1>14 DEF RescanLast
  <2>2. unscan' \subseteq Uint \ {0} /\ extracted' \subseteq Block
    BY <2>1, ScanOneType
  <2> QED BY <1>14, <2>1, <2>2, SufferType DEF RescanLast
<1>15. ASSUME NEW F, ListUnscan(F) PROVE TypeInv'
  BY <1>15, SufferType DEF ListUnscan, PC
<1>16. ASSUME NEW F, RescanFailed(F) PROVE TypeInv'
  BY <1>16, FetchedType, ExtractType, SufferType DEF RescanFailed, PC
<1>17. ASSUME NEW F, Forget(F) PROVE TypeInv'
  BY <1>17, UnscanType, SufferType, Constants DEF Forget, PC, Uint
<1>18. ASSUME EndTask PROVE TypeInv'
  BY <1>18, ExitType DEF EndTask, TaskTypeOK
<1>19. ASSUME NEW F, ResetHeight(F) PROVE TypeInv'
  <2>1. CASE "db" \in F
    BY <1>19, <2>1, SufferType DEF ResetHeight, taskVars
  <2>2. CASE "db" \notin F
    <3>1. asked \in Block /\ HeightOf[asked] \in Nat /\ HeightOf[asked] \in Uint
      BY <1>19, Constants DEF ResetHeight, Height, Uint
    <3> QED BY <1>19, <2>2, <3>1, SufferType DEF ResetHeight, taskVars
  <2> QED BY <2>1, <2>2
<1>20. ASSUME ResetHash PROVE TypeInv'
  BY <1>20 DEF ResetHash, taskVars
<1>21. ASSUME NEW F, ScanBlock(F) PROVE TypeInv'
  <2>1. PICK h \in Height :
           /\ fetched' = Fetched(h, F)
           /\ SaveUnscan(h, TaskHolds \/ ClientHolds, F) \/ UNCHANGED unscan
    BY <1>21 DEF ScanBlock
  <2>2. h \in Uint
    BY Constants DEF Height, Uint
  <2>3. unscan' \subseteq Uint \ {0} /\ fetched' \in Block \cup {NoBlock}
    BY <2>1, <2>2, UnscanType, FetchedType
  <2> QED BY <1>21, <2>3, SufferType DEF ScanBlock, taskVars
<1>27. ASSUME NEW F, ScanBlockExtract(F) PROVE TypeInv'
  <2>1. fetched \in Block /\ HeightOf[fetched] \in Uint
    BY <1>27, Constants DEF ScanBlockExtract, Height, Uint
  <2>2. unscan' \subseteq Uint \ {0} /\ extracted' \subseteq Block
    BY <1>27, <2>1, ExtractType DEF ScanBlockExtract
  <2> QED BY <1>27, <2>1, <2>2, SufferType DEF ScanBlockExtract, taskVars
<1>28. ASSUME ScanBlockNotify PROVE TypeInv'
  <2>1. toAnnounce \in Block
    BY <1>28 DEF ScanBlockNotify
  <2>2. notices' \in Seq(Notice) /\ live' \subseteq Block
    BY <1>28, <2>1, NotifyType DEF ScanBlockNotify
  <2> QED BY <1>28, <2>2 DEF ScanBlockNotify, taskVars
<1>29. ASSUME ResetAsks PROVE TypeInv'
  <2>1. asked' \in Block
    BY <1>29, NodeBlockType DEF ResetAsks
  <2> QED BY <1>29, <2>1, SufferType DEF ResetAsks, taskVars
<1>22. ASSUME DeliverNotice PROVE TypeInv'
  <2>1. Head(notices) \in Notice /\ notices' \in Seq(Notice)
    BY <1>22 DEF DeliverNotice
  <2>2. live' \subseteq Block
    BY <1>22, <2>1 DEF DeliverNotice, Notice
  <2> QED BY <1>22, <2>1, <2>2 DEF DeliverNotice, taskVars
<1>23. ASSUME Pause \/ Run PROVE TypeInv'
  BY <1>23, SufferType DEF Pause, Run, taskVars
<1>24. ASSUME Crash PROVE TypeInv'
  BY <1>24, ExitType, SufferType DEF Crash, TaskTypeOK
<1>25. ASSUME Grow \/ Reorg PROVE TypeInv'
  BY <1>25, SufferType DEF Grow, Reorg, NodeGrows, NodeReorgs, taskVars
<1>26. ASSUME UNCHANGED vars PROVE TypeInv'
  BY <1>26 DEF vars, taskVars
<1> QED
  BY <1>1, <1>2, <1>3, <1>4, <1>5, <1>6, <1>7, <1>8, <1>9, <1>11, <1>12, <1>13,
     <1>14, <1>15, <1>16, <1>17, <1>18, <1>19, <1>20, <1>21, <1>22, <1>23,
     <1>24, <1>25, <1>26, <1>27, <1>28, <1>29 DEF Next, TaskStep, ClientStep

\* Every variable keeps its type, under any number of faults of every kind.
THEOREM TypeCorrect == Spec => []TypeOK
<1>1. TypeInv => TypeOK
  BY DEF TypeInv
<1> QED BY <1>1, InitType, NextType, PTL DEF Spec

------------------------------------------------------------------------------
(* The chain of the node. *)

\* The block served for a height has that height.
LEMMA NodeBlockHeight ==
    ASSUME tip \in Block, NEW h, NodeBlock(h) # NoBlock
    PROVE  /\ h \in Height
           /\ h <= NodeHeight
           /\ NodeBlock(h) \in Block
           /\ HeightOf[NodeBlock(h)] = h
  BY TreeAssumption, PathAssumption DEF NodeBlock, NodeHeight, Height

\* ... and continues the block served for the height below.
LEMMA NodeLink ==
    ASSUME tip \in Block, NEW h, NodeBlock(h) # NoBlock, h # 0
    PROVE  Parent[NodeBlock(h)] = NodeBlock(h - 1)
<1>1. h \in Height /\ h - 1 \in Height /\ h <= HeightOf[tip] /\ 0 < h
  BY NodeBlockHeight, Constants DEF Height, NodeHeight
<1> QED BY <1>1, PathAssumption DEF NodeBlock

LEMMA NodeGenesis ==
    ASSUME tip \in Block
    PROVE  NodeBlock(0) = Genesis
<1>1. 0 \in Height /\ 0 <= HeightOf[tip]
  BY Constants DEF Height
<1>2. AncestorAt[tip][0] \in Block /\ HeightOf[AncestorAt[tip][0]] = 0
  BY <1>1, PathAssumption
<1> QED BY <1>1, <1>2, TreeAssumption DEF NodeBlock

------------------------------------------------------------------------------
(* No height that wrapped around is used. *)

\* Heights stay within the chain, but for the one of a fresh start whose block
\* is yet to be looked up; a height of 0 or 1 about to be compared comes with
\* the genesis block's hash, so the rewind starts at 2 or above.
WrapInv ==
    /\ dbHeight \in Height
    /\ pc # "freshBlock" => curHeight \in Height
    /\ asked # NoBlock => HeightOf[asked] + 1 \in ResetHeights
    /\ todo \subseteq Height
    /\ unscan \subseteq Height
    /\ pc = "loop" /\ curHeight = 0 => curHash = Genesis
    /\ pc = "fetch" => curHeight >= 1
    /\ pc = "fetch" /\ curHeight = 1 => curHash = Genesis
    /\ pc = "drop" => curHeight >= 2
    /\ pc \in {"rewind", "saveHeight", "saveHash", "saveBlock"} => curHeight >= 1

LEMMA InitWrap == Init => WrapInv
  BY Constants DEF Init, WrapInv, NodeHeight, Height

LEMMA NextWrap == TypeInv /\ WrapInv /\ [Next]_vars => WrapInv'
<1> SUFFICES ASSUME TypeInv, WrapInv, [Next]_vars PROVE WrapInv'
  OBVIOUS
<1> USE DEF WrapInv, dbVars, clientVars, obsVars
<1>a. /\ tip \in Block
      /\ NodeHeight \in Height
      /\ MaxHeight \in Nat
      /\ curHeight \in Nat
  BY Constants DEF NodeHeight, TypeInv, TypeOK, Uint
<1>b. tip' = tip => NodeHeight' = NodeHeight
  BY DEF NodeHeight
<1>c. ASSUME NEW h \in Height, NEW holder, NEW F,
             SaveUnscan(h, holder, F) \/ DeleteUnscan(h, holder, F)
      PROVE  unscan' \subseteq Height
  BY <1>c DEF SaveUnscan, DeleteUnscan
<1>d. ASSUME NEW b, NEW h \in Height, NEW holder, NEW F, Extract(b, h, holder, F)
      PROVE  unscan' \subseteq Height
  BY <1>c, <1>d DEF Extract
<1>e. ASSUME NEW h \in Height, NEW holder, NEW F, ScanOne(h, holder, F)
      PROVE  unscan' \subseteq Height
  BY <1>c, <1>d, <1>e DEF ScanOne
<1>f. ASSUME Return \/ (LeaveLoop /\ pc # "freshBlock")
      PROVE  /\ curHeight' = 0
             /\ todo' \subseteq Height
             /\ pc' \in {"idle", "rescan"}
  <2>1. curHeight \in Height => RescanWindow(curHeight) \subseteq Height
    BY <1>a DEF RescanWindow, Height, Uint
  <2> QED BY <1>f, <2>1 DEF Return, LeaveLoop
<1>g. 0 \in Height
  BY <1>a DEF Height
<1>1. ASSUME NEW F, BeginTask(F) PROVE WrapInv'
  BY <1>1, <1>b DEF BeginTask
<1>2. ASSUME NEW F, FreshHeight(F) PROVE WrapInv'
  BY <1>2, <1>b, <1>f, <1>g DEF FreshHeight
<1>3. ASSUME NEW F, FreshBlock(F) PROVE WrapInv'
  <2>1. Fetched(curHeight, F) # NoBlock =>
          Fetched(curHeight, F) = NodeBlock(curHeight) /\ curHeight \in Height
    BY <1>a, NodeBlockHeight DEF Fetched
  <2> QED BY <1>3, <2>1, <1>a, <1>b, <1>f, <1>g, NodeGenesis DEF FreshBlock
<1>4. ASSUME NEW F, LoopTop(F) PROVE WrapInv'
  <2>1. CASE Return \/ LeaveLoop
    BY <2>1, <1>4, <1>b, <1>f, <1>g DEF LoopTop
  <2>2. CASE ~(Return \/ LeaveLoop)
    <3>1. /\ curHeight + 1 \in Height
          /\ curHeight' = curHeight + 1
          /\ pc = "loop" /\ pc' = "fetch"
      BY <2>2, <1>4, <1>a DEF LoopTop, AtChainEnd, Height
    <3>2. curHeight \in Nat
      BY <1>a DEF Height
    <3> QED BY <3>1, <3>2, <2>2, <1>4, <1>b DEF LoopTop
  <2> QED BY <2>1, <2>2
<1>5. ASSUME NEW F, FetchFails(F) PROVE WrapInv'
  BY <1>5, <1>b, <1>c DEF FetchFails, Height
<1>6. ASSUME NEW F, ScanNext(F) PROVE WrapInv'
  BY <1>6, <1>b, <1>d DEF ScanNext
<1>7. ASSUME NEW F, ForkFound(F) PROVE WrapInv'
  <2>1. Fetched(curHeight, F) = NodeBlock(curHeight) /\ NodeBlock(curHeight) # NoBlock
    BY <1>7 DEF ForkFound, Fetched
  <2>2. curHeight \in Nat
    BY <1>a DEF Height
  <2>3. CASE curHeight = 1
    BY <1>7, <2>1, <2>3, <1>a, NodeLink, NodeGenesis DEF ForkFound
  <2>4. CASE curHeight # 1
    BY <1>7, <2>2, <2>4, <1>b DEF ForkFound
  <2> QED BY <2>3, <2>4
<1>8. ASSUME NEW F, DropRecord(F) PROVE WrapInv'
  <2>1. OrphanHeight \in Height /\ Rewound(curHeight) \in Height /\ Rewound(curHeight) >= 1
    BY <1>8, <1>a DEF DropRecord, OrphanHeight, Rewound, Minus, Height
  <2> QED BY <1>8, <2>1, <1>b, <1>c DEF DropRecord
<1>9. ASSUME NEW F, Rewind(F) PROVE WrapInv'
  BY <1>9, <1>b, <1>f, <1>g DEF Rewind
<1>10. ASSUME NEW F, SaveHeight(F) PROVE WrapInv'
  <2>1. curHeight \in Nat /\ curHeight >= 1
    BY <1>10, <1>a DEF SaveHeight, Height
  <2>2. pc' \in {"loop", "saveHash", "saveBlock"}
    BY <1>10 DEF SaveHeight, AfterSave
  <2> QED BY <1>10, <2>1, <2>2, <1>b DEF SaveHeight
<1>11. ASSUME SaveHash({}) PROVE WrapInv'
  <2>1. curHeight \in Nat /\ curHeight >= 1
    BY <1>11, <1>a DEF SaveHash, Height
  <2>2. pc' \in {"loop", "saveBlock"}
    BY <1>11 DEF SaveHash, AfterSave
  <2> QED BY <1>11, <2>1, <2>2, <1>b DEF SaveHash
<1>12. ASSUME NEW F, SaveBlock(F) PROVE WrapInv'
  <2>1. curHeight \in Nat /\ curHeight >= 1
    BY <1>12, <1>a DEF SaveBlock, Height
  <2> QED BY <1>12, <2>1, <1>b DEF SaveBlock
<1>13. ASSUME NEW F, RescanLast(F) PROVE WrapInv'
  BY <1>13, <1>b, <1>e DEF RescanLast
<1>14. ASSUME NEW F, ListUnscan(F) PROVE WrapInv'
  BY <1>14, <1>b DEF ListUnscan
<1>15. ASSUME NEW F, RescanFailed(F) PROVE WrapInv'
  BY <1>15, <1>b, <1>d DEF RescanFailed
<1>16. ASSUME NEW F, Forget(F) PROVE WrapInv'
  BY <1>16, <1>b DEF Forget, DeleteUnscan
<1>17. ASSUME EndTask PROVE WrapInv'
  BY <1>17, <1>b, <1>f, <1>g DEF EndTask
<1>18. ASSUME NEW F, ResetHeight(F) PROVE WrapInv'
  <2>1. dbHeight' \in Height
    BY <1>18, Constants DEF ResetHeight, TypeInv, TypeOK
  <2> QED BY <1>18, <2>1, <1>b DEF ResetHeight, taskVars
<1>19. ASSUME ResetHash PROVE WrapInv'
  BY <1>19, <1>b DEF ResetHash, taskVars
<1>20. ASSUME NEW F, ScanBlock(F) PROVE WrapInv'
  BY <1>20, <1>b, <1>c DEF ScanBlock, taskVars
<1>25. ASSUME NEW F, ScanBlockExtract(F) PROVE WrapInv'
  <2>1. HeightOf[fetched] \in Height
    BY <1>25, Constants DEF ScanBlockExtract, TypeInv, TypeOK
  <2> QED BY <1>25, <2>1, <1>b, <1>d DEF ScanBlockExtract, taskVars
<1>26. ASSUME ScanBlockNotify PROVE WrapInv'
  BY <1>26, <1>b DEF ScanBlockNotify, taskVars
<1>27. ASSUME ResetAsks PROVE WrapInv'
  <2>1. asked' # NoBlock => HeightOf[asked'] + 1 \in ResetHeights
    <3>1. PICK height \in ResetHeights :
             /\ NodeBlock(Minus(height, 1)) # NoBlock
             /\ asked' = NodeBlock(Minus(height, 1))
      BY <1>27 DEF ResetAsks
    <3>2. HeightOf[asked'] = Minus(height, 1) /\ Minus(height, 1) \in Height
      BY <3>1, <1>a, NodeBlockHeight
    <3>3. height \in Nat /\ height # 0
      BY <3>2, Constants DEF Minus, Height
    <3>4. Minus(height, 1) + 1 = height
      BY <3>3 DEF Minus
    <3> QED BY <3>1, <3>2, <3>4
  <2> QED BY <1>27, <2>1, <1>b DEF ResetAsks, taskVars
<1>21. ASSUME DeliverNotice \/ Pause \/ Run PROVE WrapInv'
  BY <1>21, <1>b DEF DeliverNotice, Pause, Run, taskVars
<1>22. ASSUME Crash PROVE WrapInv'
  BY <1>22, <1>b, <1>f, <1>g DEF Crash
<1>23. ASSUME Grow \/ Reorg PROVE WrapInv'
  BY <1>23 DEF Grow, Reorg, taskVars
<1>24. ASSUME UNCHANGED vars PROVE WrapInv'
  BY <1>24, <1>b DEF vars, taskVars
<1> QED
  BY <1>1, <1>2, <1>3, <1>4, <1>5, <1>6, <1>7, <1>8, <1>9, <1>10, <1>11, <1>12,
     <1>13, <1>14, <1>15, <1>16, <1>17, <1>18, <1>19, <1>20, <1>21, <1>22,
     <1>23, <1>24, <1>25, <1>26, <1>27 DEF Next, TaskStep, ClientStep

\* Whatever RescanLastBlockCount is, at whatever height the node starts, and in
\* whatever order forks, lost answers, crashes and resets come: no height that
\* wrapped around is scanned, stored or recorded, and in particular the rewind
\* never subtracts below 0.
THEOREM NeverWraps == Spec => []NoWrap
<1>1. TypeInv /\ WrapInv => NoWrap
  BY DEF WrapInv, NoWrap
<1> QED BY <1>1, InitType, NextType, InitWrap, NextWrap, PTL DEF Spec
==============================================================================
