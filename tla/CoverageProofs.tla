---------------------------- MODULE CoverageProofs ----------------------------
(***************************************************************************)
(* No height is lost: the theorem about NoHeightLost, for every chain and  *)
(* any number of lost answers of the node, pauses, calls of ScanBlock and  *)
(* resets of an idle scanner.                                              *)
(***************************************************************************)
EXTENDS BlockScannerProofs

\* What the theorem leaves out.  Each of these does lose a height; TLC shows
\* how (see the README), but for the reorganisation, about which NoHeightLost
\* says too little: that is the matter of ChainCovered.
Quiet ==
    /\ Budget["refuse"] = 0
    /\ Budget["db"] = 0
    /\ Budget["crash"] = 0
    /\ Budget["reorg"] = 0
    /\ ~ResetWhileScanning
    /\ 1 \notin ResetHeights

\* The position, recorded or in the task's locals, names blocks of the node's
\* chain, and the task is never below the recorded one.  In particular a fork
\* found just above the recorded block is impossible, so a rewind ends at or
\* above it.
PositionInv ==
    /\ \A h \in Height : dbBlock[h] # NoBlock => dbBlock[h] = NodeBlock(h)
    /\ asked # NoBlock => pc = "idle" /\ asked = NodeBlock(HeightOf[asked])
    /\ reset # NoBlock => pc = "idle" /\ reset = NodeBlock(dbHeight)
    /\ dbHeight # 0 => NodeBlock(dbHeight) # NoBlock
    /\ dbHeight # 0 /\ reset = NoBlock /\ pc # "saveHash" => dbHash = NodeBlock(dbHeight)
    /\ pc \in {"fresh", "freshBlock"} => dbHeight = 0
    /\ pc \in {"loop", "rewind", "saveHeight"} => curHeight >= dbHeight
    /\ pc \in {"saveHash", "saveBlock"} => curHeight = dbHeight
    /\ pc = "fetch" => curHeight >= dbHeight + 1
    /\ pc = "drop" => curHeight >= dbHeight + 2
    /\ pc = "loop" /\ curHeight = dbHeight /\ dbHeight # 0 => curHash = NodeBlock(dbHeight)
    /\ pc = "fetch" /\ curHeight = dbHeight + 1 /\ dbHeight # 0 => curHash = NodeBlock(dbHeight)
    /\ pc \in {"saveHeight", "saveHash", "saveBlock"} => curHash = NodeBlock(curHeight)

Covered(h) == h \in unscan \/ Got(h)

\* Every height up to the recorded position is covered, and so is every height
\* the task has passed: those will be below the next position it records.
CoverInv ==
    /\ from # 0 => dbHeight # 0
    /\ from # 0 => \A h \in from..dbHeight : Covered(h)
    /\ from # 0 /\ pc \in {"loop", "rewind", "saveHeight"} =>
         \A h \in from..curHeight : Covered(h)
    /\ from # 0 /\ pc \in {"fetch", "drop"} =>
         \A h \in from..(curHeight - 1) : Covered(h)
    /\ pc = "saveHeight" /\ ~isFork => Got(curHeight)
    /\ pc = "forget" => Got(visiting)

------------------------------------------------------------------------------
\* The faults left out strike no step.
LEMMA QuietFaults ==
    ASSUME Quiet, TypeOK, NEW F, Suffer(F)
    PROVE  "refuse" \notin F /\ "db" \notin F /\ "crash" \notin F /\ "reorg" \notin F
<1>1. ASSUME NEW f \in Fault, Budget[f] = 0 PROVE f \notin F
  <2>1. spent[f] \in Nat
    BY <1>1 DEF TypeOK
  <2> QED BY <1>1, <2>1 DEF Suffer
<1> QED BY <1>1 DEF Quiet, Fault

\* A longer chain serves the same block for a height it had.
LEMMA GrowKeeps ==
    ASSUME tip \in Block, NodeGrows, NEW h, NodeBlock(h) # NoBlock
    PROVE  NodeBlock(h)' = NodeBlock(h)
<1>1. PICK b \in Block : Parent[b] = tip /\ tip' = b
  BY DEF NodeGrows
<1>2. b # Genesis
  BY <1>1, TreeAssumption
<1>3. HeightOf[b] = HeightOf[tip] + 1 /\ HeightOf[b] \in Nat /\ HeightOf[tip] \in Nat
  BY <1>1, <1>2, TreeAssumption DEF Height
<1>4. h \in Height /\ h <= HeightOf[tip]
  BY NodeBlockHeight DEF NodeHeight
<1>5. h < HeightOf[b]
  BY <1>3, <1>4 DEF Height
<1>6. AncestorAt[b][h] = AncestorAt[Parent[b]][h]
  BY <1>1, <1>4, <1>5, PathAssumption
<1> QED BY <1>1, <1>4, <1>6 DEF NodeBlock

------------------------------------------------------------------------------
(* The position. *)

LEMMA InitPosition == Init => PositionInv
  BY DEF Init, PositionInv

LEMMA NextPosition ==
    Quiet /\ TypeInv /\ WrapInv /\ PositionInv /\ [Next]_vars => PositionInv'
<1> SUFFICES ASSUME Quiet, TypeInv, WrapInv, PositionInv, [Next]_vars
             PROVE  PositionInv'
  OBVIOUS
<1> USE DEF PositionInv, dbVars, clientVars, obsVars
<1>a. /\ TypeOK
      /\ tip \in Block
      /\ dbHeight \in Nat
      /\ curHeight \in Nat
      /\ pc # "freshBlock" => curHeight \in Height
      /\ dbHeight \in Height
  BY Constants DEF TypeInv, TypeOK, WrapInv, Height, Uint
<1>b. ASSUME Return \/ LeaveLoop PROVE pc' \in {"idle", "rescan"}
  BY <1>b DEF Return, LeaveLoop
<1>1. ASSUME NEW F, BeginTask(F) PROVE PositionInv'
  <2>1. "db" \notin F /\ reset = NoBlock /\ asked = NoBlock
    BY <1>1, <1>a, QuietFaults DEF BeginTask, Opened, ClientHolds, Quiet
  <2> QED BY <1>1, <2>1, <1>a DEF BeginTask, NodeBlock
<1>2. ASSUME NEW F, FreshHeight(F) PROVE PositionInv'
  BY <1>2, <1>b DEF FreshHeight, NodeBlock
<1>3. ASSUME NEW F, FreshBlock(F) PROVE PositionInv'
  BY <1>3, <1>a, <1>b DEF FreshBlock, NodeBlock
<1>4. ASSUME NEW F, LoopTop(F) PROVE PositionInv'
  <2>1. CASE Return \/ LeaveLoop
    BY <2>1, <1>4, <1>b DEF LoopTop, NodeBlock
  <2>2. CASE ~(Return \/ LeaveLoop)
    BY <2>2, <1>4, <1>a DEF LoopTop, NodeBlock
  <2> QED BY <2>1, <2>2
<1>5. ASSUME NEW F, FetchFails(F) PROVE PositionInv'
  <2>1. /\ UNCHANGED <<tip, dbHeight, dbHash, dbBlock, asked, reset, curHeight>>
        /\ pc = "fetch" /\ pc' = "loop"
    BY <1>5 DEF FetchFails
  <2>2. curHeight >= dbHeight + 1 /\ asked = NoBlock /\ reset = NoBlock
    BY <2>1
  <2>3. asked' = NoBlock /\ reset' = NoBlock /\ curHeight' # dbHeight'
    BY <2>1, <2>2, <1>a
  <2>4. curHeight' >= dbHeight'
    BY <2>1, <2>2, <1>a
  <2>5. dbHeight' # 0 => NodeBlock(dbHeight)' # NoBlock /\ dbHash' = NodeBlock(dbHeight)'
    BY <2>1, <2>2 DEF NodeBlock
  <2>6. \A h \in Height : dbBlock'[h] # NoBlock => dbBlock'[h] = NodeBlock(h)'
    BY <2>1 DEF NodeBlock
  <2> QED BY <2>1, <2>3, <2>4, <2>5, <2>6, Zenon
<1>6. ASSUME NEW F, ScanNext(F) PROVE PositionInv'
  <2>1. /\ UNCHANGED <<tip, dbHeight, dbHash, dbBlock, asked, reset, curHeight>>
        /\ pc = "fetch" /\ pc' = "saveHeight"
        /\ Fetched(curHeight, F) # NoBlock /\ curHash' = Fetched(curHeight, F)
    BY <1>6 DEF ScanNext
  <2>2. asked' = NoBlock /\ reset' = NoBlock /\ curHeight' >= dbHeight'
    BY <2>1, <1>a
  <2>3. curHash' = NodeBlock(curHeight)'
    BY <2>1 DEF NodeBlock, Fetched
  <2>4. dbHeight' # 0 => NodeBlock(dbHeight)' # NoBlock /\ dbHash' = NodeBlock(dbHeight)'
    BY <2>1, <2>2 DEF NodeBlock
  <2>5. \A h \in Height : dbBlock'[h] # NoBlock => dbBlock'[h] = NodeBlock(h)'
    BY <2>1 DEF NodeBlock
  <2> QED BY <2>1, <2>2, <2>3, <2>4, <2>5, Zenon
<1>7. ASSUME NEW F, ForkFound(F) PROVE PositionInv'
  <2>1. /\ Fetched(curHeight, F) = NodeBlock(curHeight)
        /\ NodeBlock(curHeight) # NoBlock
        /\ Parent[NodeBlock(curHeight)] # curHash
        /\ curHeight >= dbHeight + 1
        /\ curHeight >= 1
    BY <1>7 DEF ForkFound, Fetched, WrapInv
  <2>2. Parent[NodeBlock(curHeight)] = NodeBlock(curHeight - 1)
    BY <2>1, <1>a, NodeLink
  <2>3. curHeight # 1
    BY <1>7, <2>1, <2>2, <1>a, NodeGenesis DEF ForkFound, WrapInv
  <2>4. curHeight >= dbHeight + 2
    <3>1. CASE curHeight = dbHeight + 1
      <4>1. dbHeight # 0 /\ curHeight - 1 = dbHeight
        BY <3>1, <2>3, <1>a
      <4>2. curHash = NodeBlock(dbHeight)
        BY <1>7, <3>1, <4>1 DEF ForkFound
      <4> QED BY <4>1, <4>2, <2>1, <2>2
    <3>2. CASE curHeight # dbHeight + 1
      BY <3>2, <2>1, <1>a
    <3> QED BY <3>1, <3>2
  <2> QED BY <1>7, <2>4, <1>a DEF ForkFound, NodeBlock
<1>8. ASSUME NEW F, DropRecord(F) PROVE PositionInv'
  <2>1. Rewound(curHeight) >= dbHeight /\ Rewound(curHeight) \in Nat
    BY <1>8, <1>a DEF DropRecord, Rewound, Minus
  <2> QED BY <1>8, <2>1 DEF DropRecord, NodeBlock
<1>9. ASSUME NEW F, Rewind(F) PROVE PositionInv'
  <2>1. RewindBase(F) # NoBlock => RewindBase(F) = NodeBlock(curHeight)
    BY <1>a DEF RewindBase, LocalBlock, Fetched
  <2>2. CASE RewindBase(F) = NoBlock
    BY <1>9, <2>2, <1>b DEF Rewind, NodeBlock
  <2>3. CASE RewindBase(F) # NoBlock
    BY <1>9, <2>1, <2>3 DEF Rewind, NodeBlock
  <2> QED BY <2>2, <2>3
<1>10. ASSUME NEW F, SaveHeight(F) PROVE PositionInv'
  <2>1. "db" \notin F /\ reset = NoBlock /\ asked = NoBlock /\ curHash # NoBlock
    BY <1>10, <1>a, QuietFaults, Constants DEF SaveHeight, Opened, ClientHolds, TypeInv
  <2>2. /\ pc' = "saveHash" /\ dbHeight' = curHeight
        /\ UNCHANGED <<tip, dbHash, dbBlock, asked, reset, curHeight, curHash>>
    BY <1>10, <2>1 DEF SaveHeight
  <2>3. pc = "saveHeight" /\ curHash = NodeBlock(curHeight)
    BY <1>10 DEF SaveHeight
  <2> QED BY <2>1, <2>2, <2>3, <1>a DEF NodeBlock
<1>11. ASSUME SaveHash({}) PROVE PositionInv'
  <2>1. pc' \in {"loop", "saveBlock"}
    BY <1>11 DEF SaveHash, AfterSave
  <2>2. /\ pc = "saveHash" /\ dbHash' = curHash
        /\ UNCHANGED <<tip, dbHeight, dbBlock, curHeight, curHash, clientVars>>
    BY <1>11 DEF SaveHash
  <2> QED BY <2>1, <2>2, <1>a DEF NodeBlock
<1>12. ASSUME NEW F, SaveBlock(F) PROVE PositionInv'
  <2>1. curHash = NodeBlock(curHeight) /\ reset = NoBlock
    BY <1>12 DEF SaveBlock
  <2>2. \A h \in Height : dbBlock'[h] # NoBlock => dbBlock'[h] = NodeBlock(h)
    BY <1>12, <2>1, <1>a DEF SaveBlock, Rows, TypeOK
  <2> QED BY <1>12, <2>1, <2>2, <1>a DEF SaveBlock, NodeBlock
<1>13. ASSUME NEW F, RescanLast(F) \/ ListUnscan(F) \/ RescanFailed(F) \/ Forget(F)
       PROVE  PositionInv'
  <2>1. pc' \in {"rescan", "failed", "forget"} /\ pc \in {"rescan", "failed", "forget"}
    BY <1>13 DEF RescanLast, ListUnscan, RescanFailed, Forget
  <2>2. UNCHANGED <<tip, dbHeight, dbHash, dbBlock, asked, reset>>
    BY <1>13 DEF RescanLast, ListUnscan, RescanFailed, Forget
  <2> QED BY <2>1, <2>2 DEF NodeBlock
<1>14. ASSUME EndTask PROVE PositionInv'
  BY <1>14, <1>b DEF EndTask, NodeBlock
<1>15. ASSUME NEW F, ResetHeight(F) PROVE PositionInv'
  <2>1. /\ asked # NoBlock /\ asked' = NoBlock
        /\ pc = "idle" /\ pc' = "idle" /\ tip' = tip /\ dbBlock' = dbBlock
    BY <1>15 DEF ResetHeight, taskVars
  <2>2. "db" \notin F
    BY <1>15, <1>a, QuietFaults DEF ResetHeight
  <2>3. reset' = asked /\ dbHeight' = HeightOf[asked]
    BY <1>15, <2>2 DEF ResetHeight
  <2>4. reset' = NodeBlock(dbHeight')
    BY <2>1, <2>3
  <2> QED BY <2>1, <2>3, <2>4 DEF NodeBlock
<1>22. ASSUME ResetAsks PROVE PositionInv'
  <2>1. /\ pc = "idle" /\ pc' = "idle" /\ reset = NoBlock /\ reset' = NoBlock
        /\ UNCHANGED <<tip, dbHeight, dbHash, dbBlock>>
    BY <1>22 DEF ResetAsks, Quiet, taskVars
  <2>2. asked' = NodeBlock(HeightOf[asked'])
    BY <1>22, <1>a, NodeBlockHeight DEF ResetAsks
  <2> QED BY <2>1, <2>2 DEF NodeBlock
<1>16. ASSUME ResetHash PROVE PositionInv'
  BY <1>16 DEF ResetHash, NodeBlock, taskVars
<1>17. ASSUME NEW F, ScanBlock(F) \/ ScanBlockExtract(F) \/ ScanBlockNotify
       PROVE  PositionInv'
  <2>1. UNCHANGED <<tip, dbHeight, dbHash, dbBlock, taskVars, asked, reset>>
    BY <1>17 DEF ScanBlock, ScanBlockExtract, ScanBlockNotify
  <2> QED BY <2>1 DEF NodeBlock, taskVars
<1>18. ASSUME DeliverNotice \/ Pause \/ Run PROVE PositionInv'
  BY <1>18 DEF DeliverNotice, Pause, Run, NodeBlock, taskVars
<1>19. ASSUME Grow PROVE PositionInv'
  <2>1. UNCHANGED <<dbHeight, dbHash, dbBlock, asked, reset, pc, curHeight, curHash>>
    BY <1>19 DEF Grow, taskVars
  <2>2. \A h \in Height : dbBlock[h] # NoBlock => dbBlock[h] = NodeBlock(h)'
    BY <1>19, <1>a, GrowKeeps DEF Grow
  <2>3. dbHeight # 0 \/ reset # NoBlock => NodeBlock(dbHeight)' = NodeBlock(dbHeight)
    BY <1>19, <2>1, <1>a, GrowKeeps DEF Grow, NodeBlock
  <2>4. pc \in {"saveHeight", "saveHash", "saveBlock"} =>
          NodeBlock(curHeight)' = NodeBlock(curHeight)
    BY <1>19, <2>1, <1>a, GrowKeeps, Constants DEF Grow, NodeBlock, TypeInv
  <2>5. asked # NoBlock => NodeBlock(HeightOf[asked])' = NodeBlock(HeightOf[asked])
    BY <1>19, <2>1, <1>a, GrowKeeps DEF Grow, NodeBlock
  <2> QED BY <2>1, <2>2, <2>3, <2>4, <2>5 DEF NodeBlock
<1>20. ASSUME Crash \/ Reorg PROVE PositionInv'
  BY <1>20, <1>a, QuietFaults DEF Crash, Reorg
<1>21. ASSUME UNCHANGED vars PROVE PositionInv'
  BY <1>21 DEF vars, NodeBlock, taskVars
<1> QED
  BY <1>1, <1>2, <1>3, <1>4, <1>5, <1>6, <1>7, <1>8, <1>9, <1>10, <1>11, <1>12,
     <1>13, <1>14, <1>15, <1>16, <1>17, <1>18, <1>19, <1>20, <1>21, <1>22
     DEF Next, TaskStep, ClientStep

------------------------------------------------------------------------------
(* The heights below it. *)

LEMMA InitCover == Init => CoverInv
  BY DEF Init, CoverInv

LEMMA NextCover ==
    Quiet /\ TypeInv /\ WrapInv /\ PositionInv /\ CoverInv /\ [Next]_vars => CoverInv'
<1> SUFFICES ASSUME Quiet, TypeInv, WrapInv, PositionInv, CoverInv, [Next]_vars
             PROVE  CoverInv'
  OBVIOUS
<1> USE DEF CoverInv, dbVars, clientVars, obsVars
<1>a. /\ TypeOK
      /\ tip \in Block
      /\ dbHeight \in Nat
      /\ curHeight \in Nat
      /\ from \in Nat
  BY Constants DEF TypeInv, TypeOK, WrapInv, Height, Uint
<1>b. ASSUME Return \/ LeaveLoop PROVE pc' \in {"idle", "rescan"}
  BY <1>b DEF Return, LeaveLoop
\* Records and data that are only added keep what is covered.
<1>c. ASSUME unscan \subseteq unscan', extracted \subseteq extracted'
      PROVE  \A h : (Got(h) => Got(h)') /\ (Covered(h) => Covered(h)')
  BY <1>c DEF Covered, Got
<1>d. ASSUME NEW b, NEW h, NEW holder, NEW F, Extract(b, h, holder, F), "refuse" \notin F
      PROVE  /\ unscan' = unscan
             /\ extracted \subseteq extracted'
             /\ b \in extracted' \cup EmptyBlocks
  BY <1>d DEF Extract
<1>e. ASSUME NEW h, NEW holder, NEW F, ScanOne(h, holder, F)
      PROVE  unscan \subseteq unscan' /\ extracted \subseteq extracted'
  BY <1>e DEF ScanOne, Extract, SaveUnscan
<1>1. ASSUME NEW F, BeginTask(F) PROVE CoverInv'
  BY <1>1, <1>a, <1>c DEF BeginTask
<1>2. ASSUME NEW F, FreshHeight(F) \/ FreshBlock(F) PROVE CoverInv'
  <2>1. from = 0
    BY <1>2 DEF FreshHeight, FreshBlock, PositionInv
  <2>2. from' = 0 /\ pc' \notin {"saveHeight", "forget"}
    BY <1>2, <2>1, <1>b DEF FreshHeight, FreshBlock
  <2> QED BY <2>2
<1>3. ASSUME NEW F, LoopTop(F) PROVE CoverInv'
  <2>1. CASE Return \/ LeaveLoop
    BY <2>1, <1>3, <1>b, <1>c DEF LoopTop
  <2>2. CASE ~(Return \/ LeaveLoop)
    <3>1. /\ pc = "loop" /\ pc' = "fetch" /\ curHeight' = curHeight + 1
          /\ UNCHANGED <<dbHeight, from, unscan, extracted>>
      BY <2>2, <1>3 DEF LoopTop
    <3> QED BY <3>1, <1>a, <1>c
  <2> QED BY <2>1, <2>2
<1>4. ASSUME NEW F, FetchFails(F) PROVE CoverInv'
  <2>1. /\ pc = "fetch" /\ pc' = "loop"
        /\ UNCHANGED <<dbHeight, from, extracted, curHeight>>
        /\ SaveUnscan(curHeight, ClientHolds, F) /\ "db" \notin F
    BY <1>4, <1>a, QuietFaults DEF FetchFails
  <2>2. curHeight >= 1
    BY <2>1 DEF WrapInv
  <2>3. unscan' = unscan \cup {curHeight}
    BY <2>1, <2>2, <1>a DEF SaveUnscan
  <2>4. Covered(curHeight)'
    BY <2>1, <2>3 DEF Covered
  <2>5. \A h : Covered(h) => Covered(h)'
    BY <2>1, <2>3, <1>c
  <2>6. from' # 0 => \A h \in from'..curHeight' : Covered(h)'
    <3> SUFFICES ASSUME from # 0, NEW h \in from..curHeight PROVE Covered(h)'
      BY <2>1
    <3>1. CASE h = curHeight
      BY <3>1, <2>1, <2>3 DEF Covered
    <3>2. CASE h # curHeight
      BY <3>2, <2>1, <2>5, <1>a
    <3> QED BY <3>1, <3>2
  <2> QED BY <2>1, <2>5, <2>6
<1>5. ASSUME NEW F, ScanNext(F) PROVE CoverInv'
  <2>1. PICK b : /\ b = NodeBlock(curHeight)
                 /\ b # NoBlock
                 /\ Extract(b, curHeight, ClientHolds, F)
    BY <1>5 DEF ScanNext, Fetched
  <2>2. /\ pc = "fetch" /\ pc' = "saveHeight"
        /\ UNCHANGED <<dbHeight, from, curHeight>>
        /\ "refuse" \notin F
    BY <1>5, <1>a, QuietFaults DEF ScanNext
  <2>3. /\ unscan' = unscan
        /\ extracted \subseteq extracted'
        /\ b \in extracted' \cup EmptyBlocks
    BY <2>1, <2>2, <1>d
  <2>4. HeightOf[b] = curHeight
    BY <2>1, <1>a, NodeBlockHeight
  <2>5. Got(curHeight)' /\ Covered(curHeight)'
    BY <2>2, <2>3, <2>4 DEF Got, Covered
  <2>6. \A h : Covered(h) => Covered(h)'
    BY <2>3, <1>c
  <2>7. from' # 0 => \A h \in from'..curHeight' : Covered(h)'
    <3> SUFFICES ASSUME from # 0, NEW h \in from..curHeight PROVE Covered(h)'
      BY <2>2
    <3>1. CASE h = curHeight
      BY <3>1, <2>2, <2>3, <2>4 DEF Covered, Got
    <3>2. CASE h # curHeight
      BY <3>2, <2>2, <2>6, <1>a
    <3> QED BY <3>1, <3>2
  <2> QED BY <2>2, <2>5, <2>6, <2>7
<1>6. ASSUME NEW F, ForkFound(F) PROVE CoverInv'
  BY <1>6, <1>c DEF ForkFound
\* The record of the orphan's height goes, but that height is above both the
\* recorded position and the one the task steps back to.
<1>7. ASSUME NEW F, DropRecord(F) PROVE CoverInv'
  <2>1. /\ pc = "drop" /\ pc' = "rewind"
        /\ UNCHANGED <<dbHeight, from, extracted>>
        /\ curHeight' = Rewound(curHeight)
        /\ unscan \ {curHeight - 1} \subseteq unscan'
    BY <1>7 DEF DropRecord, DeleteUnscan, OrphanHeight
  <2>2. curHeight >= dbHeight + 2
    BY <2>1 DEF PositionInv
  <2>3. \A h : h # curHeight - 1 /\ Covered(h) => Covered(h)'
    BY <2>1 DEF Covered, Got
  <2>4. CASE from = 0
    BY <2>1, <2>4
  <2>5. CASE from # 0
    <3>1. curHeight' = curHeight - 2
      BY <2>1, <2>2, <2>5, <1>a DEF Rewound, Minus
    <3>2. \A h \in from..(curHeight - 2) : Covered(h)'
      BY <2>1, <2>3, <2>5, <1>a
    <3>3. \A h \in from..dbHeight : Covered(h)'
      BY <2>2, <3>2, <1>a
    <3> QED BY <2>1, <3>1, <3>2, <3>3
  <2> QED BY <2>4, <2>5
<1>8. ASSUME NEW F, Rewind(F) PROVE CoverInv'
  <2>1. CASE LeaveLoop
    BY <1>8, <2>1, <1>b, <1>c DEF Rewind
  <2>2. CASE ~LeaveLoop
    BY <1>8, <2>2, <1>c DEF Rewind
  <2> QED BY <2>1, <2>2
<1>9. ASSUME NEW F, SaveHeight(F) PROVE CoverInv'
  <2>1. /\ pc = "saveHeight" /\ pc' = "saveHash"
        /\ dbHeight' = curHeight /\ curHeight' = curHeight
        /\ UNCHANGED <<unscan, extracted>>
        /\ from' = IF from # 0 THEN from
                   ELSE IF isFork THEN curHeight + 1 ELSE curHeight
    BY <1>9, <1>a, QuietFaults DEF SaveHeight
  <2>2. curHeight # 0
    BY <2>1 DEF WrapInv
  <2>3. \A h \in from'..curHeight : Covered(h)
    <3>1. CASE from # 0
      BY <3>1, <2>1
    <3>2. CASE from = 0 /\ isFork
      BY <3>2, <2>1, <1>a
    <3>3. CASE from = 0 /\ ~isFork
      BY <3>3, <2>1, <1>a DEF Covered
    <3> QED BY <3>1, <3>2, <3>3
  <2>4. \A h : Covered(h) => Covered(h)'
    BY <2>1, <1>c
  <2> QED BY <2>1, <2>2, <2>3, <2>4
<1>10. ASSUME SaveHash({}) PROVE CoverInv'
  <2>1. /\ pc = "saveHash" /\ pc' \in {"loop", "saveBlock"}
        /\ UNCHANGED <<dbHeight, from, curHeight, unscan, extracted>>
    BY <1>10 DEF SaveHash, AfterSave
  <2>2. curHeight = dbHeight
    BY <2>1 DEF PositionInv
  <2> QED BY <2>1, <2>2, <1>c
<1>11. ASSUME NEW F, SaveBlock(F) PROVE CoverInv'
  <2>1. /\ pc = "saveBlock" /\ pc' = "loop"
        /\ UNCHANGED <<dbHeight, from, curHeight, unscan, extracted>>
    BY <1>11 DEF SaveBlock
  <2>2. curHeight = dbHeight
    BY <2>1 DEF PositionInv
  <2> QED BY <2>1, <2>2, <1>c
<1>12. ASSUME NEW F, RescanLast(F) PROVE CoverInv'
  BY <1>12, <1>c, <1>e DEF RescanLast
<1>13. ASSUME NEW F, ListUnscan(F) PROVE CoverInv'
  BY <1>13, <1>c DEF ListUnscan
<1>14. ASSUME NEW F, RescanFailed(F) PROVE CoverInv'
  <2>1. "refuse" \notin F /\ UNCHANGED <<dbHeight, from>>
    BY <1>14, <1>a, QuietFaults DEF RescanFailed
  <2>2. PICK h \in todo : \/ UNCHANGED <<pc, visiting, extracted, unscan>>
                         \/ /\ NodeBlock(h) # NoBlock
                            /\ Extract(NodeBlock(h), h, ClientHolds, F)
                            /\ pc' = "forget"
                            /\ visiting' = h
    BY <1>14 DEF RescanFailed, Fetched
  <2>3. CASE UNCHANGED <<pc, visiting, extracted, unscan>>
    BY <1>14, <2>1, <2>3, <1>c DEF RescanFailed
  <2>4. CASE ~UNCHANGED <<pc, visiting, extracted, unscan>>
    <3>1. /\ unscan' = unscan
          /\ extracted \subseteq extracted'
          /\ NodeBlock(h) \in extracted' \cup EmptyBlocks
      BY <2>1, <2>2, <2>4, <1>d
    <3>2. HeightOf[NodeBlock(h)] = h
      BY <2>2, <2>4, <1>a, NodeBlockHeight
    <3>3. Got(visiting)'
      BY <2>2, <2>4, <3>1, <3>2 DEF Got
    <3> QED BY <2>1, <2>2, <2>4, <3>1, <3>3, <1>c
  <2> QED BY <2>3, <2>4
\* The record goes, but its height was delivered.
<1>15. ASSUME NEW F, Forget(F) PROVE CoverInv'
  <2>1. /\ pc = "forget" /\ pc' = "failed"
        /\ UNCHANGED <<dbHeight, from, extracted>>
        /\ unscan \ {visiting} \subseteq unscan'
    BY <1>15 DEF Forget, DeleteUnscan
  <2>2. \A h : Covered(h) => Covered(h)'
    BY <2>1 DEF Covered, Got
  <2> QED BY <2>1, <2>2
<1>16. ASSUME EndTask PROVE CoverInv'
  BY <1>16, <1>b, <1>c DEF EndTask
<1>17. ASSUME NEW F, ResetHeight(F) PROVE CoverInv'
  <2>1. "db" \notin F /\ asked # NoBlock
    BY <1>17, <1>a, QuietFaults DEF ResetHeight
  <2>2. dbHeight' = HeightOf[asked] /\ from' = HeightOf[asked] + 1
    BY <1>17, <2>1 DEF ResetHeight
  <2>3. HeightOf[asked] \in Nat /\ HeightOf[asked] # 0
    BY <2>1, <1>a, Constants DEF WrapInv, Quiet, TypeOK, Height
  <2>4. pc' = "idle"
    BY <1>17, <2>1 DEF ResetHeight, PositionInv, taskVars
  <2> QED BY <2>2, <2>3, <2>4
<1>18. ASSUME ResetHash PROVE CoverInv'
  BY <1>18, <1>c DEF ResetHash, taskVars
<1>19. ASSUME NEW F, ScanBlock(F) \/ ScanBlockExtract(F) \/ ScanBlockNotify \/ ResetAsks
       PROVE  CoverInv'
  <2>1. UNCHANGED <<dbHeight, from, taskVars>>
    BY <1>19 DEF ScanBlock, ScanBlockExtract, ScanBlockNotify, ResetAsks
  <2>2. unscan \subseteq unscan' /\ extracted \subseteq extracted'
    BY <1>19 DEF ScanBlock, ScanBlockExtract, ScanBlockNotify, ResetAsks, Extract, SaveUnscan
  <2> QED BY <2>1, <2>2, <1>c DEF taskVars
<1>20. ASSUME DeliverNotice \/ Pause \/ Run \/ Grow PROVE CoverInv'
  BY <1>20, <1>c DEF DeliverNotice, Pause, Run, Grow, taskVars
<1>21. ASSUME Crash \/ Reorg PROVE CoverInv'
  BY <1>21, <1>a, QuietFaults DEF Crash, Reorg
<1>22. ASSUME UNCHANGED vars PROVE CoverInv'
  BY <1>22, <1>c DEF vars, taskVars
<1> QED
  BY <1>1, <1>2, <1>3, <1>4, <1>5, <1>6, <1>7, <1>8, <1>9, <1>10, <1>11, <1>12,
     <1>13, <1>14, <1>15, <1>16, <1>17, <1>18, <1>19, <1>20, <1>21, <1>22
     DEF Next, TaskStep, ClientStep

\* However many answers of the node are lost, in whatever order pauses, calls
\* of ScanBlock and resets of the idle scanner come, and on a chain of any
\* length: a height at or below the recorded position has been delivered or
\* has a record that will have it retried.
THEOREM NoHeightIsLost ==
    ASSUME Quiet
    PROVE  Spec => []NoHeightLost
<1>1. CoverInv => NoHeightLost
  BY DEF CoverInv, NoHeightLost, Covered
<1> DEFINE Inv == TypeInv /\ WrapInv /\ PositionInv /\ CoverInv
<1>2. Init => Inv
  BY InitType, InitWrap, InitPosition, InitCover
<1>3. Inv /\ [Next]_vars => Inv'
  BY NextType, NextWrap, NextPosition, NextCover
<1> QED BY <1>1, <1>2, <1>3, PTL DEF Spec
==============================================================================
