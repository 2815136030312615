----------------------------- MODULE ForkProofs ------------------------------
(***************************************************************************)
(* The scanner across forks: theorems about OneBlockPerHeight,             *)
(* TableLinked, AnnouncedOnChain and ChainCovered for every block tree and *)
(* any number of reorganisations, of any depth.                            *)
(***************************************************************************)
EXTENDS BlockScannerProofs

\* The process and its database file last, and clients that move the position
\* do so between two tasks: a crash or a database failure breaks all four
\* properties.
Steady ==
    /\ Budget["crash"] = 0
    /\ Budget["db"] = 0
    /\ Budget["reset"] = 0 \/ (~ResetWhileScanning /\ 1 \notin ResetHeights)

\* No client moves the position at all: a reset breaks AnnouncedOnChain and
\* OneBlockPerHeight.
Lasting == Steady /\ Budget["reset"] = 0

\* Where the task is relative to the recorded position.
PlaceInv ==
    /\ asked # NoBlock => pc = "idle" /\ Budget["reset"] # 0
    /\ Budget["scan"] = 0 => fetched = NoBlock /\ toAnnounce = NoBlock
    /\ reset # NoBlock =>
          /\ pc = "idle" /\ Budget["reset"] # 0
          /\ dbHeight # 0 /\ HeightOf[reset] = dbHeight /\ from = dbHeight + 1
    /\ \A h \in Height : dbBlock[h] # NoBlock => HeightOf[dbBlock[h]] = h
    /\ pc \in {"fresh", "freshBlock"} => dbHeight = 0
    /\ pc = "loop" => dbHeight <= curHeight
    /\ pc \in {"fetch", "drop"} => dbHeight <= curHeight - 1
    /\ pc = "drop" => forkBlock = dbBlock[curHeight - 1]
    /\ pc = "saveHeight" /\ ~isFork => dbHeight <= curHeight - 1
    /\ pc \in {"saveHash", "saveBlock"} => dbHeight = curHeight
    /\ pc = "saveBlock" => ~isFork
    /\ pc \in {"saveHeight", "saveHash", "saveBlock"} => HeightOf[curHash] = curHeight

\* Will the observers hold b once the first i queued headers are delivered?
Shown(b, i) ==
    \/ b \in live /\ \A j \in 1..i : notices[j].block # b
    \/ \E j \in 1..i :
          /\ notices[j].block = b
          /\ ~notices[j].fork
          /\ \A k \in (j + 1)..i : notices[k].block # b

\* ... once all of them are.
Announced(b) == Shown(b, Len(notices))

\* A new position has been stored, but not yet its row.
RowPending == pc = "saveBlock" \/ (pc = "saveHash" /\ ~isFork)

\* The task has found a fork and not yet withdrawn the orphan.
Rewinding == pc = "rewind" \/ (pc = "saveHeight" /\ isFork)

\* However many of the queued headers are delivered, the observers never hold
\* two blocks of one height.
NeverTwo ==
    \A i \in 0..Len(notices) : \A a, b \in Block :
       Shown(a, i) /\ Shown(b, i) /\ HeightOf[a] = HeightOf[b] => a = b

\* What is announced is a row of the table, not above the position; a rewind
\* passes no announced block but the one it is about to withdraw.
ShownInv ==
    /\ \A b \in Block : Announced(b) => dbBlock[HeightOf[b]] = b
    /\ \A b \in Block : Announced(b) =>
          IF RowPending THEN HeightOf[b] <= dbHeight - 1
          ELSE HeightOf[b] <= dbHeight \/ (pc = "saveHash" /\ b = forkBlock)
    /\ Rewinding => \A b \in Block : Announced(b) => HeightOf[b] <= curHeight \/ b = forkBlock
    /\ NeverTwo

------------------------------------------------------------------------------
\* The rows that belong to the position, and the block it is about to name.
Top     == IF RowPending THEN dbHeight - 1 ELSE dbHeight
PosHash == IF pc = "saveHash" THEN curHash ELSE dbHash

\* With at most one answer lost, the task is at most one height ahead of the
\* block it compares with, so a rewind stays at or just below the position.
StepInv ==
    /\ pc = "fetch" => curHeight <= NodeHeight
    /\ dbHeight = 0 => dbHash = NoBlock /\ from = 0
    /\ dbHeight # 0 /\ reset = NoBlock /\ pc # "saveHash" =>
          dbHash # NoBlock /\ HeightOf[dbHash] = dbHeight
    /\ pc = "loop" =>
          /\ curHash # NoBlock
          /\ \/ HeightOf[curHash] = curHeight
             \/ HeightOf[curHash] = curHeight - 1 /\ spent["rpc"] >= 1
    /\ pc = "fetch" =>
          /\ curHash # NoBlock
          /\ \/ HeightOf[curHash] = curHeight - 1
             \/ HeightOf[curHash] = curHeight - 2 /\ spent["rpc"] >= 1
    /\ pc \in {"loop", "fetch"} /\ dbHeight # 0 => curHash = dbHash
    /\ pc = "drop" /\ dbHeight # 0 => dbHeight \in {curHeight - 1, curHeight - 2}
    /\ Rewinding /\ dbHeight # 0 => dbHeight \in {curHeight, curHeight + 1}
    /\ pc = "saveHeight" /\ isFork => dbBlock[curHeight] \in {NoBlock, curHash}
    /\ pc = "saveHeight" /\ ~isFork /\ dbHeight # 0 => Parent[curHash] = dbHash
    /\ pc = "saveBlock" => dbHash = curHash

\* The rows below the height that a reset asked for are of any branch.
Low == IF Budget["reset"] = 0 THEN 0 ELSE from

\* The rows at or below the position are its ancestors, without a gap.
LinkInv ==
    /\ dbHeight = 0 => \A h \in Height : dbBlock[h] = NoBlock
    /\ dbHeight # 0 => \A h \in Height : h >= Low /\ h <= Top /\ dbBlock[h] # NoBlock =>
          /\ dbBlock[h] = AncestorAt[PosHash][h]
          /\ \A i \in h..Top : dbBlock[i] # NoBlock

\* Every height answered for has a row, and the rows hold delivered blocks.
RowInv ==
    /\ from # 0 => \A h \in from..Top :
          dbBlock[h] # NoBlock /\ dbBlock[h] \in extracted \cup EmptyBlocks
    /\ RowPending \/ (pc = "saveHeight" /\ ~isFork) => curHash \in extracted \cup EmptyBlocks
    /\ pc = "saveHash" /\ dbHash # NoBlock /\ HeightOf[dbHash] = dbHeight /\ dbHeight >= from =>
          isFork /\ (dbBlock[dbHeight] # NoBlock => dbHash = curHash)

------------------------------------------------------------------------------
\* The faults left out strike no step.
LEMMA SteadyFaults ==
    ASSUME Steady, TypeOK, NEW F, Suffer(F)
    PROVE  "crash" \notin F /\ "db" \notin F
<1>1. ASSUME NEW f \in Fault, Budget[f] = 0 PROVE f \notin F
  <2>1. spent[f] \in Nat
    BY <1>1 DEF TypeOK
  <2> QED BY <1>1, <2>1 DEF Suffer
<1> QED BY <1>1 DEF Steady, Fault

LEMMA NoCrash ==
    ASSUME Steady, TypeOK
    PROVE  ~Crash
  BY SteadyFaults DEF Crash

\* Without resets no client moves the position ...
LEMMA NoReset ==
    ASSUME Lasting, TypeOK, PlaceInv
    PROVE  ~ResetAsks /\ (\A F : ~ResetHeight(F)) /\ ~ResetHash /\ ~Crash
<1>1. ~ResetAsks
  <2>1. spent["reset"] \in Nat
    BY DEF TypeOK, Fault
  <2> QED BY <2>1 DEF ResetAsks, Suffer, Lasting
<1> QED BY <1>1, NoCrash DEF ResetHeight, ResetHash, PlaceInv, Lasting

\* ... without scans of their own they announce nothing ...
LEMMA NoScan ==
    ASSUME Budget["scan"] = 0, TypeOK, PlaceInv
    PROVE  (\A F : ~ScanBlock(F) /\ ~ScanBlockExtract(F)) /\ ~ScanBlockNotify
<1>1. ASSUME NEW F PROVE ~ScanBlock(F)
  <2>1. spent["scan"] \in Nat
    BY DEF TypeOK, Fault
  <2> QED BY <2>1 DEF ScanBlock, Suffer
<1> QED BY <1>1 DEF ScanBlockExtract, ScanBlockNotify, PlaceInv

\* ... and with them between two tasks, to just below a height.
LEMMA ResetBetween ==
    ASSUME Steady, TypeOK, WrapInv, PlaceInv, NEW F, ResetHeight(F)
    PROVE  /\ Budget["reset"] # 0 /\ pc = "idle"
           /\ UNCHANGED <<tip, dbHash, dbBlock, taskVars>>
           /\ reset' \in Block /\ HeightOf[reset'] = dbHeight'
           /\ dbHeight' \in Nat \ {0} /\ from' = dbHeight' + 1
<1>1. asked \in Block /\ pc = "idle" /\ Budget["reset"] # 0
  BY DEF ResetHeight, PlaceInv, TypeOK
<1>2. HeightOf[asked] \in Nat /\ HeightOf[asked] # 0
  <2>1. HeightOf[asked] + 1 \in ResetHeights /\ 1 \notin ResetHeights
    BY <1>1, Constants DEF WrapInv, Steady
  <2> QED BY <1>1, <2>1, Constants DEF Height
<1>3. "db" \notin F
  BY SteadyFaults DEF ResetHeight
<1>4. reset' = asked /\ dbHeight' = HeightOf[asked] /\ from' = HeightOf[asked] + 1
  BY <1>3 DEF ResetHeight
<1>5. UNCHANGED <<tip, dbHash, dbBlock, taskVars>>
  BY DEF ResetHeight
<1>6. dbHeight' \in Nat \ {0} /\ from' = dbHeight' + 1
  BY <1>2, <1>4
<1> QED BY <1>1, <1>4, <1>5, <1>6

\* A node's answer is the block of that height.
LEMMA FetchedHeight ==
    ASSUME tip \in Block, NEW h, NEW F, Fetched(h, F) # NoBlock
    PROVE  Fetched(h, F) \in Block /\ HeightOf[Fetched(h, F)] = h
  BY NodeBlockHeight DEF Fetched

------------------------------------------------------------------------------
(* The task's place. *)

LEMMA InitPlace == Init => PlaceInv
  BY DEF Init, PlaceInv

LEMMA NextPlace ==
    Steady /\ TypeInv /\ WrapInv /\ PlaceInv /\ [Next]_vars => PlaceInv'
<1> SUFFICES ASSUME Steady, TypeInv, WrapInv, PlaceInv, [Next]_vars
             PROVE  PlaceInv'
  OBVIOUS
<1> USE DEF PlaceInv, dbVars, clientVars, obsVars
<1>a. /\ TypeOK
      /\ tip \in Block
      /\ dbHeight \in Nat
      /\ curHeight \in Nat
      /\ pc # "freshBlock" => curHeight \in Height
  BY Constants DEF TypeInv, TypeOK, WrapInv, Height, Uint
<1>b. ASSUME Return \/ LeaveLoop PROVE pc' \in {"idle", "rescan"}
  BY <1>b DEF Return, LeaveLoop
<1>1. ASSUME NEW F, BeginTask(F) PROVE PlaceInv'
  <2>1. "db" \notin F
    BY <1>1, <1>a, SteadyFaults DEF BeginTask
  <2>2. reset = NoBlock
    BY <1>1, <2>1 DEF BeginTask, Opened, ClientHolds
  <2>3. UNCHANGED <<dbHeight, dbBlock, clientVars>> /\ pc' \in {"fresh", "loop"}
    BY <1>1 DEF BeginTask
  <2>6. asked = NoBlock
    BY <1>1 DEF BeginTask, Steady
  <2>4. pc' = "fresh" => dbHeight = 0
    BY <1>1, <2>1 DEF BeginTask
  <2>5. pc' = "loop" => curHeight' = dbHeight
    BY <1>1 DEF BeginTask
  <2> QED BY <2>2, <2>3, <2>4, <2>5, <2>6, <1>a
<1>2. ASSUME NEW F, FreshHeight(F) PROVE PlaceInv'
  BY <1>2, <1>b DEF FreshHeight
<1>3. ASSUME NEW F, FreshBlock(F) PROVE PlaceInv'
  BY <1>3, <1>a, <1>b DEF FreshBlock
<1>4. ASSUME NEW F, LoopTop(F) PROVE PlaceInv'
  <2>1. CASE Return \/ LeaveLoop
    BY <2>1, <1>4, <1>b DEF LoopTop
  <2>2. CASE ~(Return \/ LeaveLoop)
    BY <2>2, <1>4, <1>a DEF LoopTop
  <2> QED BY <2>1, <2>2
<1>5. ASSUME NEW F, FetchFails(F) PROVE PlaceInv'
  <2>1. pc = "fetch" /\ pc' = "loop" /\ UNCHANGED <<dbHeight, dbBlock, clientVars, curHeight>>
    BY <1>5 DEF FetchFails
  <2> QED BY <2>1, <1>a
<1>6. ASSUME NEW F, ScanNext(F) PROVE PlaceInv'
  <2>1. HeightOf[curHash'] = curHeight
    BY <1>6, <1>a, FetchedHeight DEF ScanNext
  <2> QED BY <1>6, <2>1 DEF ScanNext
<1>7. ASSUME NEW F, ForkFound(F) PROVE PlaceInv'
  <2>1. "db" \notin F
    BY <1>7, <1>a, SteadyFaults DEF ForkFound
  <2>2. curHeight - 1 \in Height
    BY <1>7, <1>a, Constants DEF ForkFound, WrapInv, Height
  <2>3. forkBlock' = dbBlock[curHeight - 1]
    BY <1>7, <2>1, <2>2 DEF ForkFound, LocalBlock, OrphanHeight
  <2> QED BY <1>7, <2>3 DEF ForkFound
<1>8. ASSUME NEW F, DropRecord(F) PROVE PlaceInv'
  BY <1>8 DEF DropRecord
<1>9. ASSUME NEW F, Rewind(F) PROVE PlaceInv'
  <2>1. RewindBase(F) # NoBlock => HeightOf[RewindBase(F)] = curHeight
    BY <1>a, FetchedHeight DEF RewindBase, LocalBlock
  <2>2. CASE RewindBase(F) = NoBlock
    BY <1>9, <2>2, <1>b DEF Rewind
  <2>3. CASE RewindBase(F) # NoBlock
    BY <1>9, <2>1, <2>3 DEF Rewind
  <2> QED BY <2>2, <2>3
<1>10. ASSUME NEW F, SaveHeight(F) PROVE PlaceInv'
  <2>1. "db" \notin F
    BY <1>10, <1>a, SteadyFaults DEF SaveHeight
  <2> QED BY <1>10, <2>1 DEF SaveHeight
<1>11. ASSUME SaveHash({}) PROVE PlaceInv'
  <2>1. CASE isFork
    BY <1>11, <2>1, <1>a DEF SaveHash, AfterSave
  <2>2. CASE ~isFork
    BY <1>11, <2>2, <1>a DEF SaveHash, AfterSave
  <2> QED BY <2>1, <2>2
<1>12. ASSUME NEW F, SaveBlock(F) PROVE PlaceInv'
  <2>1. \A h \in Height : dbBlock'[h] # NoBlock => HeightOf[dbBlock'[h]] = h
    BY <1>12, <1>a DEF SaveBlock, Rows, TypeOK
  <2> QED BY <1>12, <2>1, <1>a DEF SaveBlock
<1>13. ASSUME NEW F, RescanLast(F) \/ ListUnscan(F) \/ RescanFailed(F) \/ Forget(F)
       PROVE  PlaceInv'
  <2>1. pc' \in {"rescan", "failed", "forget"} /\ pc \in {"rescan", "failed", "forget"}
    BY <1>13 DEF RescanLast, ListUnscan, RescanFailed, Forget
  <2>2. UNCHANGED <<dbHeight, dbBlock, clientVars>>
    BY <1>13 DEF RescanLast, ListUnscan, RescanFailed, Forget
  <2> QED BY <2>1, <2>2
<1>14. ASSUME EndTask PROVE PlaceInv'
  BY <1>14, <1>b DEF EndTask
<1>15. ASSUME NEW F, ScanBlock(F) \/ ScanBlockExtract(F) \/ ScanBlockNotify
       PROVE  PlaceInv'
  <2>1. Budget["scan"] # 0
    BY <1>15, <1>a, NoScan
  <2>2. UNCHANGED <<taskVars, dbHeight, dbBlock, asked, reset, from>>
    BY <1>15 DEF ScanBlock, ScanBlockExtract, ScanBlockNotify
  <2> QED BY <2>1, <2>2 DEF taskVars
<1>16. ASSUME DeliverNotice \/ Pause \/ Run \/ Grow \/ Reorg PROVE PlaceInv'
  BY <1>16 DEF DeliverNotice, Pause, Run, Grow, Reorg, taskVars
<1>17. ASSUME UNCHANGED vars PROVE PlaceInv'
  BY <1>17 DEF vars, taskVars
<1>18. ASSUME NEW F, ResetHeight(F) PROVE PlaceInv'
  <2>1. asked' = NoBlock /\ UNCHANGED <<fetched, toAnnounce>>
    BY <1>18 DEF ResetHeight
  <2> QED BY <1>18, <2>1, <1>a, ResetBetween DEF taskVars
<1>20. ASSUME ResetAsks PROVE PlaceInv'
  <2>1. spent["reset"] \in Nat
    BY <1>a DEF TypeOK, Fault
  <2>2. Budget["reset"] # 0 /\ pc = "idle"
    BY <1>20, <2>1 DEF ResetAsks, Suffer, Steady
  <2> QED BY <1>20, <2>2 DEF ResetAsks, taskVars
<1>19. ASSUME ResetHash PROVE PlaceInv'
  BY <1>19 DEF ResetHash, taskVars
<1> QED
  BY <1>1, <1>2, <1>3, <1>4, <1>5, <1>6, <1>7, <1>8, <1>9, <1>10, <1>11, <1>12,
     <1>13, <1>14, <1>15, <1>16, <1>17, <1>18, <1>19, <1>20, <1>a, NoCrash
     DEF Next, TaskStep, ClientStep

------------------------------------------------------------------------------
(* What the observers are shown. *)

\* The steps that touch neither the queue nor the observers.
LEMMA ShownSame ==
    ASSUME UNCHANGED <<notices, live>>
    PROVE  /\ Len(notices)' = Len(notices)
           /\ \A b, i : Shown(b, i)' <=> Shown(b, i)
           /\ \A b : Announced(b)' <=> Announced(b)
  BY DEF Shown, Announced

\* A header queued last decides about its block and leaves the others.
LEMMA ShownAppend ==
    ASSUME notices \in Seq(Notice), NEW x \in Block, NEW f \in BOOLEAN, Notify(x, f)
    PROVE  /\ Len(notices)' = Len(notices) + 1
           /\ \A b : \A i \in 0..Len(notices) : Shown(b, i)' <=> Shown(b, i)
           /\ \A b : Announced(b)' <=> IF b = x THEN ~f ELSE Announced(b)
<1>n. PICK n \in Nat : n = Len(notices)
  OBVIOUS
<1> DEFINE h == [block |-> x, fork |-> f]
<1>1. /\ h \in Notice
      /\ notices' = Append(notices, h)
      /\ live' = live
  BY DEF Notify, Notice
<1>2. /\ Len(notices') = n + 1
      /\ \A j \in 1..n : notices'[j] = notices[j]
      /\ notices'[n + 1].block = x
      /\ notices'[n + 1].fork = f
  BY <1>n, <1>1
<1> HIDE DEF h
<1>3. ASSUME NEW b, NEW i \in 0..n PROVE Shown(b, i)' <=> Shown(b, i)
  <2>1. \A j \in 1..i : notices'[j] = notices[j]
    BY <1>2
  <2>2. \A j \in 1..i : \A k \in (j + 1)..i : k \in 1..i
    OBVIOUS
  <2>3. \A j \in 1..i : (\A k \in (j + 1)..i : notices'[k].block # b)
                        <=> (\A k \in (j + 1)..i : notices[k].block # b)
    BY <2>1, <2>2
  <2>4. Shown(b, i)' <=>
          \/ b \in live /\ \A j \in 1..i : notices'[j].block # b
          \/ \E j \in 1..i : /\ notices'[j].block = b
                             /\ ~notices'[j].fork
                             /\ \A k \in (j + 1)..i : notices'[k].block # b
    BY <1>1 DEF Shown
  <2> QED BY <2>1, <2>3, <2>4, Zenon DEF Shown
<1>4. ASSUME NEW b PROVE Shown(b, n + 1)' <=> IF b = x THEN ~f ELSE Shown(b, n)
  <2> DEFINE Late(j) == \A k \in (j + 1)..(n + 1) : notices'[k].block # b
  <2>1. Shown(b, n + 1)' <=>
          \/ b \in live /\ \A j \in 1..(n + 1) : notices'[j].block # b
          \/ \E j \in 1..(n + 1) : notices'[j].block = b /\ ~notices'[j].fork /\ Late(j)
    BY <1>1 DEF Shown
  <2>2. Late(n + 1)
    OBVIOUS
  <2>3. \A j \in 1..n : Late(j) <=> x # b /\ \A k \in (j + 1)..n : notices[k].block # b
    <3>1. \A j \in 1..n : \A k : k \in (j + 1)..(n + 1) <=> k \in (j + 1)..n \/ k = n + 1
      OBVIOUS
    <3>2. \A j \in 1..n : \A k \in (j + 1)..n : k \in 1..n
      OBVIOUS
    <3> QED BY <1>2, <3>1, <3>2
  <2>4. \A j : j \in 1..(n + 1) <=> j \in 1..n \/ j = n + 1
    OBVIOUS
  <2> HIDE DEF Late
  <2>5. CASE b = x
    BY <1>2, <2>1, <2>2, <2>3, <2>4, <2>5
  <2>6. CASE b # x
    BY <1>2, <2>1, <2>3, <2>4, <2>6 DEF Shown
  <2> QED BY <2>5, <2>6
<1>5. \A b : Announced(b)' <=> Shown(b, n + 1)'
  BY <1>2 DEF Announced
<1> QED BY <1>n, <1>2, <1>3, <1>4, <1>5 DEF Announced

\* A delivery moves the first header from the queue to the observers.
LEMMA ShownDeliver ==
    ASSUME TypeOK, DeliverNotice
    PROVE  /\ Len(notices) \in Nat /\ Len(notices)' = Len(notices) - 1
           /\ \A b : \A i \in 0..Len(notices)' : Shown(b, i)' <=> Shown(b, i + 1)
           /\ \A b : Announced(b)' <=> Announced(b)
<1>n. PICK n \in Nat : n = Len(notices)
  BY DEF TypeOK
<1>1. /\ notices \in Seq(Notice) /\ notices # <<>>
      /\ notices' = Tail(notices)
      /\ live' = IF Head(notices).fork THEN live \ {Head(notices).block}
                                       ELSE live \cup {Head(notices).block}
  BY DEF TypeOK, DeliverNotice
<1>2. /\ n \in Nat /\ n >= 1
      /\ Len(notices') = n - 1
      /\ \A j \in 1..(n - 1) : notices'[j] = notices[j + 1]
      /\ Head(notices) = notices[1]
      /\ notices[1].fork \in BOOLEAN
  <2>1. n >= 1 /\ Len(notices') = n - 1 /\ Head(notices) = notices[1]
    BY <1>n, <1>1
  <2>2. \A j \in 1..(n - 1) : notices'[j] = notices[j + 1]
    BY <1>n, <1>1
  <2>3. notices[1] \in Notice
    BY <1>n, <1>1, <2>1
  <2> QED BY <2>1, <2>2, <2>3 DEF Notice
<1>3. ASSUME NEW b, NEW i \in 0..(n - 1) PROVE Shown(b, i)' <=> Shown(b, i + 1)
  <2>1. \A j \in 1..i : notices'[j] = notices[j + 1]
    BY <1>2
  <2>2. \A j : j \in 1..(i + 1) <=> j = 1 \/ (j - 1 \in 1..i /\ j \in Int)
    BY <1>2
  <2>3. b \in live' <=> \/ b \in live /\ notices[1].block # b
                        \/ notices[1].block = b /\ ~notices[1].fork
    BY <1>1, <1>2
  <2>4. (\A j \in 1..i : notices'[j].block # b) <=> (\A k \in 2..(i + 1) : notices[k].block # b)
    <3>1. \A k \in 2..(i + 1) : k - 1 \in 1..i /\ (k - 1) + 1 = k
      BY <1>2
    <3>2. \A j \in 1..i : j + 1 \in 2..(i + 1)
      BY <1>2
    <3> QED BY <2>1, <3>1, <3>2
  <2>5. ASSUME NEW j \in 1..i
        PROVE  (\A k \in (j + 1)..i : notices'[k].block # b)
               <=> (\A k \in (j + 2)..(i + 1) : notices[k].block # b)
    <3>1. \A k \in (j + 2)..(i + 1) : k - 1 \in (j + 1)..i /\ (k - 1) + 1 = k
      BY <1>2
    <3>2. \A k \in (j + 1)..i : k + 1 \in (j + 2)..(i + 1) /\ k \in 1..i
      BY <1>2
    <3> QED BY <2>1, <3>1, <3>2
  <2> DEFINE Adds(j) == /\ notices[j].block = b
                        /\ ~notices[j].fork
                        /\ \A k \in (j + 1)..(i + 1) : notices[k].block # b
  <2>6. Shown(b, i)' <=> \/ b \in live' /\ \A k \in 2..(i + 1) : notices[k].block # b
                         \/ \E j \in 1..i : Adds(j + 1)
    <3>1. Shown(b, i)' <=>
            \/ b \in live' /\ \A j \in 1..i : notices'[j].block # b
            \/ \E j \in 1..i : /\ notices'[j].block = b
                               /\ ~notices'[j].fork
                               /\ \A k \in (j + 1)..i : notices'[k].block # b
      BY DEF Shown
    <3>2. \A j \in 1..i : (j + 1) + 1 = j + 2
      BY <1>2
    <3>3. \A j \in 1..i : Adds(j + 1) <=>
             /\ notices'[j].block = b
             /\ ~notices'[j].fork
             /\ \A k \in (j + 1)..i : notices'[k].block # b
      BY <2>1, <2>5, <3>2
    <3> HIDE DEF Adds
    <3> QED BY <3>1, <3>3, <2>4
  <2>7. Shown(b, i + 1) <=> \/ b \in live /\ \A k \in 1..(i + 1) : notices[k].block # b
                            \/ \E j \in 1..(i + 1) : Adds(j)
    BY DEF Shown
  <2>8. Adds(1) <=> /\ notices[1].block = b
                    /\ ~notices[1].fork
                    /\ \A k \in 2..(i + 1) : notices[k].block # b
    OBVIOUS
  <2>9. (\A k \in 1..(i + 1) : notices[k].block # b) <=>
          notices[1].block # b /\ \A k \in 2..(i + 1) : notices[k].block # b
    <3>1. \A k : k \in 1..(i + 1) <=> k = 1 \/ k \in 2..(i + 1)
      BY <1>2
    <3> QED BY <3>1
  <2> HIDE DEF Adds
  <2>10. (\E j \in 1..(i + 1) : Adds(j)) <=> Adds(1) \/ \E j \in 1..i : Adds(j + 1)
    <3>1. \A j \in 1..(i + 1) : j = 1 \/ (j - 1 \in 1..i /\ (j - 1) + 1 = j)
      BY <1>2
    <3>2. 1 \in 1..(i + 1) /\ \A j \in 1..i : j + 1 \in 1..(i + 1)
      BY <1>2
    <3> QED BY <3>1, <3>2
  <2> QED BY <2>3, <2>6, <2>7, <2>8, <2>9, <2>10
<1>4. n - 1 \in 0..(n - 1) /\ (n - 1) + 1 = n
  BY <1>2
<1>5. ASSUME NEW b PROVE Announced(b)' <=> Announced(b)
  BY <1>n, <1>2, <1>3, <1>4 DEF Announced
<1> QED BY <1>n, <1>2, <1>3, <1>5

LEMMA InitShown == Init => ShownInv
<1> SUFFICES ASSUME Init PROVE ShownInv
  OBVIOUS
<1>1. Len(notices) = 0 /\ live = {} /\ pc = "idle"
  BY DEF Init
<1>2. \A b : \A i \in 0..Len(notices) : ~Shown(b, i)
  BY <1>1 DEF Shown
<1> QED BY <1>1, <1>2 DEF ShownInv, NeverTwo, Announced, RowPending, Rewinding

LEMMA NeverTwoAppended ==
    ASSUME notices \in Seq(Notice), NeverTwo,
           Len(notices)' = Len(notices) + 1,
           \A b : \A i \in 0..Len(notices) : Shown(b, i)' <=> Shown(b, i),
           \A a, b \in Block :
              Announced(a)' /\ Announced(b)' /\ HeightOf[a] = HeightOf[b] => a = b
    PROVE  NeverTwo'
<1>n. PICK n \in Nat : n = Len(notices)
  OBVIOUS
<1>1. Len(notices') = n + 1
  BY <1>n
<1>2. ASSUME NEW i \in 0..(n + 1), NEW a \in Block, NEW b \in Block,
             Shown(a, i)', Shown(b, i)', HeightOf[a] = HeightOf[b]
      PROVE  a = b
  <2>1. CASE i = n + 1
    BY <1>1, <1>2, <2>1 DEF Announced
  <2>2. CASE i # n + 1
    <3>1. i \in 0..Len(notices)
      BY <1>n, <2>2
    <3> QED BY <1>2, <3>1 DEF NeverTwo
  <2> QED BY <2>1, <2>2
<1> QED BY <1>1, <1>2 DEF NeverTwo

LEMMA NeverTwoDelivered ==
    ASSUME NeverTwo, Len(notices) \in Nat, Len(notices)' = Len(notices) - 1,
           \A b : \A i \in 0..Len(notices)' : Shown(b, i)' <=> Shown(b, i + 1)
    PROVE  NeverTwo'
<1>n. PICK n \in Nat : n = Len(notices)
  OBVIOUS
<1>1. Len(notices') = n - 1
  BY <1>n
<1>2. ASSUME NEW i \in 0..(n - 1), NEW a \in Block, NEW b \in Block,
             Shown(a, i)', Shown(b, i)', HeightOf[a] = HeightOf[b]
      PROVE  a = b
  <2>1. i + 1 \in 0..Len(notices)
    BY <1>n
  <2>2. Shown(a, i + 1) /\ Shown(b, i + 1)
    BY <1>1, <1>2
  <2> QED BY <1>2, <2>1, <2>2 DEF NeverTwo
<1> QED BY <1>1, <1>2 DEF NeverTwo

LEMMA NextShown ==
    /\ Lasting /\ Budget["scan"] = 0
    /\ TypeInv /\ WrapInv /\ PlaceInv /\ ShownInv /\ [Next]_vars
    => ShownInv'
<1> SUFFICES ASSUME Lasting, Budget["scan"] = 0,
                    TypeInv, WrapInv, PlaceInv, ShownInv, [Next]_vars
             PROVE  ShownInv'
  OBVIOUS
<1>a. /\ TypeOK /\ Steady
      /\ dbHeight \in Nat
      /\ curHeight \in Nat /\ (pc # "freshBlock" => curHeight \in Height)
      /\ dbBlock \in [Height -> Block \cup {NoBlock}]
      /\ HeightOf \in [Block -> Nat]
      /\ NoBlock \notin Block
      /\ notices \in Seq(Notice)
  BY Constants DEF Lasting, TypeInv, TypeOK, WrapInv, Height, Uint
\* The heights of what is announced and of the rows.
<1> DEFINE Rowed == \A b \in Block : Announced(b) => dbBlock[HeightOf[b]] = b
           Below == \A b \in Block : Announced(b) =>
                       IF RowPending THEN HeightOf[b] <= dbHeight - 1
                       ELSE HeightOf[b] <= dbHeight \/ (pc = "saveHash" /\ b = forkBlock)
           Passed == Rewinding => \A b \in Block : Announced(b) =>
                                     HeightOf[b] <= curHeight \/ b = forkBlock
<1>b. ShownInv <=> Rowed /\ Below /\ Passed /\ NeverTwo
  BY DEF ShownInv
<1>c. ShownInv' <=> Rowed' /\ Below' /\ Passed' /\ NeverTwo'
  BY DEF ShownInv
<1>d. ASSUME UNCHANGED obsVars, dbBlock' = dbBlock
      PROVE  /\ Rowed' /\ NeverTwo'
             /\ \A b \in Block : Announced(b)' <=> Announced(b)
  <2>1. /\ Len(notices)' = Len(notices)
        /\ \A b, i : Shown(b, i)' <=> Shown(b, i)
        /\ \A b : Announced(b)' <=> Announced(b)
    BY <1>d, ShownSame DEF obsVars
  <2>2. Rowed'
    BY <1>b, <1>d, <2>1
  <2>3. NeverTwo'
    BY <1>b, <2>1 DEF NeverTwo
  <2> HIDE DEF Rowed
  <2> QED BY <2>1, <2>2, <2>3
\* Where neither the observers, the table nor the position changes.
<1>e. ASSUME UNCHANGED obsVars, dbBlock' = dbBlock, dbHeight' = dbHeight,
             ~RowPending, pc # "saveHash",
             pc' \notin {"saveHash", "saveBlock"},
             pc' = "rewind" \/ (pc' = "saveHeight" /\ isFork') =>
                Rewinding /\ curHeight' = curHeight /\ forkBlock' = forkBlock
      PROVE  ShownInv'
  <2>1. ~RowPending' /\ (Rewinding' => Rewinding /\ curHeight' = curHeight /\ forkBlock' = forkBlock)
    BY <1>e DEF RowPending, Rewinding
  <2>2. Below'
    BY <1>b, <1>d, <1>e, <2>1
  <2>3. Passed'
    BY <1>b, <1>d, <1>e, <2>1
  <2> HIDE DEF Rowed, Below, Passed
  <2> QED BY <1>c, <1>d, <1>e, <2>2, <2>3
\* Where nothing that the invariant speaks of changes.
<1>f. ASSUME UNCHANGED <<obsVars, taskVars, dbBlock, dbHeight>>
      PROVE  ShownInv'
  <2>1. UNCHANGED obsVars /\ UNCHANGED <<pc, curHeight, forkBlock, isFork, dbBlock, dbHeight>>
    BY <1>f DEF taskVars
  <2>2. (RowPending' <=> RowPending) /\ (Rewinding' <=> Rewinding)
    BY <2>1 DEF RowPending, Rewinding
  <2>3. Below' /\ Passed'
    BY <1>b, <1>d, <2>1, <2>2
  <2> HIDE DEF Rowed, Below, Passed
  <2> QED BY <1>c, <1>d, <2>1, <2>3
<1> HIDE DEF Rowed, Below, Passed
<1> USE DEF dbVars, clientVars
<1>g. ASSUME Return \/ LeaveLoop PROVE pc' \in {"idle", "rescan"}
  BY <1>g DEF Return, LeaveLoop
<1>1. ASSUME NEW F, BeginTask(F) PROVE ShownInv'
  BY <1>1, <1>e DEF BeginTask, RowPending
<1>2. ASSUME NEW F, FreshHeight(F) PROVE ShownInv'
  BY <1>2, <1>e, <1>g DEF FreshHeight, RowPending
<1>3. ASSUME NEW F, FreshBlock(F) PROVE ShownInv'
  BY <1>3, <1>e, <1>g DEF FreshBlock, RowPending
<1>4. ASSUME NEW F, LoopTop(F) PROVE ShownInv'
  <2>1. pc' \in {"idle", "rescan", "fetch"}
    BY <1>4, <1>g DEF LoopTop
  <2> QED BY <1>4, <2>1, <1>e DEF LoopTop, RowPending
<1>5. ASSUME NEW F, FetchFails(F) PROVE ShownInv'
  BY <1>5, <1>e DEF FetchFails, RowPending
<1>6. ASSUME NEW F, ScanNext(F) PROVE ShownInv'
  BY <1>6, <1>e DEF ScanNext, RowPending
<1>7. ASSUME NEW F, ForkFound(F) PROVE ShownInv'
  BY <1>7, <1>e DEF ForkFound, RowPending
<1>8. ASSUME NEW F, DropRecord(F) PROVE ShownInv'
  <2>1. /\ curHeight' = Rewound(curHeight)
        /\ pc = "drop" /\ pc' = "rewind"
        /\ UNCHANGED <<dbHeight, dbBlock, forkBlock>>
        /\ UNCHANGED obsVars
    BY <1>8 DEF DropRecord
  <2>2. curHeight >= 2 /\ curHeight' >= curHeight - 2
    BY <2>1, <1>a DEF WrapInv, Rewound, Minus
  <2>3. dbHeight <= curHeight - 1 /\ forkBlock = dbBlock[curHeight - 1]
    BY <2>1 DEF PlaceInv
  <2>4. ~RowPending /\ ~RowPending' /\ pc # "saveHash"
    BY <2>1 DEF RowPending
  <2>5. ASSUME NEW b \in Block, Announced(b)
        PROVE  /\ HeightOf[b] <= dbHeight
               /\ HeightOf[b] <= curHeight' \/ b = forkBlock
    <3>1. HeightOf[b] <= dbHeight /\ dbBlock[HeightOf[b]] = b /\ HeightOf[b] \in Nat
      BY <2>4, <2>5, <1>a, <1>b DEF Below, Rowed
    <3>2. CASE HeightOf[b] = curHeight - 1
      BY <3>1, <3>2, <2>3
    <3>3. CASE HeightOf[b] # curHeight - 1
      <4>1. curHeight' \in Nat
        BY <2>1, <2>2, <1>a DEF Rewound, Minus
      <4> QED BY <3>1, <3>3, <2>2, <2>3, <1>a, <4>1
    <3> QED BY <3>1, <3>2, <3>3
  <2>6. Below' /\ Passed'
    BY <2>1, <2>4, <2>5, <1>d DEF Below, Passed
  <2> QED BY <2>1, <2>6, <1>c, <1>d
<1>9. ASSUME NEW F, Rewind(F) PROVE ShownInv'
  <2>1. pc = "rewind" /\ UNCHANGED <<dbVars, obsVars>>
        /\ \/ pc' = "rescan"
           \/ UNCHANGED <<curHeight, forkBlock>> /\ pc' = "saveHeight"
    BY <1>9 DEF Rewind, LeaveLoop
  <2> QED BY <2>1, <1>e DEF RowPending, Rewinding
<1>10. ASSUME NEW F, SaveHeight(F) PROVE ShownInv'
  <2>1. "db" \notin F
    BY <1>10, <1>a, SteadyFaults DEF SaveHeight
  <2>2. /\ pc = "saveHeight" /\ pc' = "saveHash"
        /\ dbHeight' = curHeight
        /\ UNCHANGED <<isFork, forkBlock, dbBlock, curHeight>>
        /\ UNCHANGED obsVars
    BY <1>10, <2>1 DEF SaveHeight
  <2>3. ~RowPending /\ ~Rewinding' /\ (RowPending' <=> ~isFork)
    BY <2>2 DEF RowPending, Rewinding
  <2>4. CASE isFork
    <3>1. Rewinding
      BY <2>2, <2>4 DEF Rewinding
    <3>2. Below' /\ Passed'
      BY <2>2, <2>3, <2>4, <3>1, <1>b, <1>d DEF Below, Passed
    <3> QED BY <2>2, <3>2, <1>c, <1>d
  <2>5. CASE ~isFork
    <3>1. dbHeight <= curHeight - 1
      BY <2>2, <2>5 DEF PlaceInv
    <3>2. \A b \in Block : Announced(b) => HeightOf[b] <= curHeight - 1
      BY <2>2, <2>3, <3>1, <1>a, <1>b DEF Below
    <3>3. Below' /\ Passed'
      BY <2>2, <2>3, <2>5, <3>2, <1>d DEF Below, Passed
    <3> QED BY <2>2, <3>3, <1>c, <1>d
  <2> QED BY <2>4, <2>5
<1>11. ASSUME SaveHash({}) PROVE ShownInv'
  <2>1. pc = "saveHash" /\ UNCHANGED <<dbHeight, dbBlock, curHeight>>
    BY <1>11 DEF SaveHash
  <2>2. CASE ~isFork
    <3>1. pc' = "saveBlock" /\ UNCHANGED obsVars
      BY <1>11, <2>2 DEF SaveHash, AfterSave
    <3>2. RowPending /\ RowPending' /\ ~Rewinding'
      BY <2>1, <2>2, <3>1 DEF RowPending, Rewinding
    <3>3. Below' /\ Passed'
      BY <2>1, <3>1, <3>2, <1>b, <1>d DEF Below, Passed
    <3> QED BY <2>1, <3>1, <3>3, <1>c, <1>d
  <2>3. CASE isFork
    <3>1. /\ pc' = "loop"
          /\ IF forkBlock = NoBlock THEN UNCHANGED obsVars ELSE Notify(forkBlock, TRUE)
      BY <1>11, <2>3 DEF SaveHash, AfterSave
    <3>2. ~RowPending /\ ~RowPending' /\ ~Rewinding'
      BY <2>1, <2>3, <3>1 DEF RowPending, Rewinding
    <3>3. CASE forkBlock = NoBlock
      <4>1. Below' /\ Passed'
        BY <2>1, <3>1, <3>2, <3>3, <1>a, <1>b, <1>d DEF Below, Passed
      <4> QED BY <2>1, <3>1, <3>3, <4>1, <1>c, <1>d
    <3>4. CASE forkBlock # NoBlock
      <4>1. PICK x \in Block : x = forkBlock /\ Notify(x, TRUE)
        BY <3>1, <3>4, <1>a DEF TypeOK
      <4>2. /\ Len(notices)' = Len(notices) + 1
            /\ \A b : \A i \in 0..Len(notices) : Shown(b, i)' <=> Shown(b, i)
            /\ \A b : Announced(b)' <=> b # x /\ Announced(b)
        BY <4>1, <1>a, ShownAppend
      <4>3. Below' /\ Passed' /\ Rowed'
        BY <2>1, <3>2, <4>1, <4>2, <1>b DEF Below, Passed, Rowed
      <4>4. NeverTwo'
        <5>1. \A a, b \in Block :
                 Announced(a)' /\ Announced(b)' /\ HeightOf[a] = HeightOf[b] => a = b
          BY <4>2, <1>a, <1>b DEF NeverTwo, Announced
        <5> QED BY <4>2, <5>1, <1>a, <1>b, NeverTwoAppended
      <4> QED BY <4>3, <4>4, <1>c
    <3> QED BY <3>3, <3>4
  <2> QED BY <2>2, <2>3
<1>12. ASSUME NEW F, SaveBlock(F) PROVE ShownInv'
  <2>1. "db" \notin F
    BY <1>12, <1>a, SteadyFaults DEF SaveBlock
  <2>2. /\ pc = "saveBlock" /\ pc' = "loop"
        /\ dbBlock' = [dbBlock EXCEPT ![curHeight] = curHash]
        /\ dbHeight' = dbHeight
        /\ Notify(curHash, FALSE)
    BY <1>12, <2>1 DEF SaveBlock, Rows
  <2>3. dbHeight = curHeight /\ curHash \in Block /\ HeightOf[curHash] = curHeight
    BY <2>2 DEF PlaceInv, TypeInv
  <2>4. RowPending /\ ~RowPending' /\ ~Rewinding'
    BY <2>2 DEF RowPending, Rewinding
  <2>x. PICK x \in Block : x = curHash /\ Notify(x, FALSE)
    BY <2>2, <2>3
  <2>5. /\ Len(notices)' = Len(notices) + 1
        /\ \A b : \A i \in 0..Len(notices) : Shown(b, i)' <=> Shown(b, i)
        /\ \A b : Announced(b)' <=> b = x \/ Announced(b)
    BY <2>x, <1>a, ShownAppend
  <2>6. \A b \in Block : Announced(b) => HeightOf[b] <= curHeight - 1 /\ dbBlock[HeightOf[b]] = b
    BY <2>3, <2>4, <1>b DEF Below, Rowed
  <2>7. Rowed'
    <3>1. ASSUME NEW b \in Block, Announced(b) PROVE dbBlock'[HeightOf[b]] = b
      <4>1. HeightOf[b] # curHeight /\ HeightOf[b] \in Height
        BY <3>1, <2>6, <1>a, Constants
      <4> QED BY <3>1, <4>1, <2>2, <2>6, <1>a
    <3>2. dbBlock'[HeightOf[curHash]] = curHash
      BY <2>2, <2>3, <1>a
    <3> QED BY <3>1, <3>2, <2>x, <2>5 DEF Rowed
  <2>8. Below' /\ Passed'
    BY <2>2, <2>3, <2>4, <2>x, <2>5, <2>6, <1>a DEF Below, Passed
  <2>9. NeverTwo'
    <3>1. \A a, b \in Block : Announced(a)' /\ Announced(b)' /\ HeightOf[a] = HeightOf[b] => a = b
      <4>1. \A a, b \in Block : Announced(a) /\ Announced(b) /\ HeightOf[a] = HeightOf[b] => a = b
        BY <1>a, <1>b DEF NeverTwo, Announced
      <4> QED BY <2>3, <2>x, <2>5, <2>6, <4>1, <1>a
    <3> QED BY <2>5, <3>1, <1>a, <1>b, NeverTwoAppended
  <2> QED BY <2>7, <2>8, <2>9, <1>c
<1>13. ASSUME NEW F, RescanLast(F) \/ ListUnscan(F) \/ RescanFailed(F) \/ Forget(F)
       PROVE  ShownInv'
  <2>1. pc' \in {"rescan", "failed", "forget"} /\ pc \in {"rescan", "failed", "forget"}
    BY <1>13 DEF RescanLast, ListUnscan, RescanFailed, Forget
  <2>2. UNCHANGED <<dbHeight, dbBlock>> /\ UNCHANGED obsVars
    BY <1>13 DEF RescanLast, ListUnscan, RescanFailed, Forget
  <2> QED BY <2>1, <2>2, <1>e DEF RowPending
<1>14. ASSUME EndTask PROVE ShownInv'
  BY <1>14, <1>e, <1>g DEF EndTask, RowPending
<1>16. ASSUME DeliverNotice PROVE ShownInv'
  <2>1. UNCHANGED <<pc, curHeight, forkBlock, isFork, dbBlock, dbHeight>>
    BY <1>16 DEF DeliverNotice, taskVars
  <2>2. /\ Len(notices) \in Nat /\ Len(notices)' = Len(notices) - 1
        /\ \A b : \A i \in 0..Len(notices)' : Shown(b, i)' <=> Shown(b, i + 1)
        /\ \A b : Announced(b)' <=> Announced(b)
    BY <1>16, <1>a, ShownDeliver
  <2>3. (RowPending' <=> RowPending) /\ (Rewinding' <=> Rewinding)
    BY <2>1 DEF RowPending, Rewinding
  <2>4. Below' /\ Passed' /\ Rowed'
    BY <1>b, <2>1, <2>2, <2>3 DEF Below, Passed, Rowed
  <2>5. NeverTwo'
    BY <1>b, <2>2, NeverTwoDelivered
  <2> QED BY <2>4, <2>5, <1>c
<1>17. ASSUME Pause \/ Run \/ Grow \/ Reorg \/ UNCHANGED vars PROVE ShownInv'
  BY <1>17, <1>f DEF Pause, Run, Grow, Reorg, vars
<1> QED
  BY <1>1, <1>2, <1>3, <1>4, <1>5, <1>6, <1>7, <1>8, <1>9, <1>10, <1>11, <1>12,
     <1>13, <1>14, <1>16, <1>17, <1>a, NoReset, NoScan
     DEF Next, TaskStep, ClientStep

\* The withdrawal of an orphan reaches the observers before the block that
\* replaces it: however the node reorganises, however often its answers are
\* lost and whatever the queue holds, no two blocks of one height are live.
\* A client's own ScanBlock announces whatever block it fetched.
THEOREM OneAtEachHeight ==
    ASSUME Lasting, Budget["scan"] = 0
    PROVE  Spec => []OneBlockPerHeight
<1>1. TypeInv /\ ShownInv => OneBlockPerHeight
  <2> SUFFICES ASSUME TypeInv, ShownInv PROVE OneBlockPerHeight
    OBVIOUS
  <2>1. live \subseteq Block /\ 0 \in 0..Len(notices)
    BY DEF TypeInv, TypeOK
  <2>2. \A b \in live : Shown(b, 0)
    BY DEF Shown
  <2> QED BY <2>1, <2>2 DEF OneBlockPerHeight, ShownInv, NeverTwo
<1> DEFINE Inv == TypeInv /\ WrapInv /\ PlaceInv /\ ShownInv
<1>2. Init => Inv
  BY InitType, InitWrap, InitPlace, InitShown
<1>3. Inv /\ [Next]_vars => Inv'
  BY NextType, NextWrap, NextPlace, NextShown DEF Lasting
<1> QED BY <1>1, <1>2, <1>3, PTL DEF Spec

------------------------------------------------------------------------------
(* The task's distance from the recorded position. *)

\* With at most one answer lost.
OneLoss == Steady /\ Budget["rpc"] <= 1

\* Faults are only ever added to.
LEMMA SpentGrows ==
    ASSUME spent \in [Fault -> Nat], NEW F, Suffer(F)
    PROVE  /\ spent'["rpc"] >= spent["rpc"]
           /\ "rpc" \in F => spent["rpc"] < Budget["rpc"] /\ spent'["rpc"] >= 1
  BY DEF Suffer, Fault

\* The node's chain never gets shorter.
LEMMA NodeRises ==
    ASSUME tip \in Block, Grow \/ Reorg
    PROVE  NodeHeight' >= NodeHeight
<1>1. PICK b \in Block : tip' = b /\ HeightOf[b] >= HeightOf[tip]
  <2>1. CASE Grow
    <3>1. PICK b \in Block : Parent[b] = tip /\ tip' = b
      BY <2>1 DEF Grow, NodeGrows
    <3>2. b # Genesis
      BY <3>1, TreeAssumption, Constants
    <3>3. HeightOf[tip] = HeightOf[b] - 1 /\ HeightOf[b] \in Nat /\ HeightOf[tip] \in Nat
      BY <3>1, <3>2, TreeAssumption DEF Height
    <3> QED BY <3>1, <3>3
  <2>2. CASE Reorg
    BY <2>2, TreeAssumption DEF Reorg, NodeReorgs, Height
  <2> QED BY <2>1, <2>2
<1> QED BY <1>1 DEF NodeHeight

\* Below the tip, only a lost answer makes a fetch fail.
LEMMA FetchLost ==
    ASSUME tip \in Block, NEW h \in Height, h <= NodeHeight, NEW F, Fetched(h, F) = NoBlock
    PROVE  "rpc" \in F
<1>1. AncestorAt[tip][h] \in Block
  BY PathAssumption DEF NodeHeight
<1> QED BY <1>1, Constants DEF Fetched, NodeBlock

LEMMA InitStep == Init => StepInv
  BY Constants DEF Init, StepInv, Rewinding

LEMMA NextStep ==
    /\ OneLoss
    /\ TypeInv /\ WrapInv /\ PlaceInv /\ StepInv /\ [Next]_vars
    => StepInv'
<1> SUFFICES ASSUME OneLoss, TypeInv, WrapInv, PlaceInv, StepInv, [Next]_vars
             PROVE  StepInv'
  OBVIOUS
<1>a. /\ TypeOK /\ Steady
      /\ tip \in Block
      /\ dbHeight \in Nat
      /\ curHeight \in Nat /\ (pc # "freshBlock" => curHeight \in Height)
      /\ dbBlock \in [Height -> Block \cup {NoBlock}]
      /\ NoBlock \notin Block
      /\ spent \in [Fault -> Nat]
      /\ spent["rpc"] \in Nat
      /\ Budget["rpc"] \in Nat
  <2>1. "rpc" \in Fault /\ Budget \in [Fault -> Nat] /\ spent \in [Fault -> Nat]
    BY ScannerAssumption DEF TypeInv, TypeOK, Fault
  <2>2. Budget["rpc"] \in Nat /\ spent["rpc"] \in Nat
    BY <2>1
  <2> QED BY <2>1, <2>2, Constants DEF OneLoss, TypeInv, TypeOK, WrapInv, Height, Uint
<1>b. tip' = tip => NodeHeight' = NodeHeight
  BY DEF NodeHeight
<1>r. pc # "idle" => reset = NoBlock
  BY DEF PlaceInv
<1> USE DEF dbVars, clientVars
\* Where the task does not go on in the loop.
<1>e. ASSUME UNCHANGED <<dbHeight, dbHash, dbBlock, from, reset>>, pc # "saveHash",
             pc' \in {"idle", "fresh", "freshBlock", "rescan", "failed", "forget"}
      PROVE  StepInv'
  BY <1>e DEF StepInv, Rewinding
\* Where nothing that the invariant speaks of changes, but the node grows.
<1>f. ASSUME UNCHANGED <<taskVars, dbHeight, dbHash, dbBlock, from, reset>>,
             NodeHeight' >= NodeHeight, spent'["rpc"] >= spent["rpc"],
             spent'["rpc"] \in Nat, NodeHeight \in Nat, NodeHeight' \in Nat
      PROVE  StepInv'
  <2>1. UNCHANGED <<pc, curHeight, curHash, forkBlock, isFork>>
    BY <1>f DEF taskVars
  <2>2. Rewinding' <=> Rewinding
    BY <2>1 DEF Rewinding
  <2> QED BY <1>a, <1>f, <2>1, <2>2 DEF StepInv
<1>g. ASSUME Return \/ LeaveLoop PROVE pc' \in {"idle", "rescan"}
  BY <1>g DEF Return, LeaveLoop
<1>h. TypeOK' /\ NodeHeight \in Nat /\ NodeHeight' \in Nat /\ spent'["rpc"] \in Nat
  <2>1. TypeOK'
    BY NextType DEF TypeInv
  <2>2. tip' \in Block /\ spent'["rpc"] \in Nat
    BY <2>1 DEF TypeOK, Fault
  <2>3. HeightOf[tip] \in Nat /\ HeightOf[tip'] \in Nat
    BY <1>a, <2>2, Constants DEF Height
  <2> QED BY <2>1, <2>2, <2>3 DEF NodeHeight
<1>1. ASSUME NEW F, BeginTask(F) PROVE StepInv'
  <2>1. "db" \notin F
    BY <1>1, <1>a, SteadyFaults DEF BeginTask
  <2>2. CASE dbHeight = 0
    BY <1>1, <1>e, <2>1, <2>2 DEF BeginTask
  <2>3. CASE dbHeight # 0
    <3>1. /\ pc = "idle" /\ pc' = "loop" /\ reset = NoBlock
          /\ curHeight' = dbHeight /\ curHash' = dbHash
          /\ UNCHANGED <<dbHeight, dbHash, dbBlock, from>>
      BY <1>1, <2>1, <2>3 DEF BeginTask, Opened, ClientHolds
    <3> QED BY <2>3, <3>1 DEF StepInv, Rewinding
  <2> QED BY <2>2, <2>3
<1>2. ASSUME NEW F, FreshHeight(F) PROVE StepInv'
  BY <1>2, <1>e, <1>g DEF FreshHeight
<1>3. ASSUME NEW F, FreshBlock(F) PROVE StepInv'
  <2>1. CASE Fetched(curHeight, F) = NoBlock
    BY <1>3, <2>1, <1>e, <1>g DEF FreshBlock
  <2>2. CASE Fetched(curHeight, F) # NoBlock
    <3>1. /\ curHash' # NoBlock /\ HeightOf[curHash'] = curHeight
          /\ pc = "freshBlock" /\ pc' = "loop"
          /\ UNCHANGED <<dbHeight, dbHash, dbBlock, from, reset, curHeight>>
      BY <1>3, <2>2, <1>a, FetchedHeight DEF FreshBlock
    <3>2. dbHeight = 0
      BY <3>1 DEF PlaceInv
    <3> QED BY <3>1, <3>2 DEF StepInv, Rewinding
  <2> QED BY <2>1, <2>2
<1>4. ASSUME NEW F, LoopTop(F) PROVE StepInv'
  <2>1. CASE Return \/ LeaveLoop
    BY <1>4, <2>1, <1>e, <1>g DEF LoopTop
  <2>2. CASE ~(Return \/ LeaveLoop)
    <3>1. /\ pc = "loop" /\ pc' = "fetch"
          /\ curHeight' = curHeight + 1
          /\ curHeight < NodeHeight
          /\ UNCHANGED <<tip, dbHeight, dbHash, dbBlock, from, reset, curHash>>
      BY <1>4, <2>2, <1>a, <1>h DEF LoopTop, AtChainEnd
    <3>2. spent'["rpc"] >= spent["rpc"]
      BY <1>4, <1>a, SpentGrows DEF LoopTop
    <3> QED BY <3>1, <3>2, <1>a, <1>b, <1>h DEF StepInv, Rewinding
  <2> QED BY <2>1, <2>2
<1>5. ASSUME NEW F, FetchFails(F) PROVE StepInv'
  <2>1. /\ pc = "fetch" /\ pc' = "loop"
        /\ UNCHANGED <<dbHeight, dbHash, dbBlock, from, reset, curHash, curHeight>>
    BY <1>5 DEF FetchFails
  <2>2. "rpc" \in F
    BY <1>5, <1>a, <2>1, FetchLost DEF FetchFails, StepInv
  <2>3. spent["rpc"] = 0 /\ spent'["rpc"] >= 1
    BY <1>5, <1>a, <2>2, SpentGrows DEF FetchFails, OneLoss
  <2> QED BY <2>1, <2>3, <1>a DEF StepInv, Rewinding
<1>6. ASSUME NEW F, ScanNext(F) PROVE StepInv'
  <2>1. /\ pc = "fetch" /\ pc' = "saveHeight" /\ ~isFork'
        /\ Parent[curHash'] = curHash
        /\ UNCHANGED <<dbHeight, dbHash, dbBlock, from, reset, curHeight>>
    BY <1>6 DEF ScanNext
  <2> QED BY <2>1 DEF StepInv, Rewinding
<1>7. ASSUME NEW F, ForkFound(F) PROVE StepInv'
  <2>1. /\ pc = "fetch" /\ pc' = "drop"
        /\ UNCHANGED <<dbHeight, dbHash, dbBlock, from, reset, curHeight>>
    BY <1>7 DEF ForkFound
  <2>2. dbHeight # 0 => dbHeight \in {curHeight - 1, curHeight - 2}
    BY <1>r, <2>1 DEF StepInv
  <2> QED BY <2>1, <2>2 DEF StepInv, Rewinding
<1>8. ASSUME NEW F, DropRecord(F) PROVE StepInv'
  <2>1. /\ pc = "drop" /\ pc' = "rewind"
        /\ curHeight' = Rewound(curHeight)
        /\ UNCHANGED <<dbHeight, dbHash, dbBlock, from, reset>>
    BY <1>8 DEF DropRecord
  <2>2. curHeight >= 2
    BY <2>1 DEF WrapInv
  <2>3. curHeight' = IF curHeight = 2 THEN 1 ELSE curHeight - 2
    BY <2>1, <2>2, <1>a DEF Rewound, Minus
  <2>4. dbHeight # 0 => dbHeight \in {curHeight - 1, curHeight - 2}
    BY <2>1 DEF StepInv
  <2>5. dbHeight # 0 => dbHeight \in {curHeight', curHeight' + 1}
    BY <2>2, <2>3, <2>4, <1>a
  <2> QED BY <2>1, <2>5 DEF StepInv, Rewinding
<1>9. ASSUME NEW F, Rewind(F) PROVE StepInv'
  <2>1. CASE RewindBase(F) = NoBlock
    BY <1>9, <2>1, <1>e, <1>g DEF Rewind
  <2>2. CASE RewindBase(F) # NoBlock
    <3>1. /\ pc = "rewind" /\ pc' = "saveHeight" /\ isFork'
          /\ curHash' = RewindBase(F)
          /\ UNCHANGED <<dbHeight, dbHash, dbBlock, from, reset, curHeight>>
      BY <1>9, <2>2 DEF Rewind
    <3>2. "db" \notin F
      BY <1>9, <1>a, SteadyFaults DEF Rewind
    <3>3. dbBlock[curHeight] \in {NoBlock, curHash'}
      BY <3>1, <3>2, <1>a DEF RewindBase, LocalBlock
    <3> QED BY <3>1, <3>3 DEF StepInv, Rewinding
  <2> QED BY <2>1, <2>2
<1>10. ASSUME NEW F, SaveHeight(F) PROVE StepInv'
  <2>1. "db" \notin F
    BY <1>10, <1>a, SteadyFaults DEF SaveHeight
  <2>2. /\ pc = "saveHeight" /\ pc' = "saveHash"
        /\ dbHeight' = curHeight
    BY <1>10, <2>1 DEF SaveHeight
  <2>3. curHeight >= 1
    BY <2>2 DEF WrapInv
  <2> QED BY <2>2, <2>3 DEF StepInv, Rewinding
<1>11. ASSUME SaveHash({}) PROVE StepInv'
  <2>1. /\ pc = "saveHash" /\ pc' \in {"loop", "saveBlock"}
        /\ dbHash' = curHash
        /\ UNCHANGED <<dbHeight, dbBlock, from, reset, curHash, curHeight>>
    BY <1>11 DEF SaveHash, AfterSave
  <2>2. curHeight >= 1 /\ dbHeight = curHeight /\ HeightOf[curHash] = curHeight /\ curHash \in Block
    BY <2>1 DEF WrapInv, PlaceInv, TypeInv
  <2> QED BY <2>1, <2>2, <1>a DEF StepInv, Rewinding
<1>12. ASSUME NEW F, SaveBlock(F) PROVE StepInv'
  <2>1. /\ pc = "saveBlock" /\ pc' = "loop"
        /\ UNCHANGED <<dbHeight, dbHash, from, reset, curHash, curHeight>>
    BY <1>12 DEF SaveBlock
  <2>2. curHeight >= 1 /\ dbHeight = curHeight /\ HeightOf[curHash] = curHeight /\ curHash \in Block
    BY <2>1 DEF WrapInv, PlaceInv, TypeInv
  <2> QED BY <2>1, <2>2, <1>a DEF StepInv, Rewinding
<1>13. ASSUME NEW F, RescanLast(F) \/ ListUnscan(F) \/ RescanFailed(F) \/ Forget(F)
       PROVE  StepInv'
  <2>1. pc' \in {"rescan", "failed", "forget"} /\ pc \in {"rescan", "failed", "forget"}
    BY <1>13 DEF RescanLast, ListUnscan, RescanFailed, Forget
  <2>2. UNCHANGED <<dbHeight, dbHash, dbBlock, from, reset>>
    BY <1>13 DEF RescanLast, ListUnscan, RescanFailed, Forget
  <2> QED BY <2>1, <2>2, <1>e
<1>14. ASSUME EndTask PROVE StepInv'
  BY <1>14, <1>e, <1>g DEF EndTask
<1>15. ASSUME NEW F, ScanBlock(F) \/ ScanBlockExtract(F) \/ ScanBlockNotify \/ ResetAsks
       PROVE  StepInv'
  <2>1. spent'["rpc"] >= spent["rpc"]
    <3>1. CASE ScanBlockNotify
      BY <3>1, <1>a DEF ScanBlockNotify
    <3>2. CASE ~ScanBlockNotify
      <4>1. PICK G : Suffer(G)
        BY <1>15, <3>2 DEF ScanBlock, ScanBlockExtract, ResetAsks
      <4> QED BY <4>1, <1>a, SpentGrows
    <3> QED BY <3>1, <3>2
  <2>2. UNCHANGED <<tip, taskVars, dbHeight, dbHash, dbBlock, from, reset>>
    BY <1>15 DEF ScanBlock, ScanBlockExtract, ScanBlockNotify, ResetAsks
  <2> QED BY <2>1, <2>2, <1>b, <1>f, <1>h
<1>16. ASSUME DeliverNotice \/ Run \/ UNCHANGED vars PROVE StepInv'
  BY <1>16, <1>a, <1>b, <1>f, <1>h DEF DeliverNotice, Run, vars
<1>17. ASSUME Pause PROVE StepInv'
  <2>1. spent'["rpc"] >= spent["rpc"]
    BY <1>17, <1>a, SpentGrows DEF Pause
  <2> QED BY <1>17, <2>1, <1>b, <1>f, <1>h DEF Pause
<1>18. ASSUME Grow \/ Reorg PROVE StepInv'
  <2>1. spent'["rpc"] >= spent["rpc"]
    BY <1>18, <1>a, SpentGrows DEF Grow, Reorg
  <2> QED BY <1>18, <2>1, <1>a, <1>f, <1>h, NodeRises DEF Grow, Reorg
<1>19. ASSUME NEW F, ResetHeight(F) PROVE StepInv'
  BY <1>19, <1>a, ResetBetween DEF StepInv, Rewinding, taskVars
<1>20. ASSUME ResetHash PROVE StepInv'
  <2>1. /\ pc = "idle" /\ HeightOf[reset] = dbHeight /\ dbHeight # 0
        /\ dbHash' = reset /\ reset # NoBlock
        /\ UNCHANGED <<taskVars, dbHeight, dbBlock, from, spent, tip>>
    BY <1>20 DEF ResetHash, PlaceInv
  <2>2. NodeHeight' = NodeHeight
    BY <1>b, <2>1
  <2> QED BY <2>1, <2>2 DEF StepInv, Rewinding, taskVars
<1> QED
  BY <1>1, <1>2, <1>3, <1>4, <1>5, <1>6, <1>7, <1>8, <1>9, <1>10, <1>11, <1>12,
     <1>13, <1>14, <1>15, <1>16, <1>17, <1>18, <1>19, <1>20, <1>a, NoCrash
     DEF Next, TaskStep, ClientStep

------------------------------------------------------------------------------
(* The rows of the Block table. *)

\* The ancestors of a block's parent are the block's own.
LEMMA ParentPath ==
    ASSUME NEW b \in Block, HeightOf[b] # 0
    PROVE  /\ AncestorAt[b][HeightOf[b] - 1] = Parent[b]
           /\ \A h \in Height : h <= HeightOf[b] - 1 =>
                 AncestorAt[Parent[b]][h] = AncestorAt[b][h]
<1>1. HeightOf[b] \in Height /\ HeightOf[b] \in Nat /\ HeightOf[b] - 1 \in Height
  BY Constants DEF Height
<1>2. b # Genesis /\ Parent[b] \in Block /\ HeightOf[Parent[b]] = HeightOf[b] - 1
  BY TreeAssumption
<1>3. \A h \in Height : h <= HeightOf[b] - 1 => AncestorAt[Parent[b]][h] = AncestorAt[b][h]
  BY <1>1, PathAssumption, Constants DEF Height
<1>4. AncestorAt[Parent[b]][HeightOf[b] - 1] = Parent[b]
  BY <1>1, <1>2, PathAssumption
<1> QED BY <1>1, <1>3, <1>4

LEMMA InitLink == Init => LinkInv
  BY DEF Init, LinkInv

LEMMA NextLink ==
    /\ OneLoss
    /\ TypeInv /\ WrapInv /\ PlaceInv /\ StepInv /\ LinkInv /\ [Next]_vars
    => LinkInv'
<1> SUFFICES ASSUME OneLoss, TypeInv, WrapInv, PlaceInv, StepInv, LinkInv, [Next]_vars
             PROVE  LinkInv'
  OBVIOUS
<1>a. /\ TypeOK /\ Steady
      /\ dbHeight \in Nat
      /\ curHeight \in Nat /\ (pc # "freshBlock" => curHeight \in Height)
      /\ dbBlock \in [Height -> Block \cup {NoBlock}]
      /\ dbHash \in Block \cup {NoBlock}
      /\ NoBlock \notin Block
      /\ HeightOf \in [Block -> Height]
      /\ Height \subseteq Nat
      /\ from \in Nat
  BY Constants DEF OneLoss, TypeInv, TypeOK, WrapInv, Height, Uint
<1>l. Low \in Nat /\ (from' \in {from} => Low' = Low)
  BY <1>a DEF Low
<1>r. pc # "idle" => reset = NoBlock
  BY DEF PlaceInv
<1> USE DEF dbVars, clientVars
\* Where neither the position nor the table changes.
<1>e. ASSUME UNCHANGED <<dbHeight, dbHash, dbBlock, from>>,
             ~RowPending, pc # "saveHash", pc' \notin {"saveHash", "saveBlock"}
      PROVE  LinkInv'
  <2>1. ~RowPending'
    BY <1>e DEF RowPending
  <2>2. Top' = Top /\ PosHash' = PosHash
    BY <1>e, <2>1 DEF Top, PosHash
  <2> QED BY <1>e, <1>l, <2>2 DEF LinkInv
<1>f. ASSUME UNCHANGED <<taskVars, dbHeight, dbHash, dbBlock, from>>
      PROVE  LinkInv'
  <2>1. RowPending' <=> RowPending
    BY <1>f DEF RowPending, taskVars
  <2>2. Top' = Top /\ PosHash' = PosHash
    BY <1>f, <2>1 DEF Top, PosHash, taskVars
  <2> QED BY <1>f, <1>l, <2>2 DEF LinkInv
<1>g. ASSUME Return \/ LeaveLoop PROVE pc' \in {"idle", "rescan"}
  BY <1>g DEF Return, LeaveLoop
<1>1. ASSUME NEW F, BeginTask(F) PROVE LinkInv'
  BY <1>1, <1>e DEF BeginTask, RowPending
<1>2. ASSUME NEW F, FreshHeight(F) PROVE LinkInv'
  BY <1>2, <1>e, <1>g DEF FreshHeight, RowPending
<1>3. ASSUME NEW F, FreshBlock(F) PROVE LinkInv'
  BY <1>3, <1>e, <1>g DEF FreshBlock, RowPending
<1>4. ASSUME NEW F, LoopTop(F) PROVE LinkInv'
  <2>1. pc' \in {"idle", "rescan", "fetch"}
    BY <1>4, <1>g DEF LoopTop
  <2> QED BY <1>4, <2>1, <1>e DEF LoopTop, RowPending
<1>5. ASSUME NEW F, FetchFails(F) PROVE LinkInv'
  BY <1>5, <1>e DEF FetchFails, RowPending
<1>6. ASSUME NEW F, ScanNext(F) PROVE LinkInv'
  BY <1>6, <1>e DEF ScanNext, RowPending
<1>7. ASSUME NEW F, ForkFound(F) PROVE LinkInv'
  BY <1>7, <1>e DEF ForkFound, RowPending
<1>8. ASSUME NEW F, DropRecord(F) PROVE LinkInv'
  BY <1>8, <1>e DEF DropRecord, RowPending
<1>9. ASSUME NEW F, Rewind(F) PROVE LinkInv'
  <2>1. pc = "rewind" /\ pc' \in {"rescan", "saveHeight"}
    BY <1>9 DEF Rewind, LeaveLoop
  <2> QED BY <1>9, <2>1, <1>e DEF Rewind, RowPending
<1>10. ASSUME NEW F, SaveHeight(F) PROVE LinkInv'
  <2>1. "db" \notin F
    BY <1>10, <1>a, SteadyFaults DEF SaveHeight
  <2>2. /\ pc = "saveHeight" /\ pc' = "saveHash"
        /\ dbHeight' = curHeight
        /\ UNCHANGED <<curHeight, curHash, isFork, dbHash, dbBlock>>
        /\ from # 0 => from' = from
    BY <1>10, <2>1 DEF SaveHeight
  <2>3. /\ curHeight >= 1
        /\ curHash \in Block /\ HeightOf[curHash] = curHeight
    BY <2>2 DEF WrapInv, TypeInv, PlaceInv
  <2>4. Top = dbHeight /\ PosHash = dbHash /\ PosHash' = curHash
    BY <2>2 DEF Top, PosHash, RowPending
  <2>5. CASE dbHeight = 0
    <3>1. \A h \in Height : dbBlock'[h] = NoBlock
      BY <2>2, <2>5 DEF LinkInv
    <3> QED BY <3>1 DEF LinkInv
  <2>6. CASE dbHeight # 0
    <3>1. dbHash \in Block /\ HeightOf[dbHash] = dbHeight
      BY <2>2, <2>6, <1>a, <1>r DEF StepInv
    <3>2. \A h \in Height : h >= Low /\ h <= dbHeight /\ dbBlock[h] # NoBlock =>
             /\ dbBlock[h] = AncestorAt[dbHash][h]
             /\ \A i \in h..dbHeight : dbBlock[i] # NoBlock
      BY <2>4, <2>6 DEF LinkInv
    <3>l. Low' = Low \/ Low = 0
      BY <2>2 DEF Low
    <3>3. SUFFICES ASSUME NEW h \in Height, h >= Low, h <= Top', dbBlock[h] # NoBlock
                   PROVE  /\ dbBlock[h] = AncestorAt[curHash][h]
                          /\ \A i \in h..Top' : dbBlock[i] # NoBlock
      BY <2>2, <2>3, <2>4, <3>l, <1>a DEF LinkInv
    <3>4. CASE ~isFork
      <4>1. Parent[curHash] = dbHash
        BY <2>2, <2>6, <3>4 DEF StepInv
      <4>2. dbHeight = curHeight - 1 /\ Top' = curHeight - 1
        <5>1. curHash # Genesis /\ HeightOf[Parent[curHash]] = HeightOf[curHash] - 1
          BY <2>3, TreeAssumption
        <5> QED BY <2>2, <2>3, <3>1, <3>4, <4>1, <5>1 DEF Top, RowPending
      <4> QED BY <2>3, <3>2, <3>3, <4>1, <4>2, ParentPath
    <3>5. CASE isFork
      <4>1. Top' = curHeight /\ dbHeight \in {curHeight, curHeight + 1}
        BY <2>2, <2>6, <3>5 DEF Top, RowPending, StepInv, Rewinding
      <4>2. dbBlock[h] = AncestorAt[dbHash][h] /\ \A i \in h..dbHeight : dbBlock[i] # NoBlock
        BY <3>2, <3>3, <4>1, <1>a
      <4>3. \A i \in h..curHeight : dbBlock[i] # NoBlock
        BY <4>1, <4>2, <1>a
      <4>4. dbBlock[curHeight] = curHash
        BY <2>2, <3>3, <3>5, <4>1, <4>3, <1>a DEF StepInv
      <4>5. dbBlock[curHeight] = AncestorAt[dbHash][curHeight]
        BY <2>3, <3>2, <3>3, <4>1, <4>4, <1>a, <1>l
      <4>6. CASE dbHeight = curHeight
        <5>1. AncestorAt[dbHash][curHeight] = dbHash
          BY <3>1, <4>6, <1>a, PathAssumption
        <5> QED BY <4>1, <4>2, <4>3, <4>4, <4>5, <5>1
      <4>7. CASE dbHeight = curHeight + 1
        <5>1. curHash = Parent[dbHash]
          BY <2>6, <3>1, <4>4, <4>5, <4>7, <1>a, ParentPath
        <5>2. AncestorAt[curHash][h] = AncestorAt[dbHash][h]
          BY <2>6, <3>1, <3>3, <4>1, <4>7, <5>1, <1>a, ParentPath
        <5> QED BY <4>1, <4>2, <4>3, <5>2
      <4> QED BY <4>1, <4>6, <4>7
    <3> QED BY <3>4, <3>5
  <2> QED BY <2>5, <2>6
<1>11. ASSUME SaveHash({}) PROVE LinkInv'
  <2>1. /\ pc = "saveHash" /\ pc' = IF isFork THEN "loop" ELSE "saveBlock"
        /\ dbHash' = curHash
        /\ UNCHANGED <<dbHeight, dbBlock, from>>
    BY <1>11 DEF SaveHash, AfterSave
  <2>2. RowPending' <=> RowPending
    BY <2>1 DEF RowPending
  <2>3. Top' = Top /\ PosHash' = PosHash
    BY <2>1, <2>2 DEF Top, PosHash
  <2> QED BY <1>l, <2>1, <2>3 DEF LinkInv
<1>12. ASSUME NEW F, SaveBlock(F) PROVE LinkInv'
  <2>1. "db" \notin F
    BY <1>12, <1>a, SteadyFaults DEF SaveBlock
  <2>2. /\ pc = "saveBlock" /\ pc' = "loop"
        /\ dbBlock' = [dbBlock EXCEPT ![curHeight] = curHash]
        /\ UNCHANGED <<dbHeight, dbHash, curHeight, curHash, from>>
    BY <1>12, <2>1 DEF SaveBlock, Rows
  <2>3. /\ curHeight >= 1 /\ dbHeight = curHeight
        /\ curHash \in Block /\ HeightOf[curHash] = curHeight
        /\ dbHash = curHash
    BY <2>2 DEF WrapInv, TypeInv, PlaceInv, StepInv
  <2>l. Low' = Low
    BY <1>l, <2>2
  <2>4. /\ Top = curHeight - 1 /\ PosHash = curHash
        /\ Top' = curHeight /\ PosHash' = curHash
    BY <2>2, <2>3 DEF Top, PosHash, RowPending
  <2>5. SUFFICES ASSUME NEW h \in Height, h >= Low, h <= curHeight, dbBlock'[h] # NoBlock
                 PROVE  /\ dbBlock'[h] = AncestorAt[curHash][h]
                        /\ \A i \in h..curHeight : dbBlock'[i] # NoBlock
    BY <2>2, <2>3, <2>4, <2>l DEF LinkInv
  <2>6. dbBlock'[curHeight] = curHash /\ AncestorAt[curHash][curHeight] = curHash
    BY <2>2, <2>3, <1>a, PathAssumption
  <2>7. \A i \in Height : i # curHeight => dbBlock'[i] = dbBlock[i]
    BY <2>2, <1>a
  <2>8. CASE h = curHeight
    BY <2>3, <2>6, <2>8, <1>a
  <2>9. CASE h # curHeight
    <3>1. dbBlock[h] = AncestorAt[curHash][h] /\ \A i \in h..(curHeight - 1) : dbBlock[i] # NoBlock
      BY <2>3, <2>4, <2>5, <2>7, <2>9, <1>a DEF LinkInv
    <3>2. ASSUME NEW i \in h..curHeight PROVE dbBlock'[i] # NoBlock
      <4>1. i \in Height
        BY <2>2, <1>a, Constants DEF Height
      <4>2. CASE i = curHeight
        BY <2>3, <2>6, <4>2, <1>a
      <4>3. CASE i # curHeight
        <5>1. i \in h..(curHeight - 1)
          BY <4>3, <1>a
        <5> QED BY <2>7, <3>1, <4>1, <4>3, <5>1
      <4> QED BY <4>2, <4>3
    <3> QED BY <2>7, <2>9, <3>1, <3>2
  <2> QED BY <2>8, <2>9
<1>13. ASSUME NEW F, RescanLast(F) \/ ListUnscan(F) \/ RescanFailed(F) \/ Forget(F)
       PROVE  LinkInv'
  <2>1. pc' \in {"rescan", "failed", "forget"} /\ pc \in {"rescan", "failed", "forget"}
    BY <1>13 DEF RescanLast, ListUnscan, RescanFailed, Forget
  <2>2. UNCHANGED <<dbHeight, dbHash, dbBlock, from>>
    BY <1>13 DEF RescanLast, ListUnscan, RescanFailed, Forget
  <2> QED BY <2>1, <2>2, <1>e DEF RowPending
<1>14. ASSUME EndTask PROVE LinkInv'
  BY <1>14, <1>e, <1>g DEF EndTask, RowPending
<1>15. ASSUME NEW F, ScanBlock(F) \/ ScanBlockExtract(F) \/ ScanBlockNotify \/ ResetAsks
       PROVE  LinkInv'
  BY <1>15, <1>f DEF ScanBlock, ScanBlockExtract, ScanBlockNotify, ResetAsks
<1>16. ASSUME DeliverNotice \/ Pause \/ Run \/ Grow \/ Reorg \/ UNCHANGED vars
       PROVE  LinkInv'
  BY <1>16, <1>f DEF DeliverNotice, Pause, Run, Grow, Reorg, vars
\* After a reset nothing at or above Low is below the position.
<1>17. ASSUME NEW F, ResetHeight(F) PROVE LinkInv'
  <2>1. /\ Budget["reset"] # 0 /\ pc' = "idle"
        /\ dbHeight' \in Nat \ {0} /\ from' = dbHeight' + 1
    BY <1>17, <1>a, ResetBetween DEF taskVars
  <2>2. Top' = dbHeight' /\ Low' = dbHeight' + 1
    BY <2>1 DEF Top, Low, RowPending
  <2>3. \A h \in Height : ~(h >= Low' /\ h <= Top')
    <3>1. PICK d \in Nat : dbHeight' = d
      BY <2>1
    <3> QED BY <2>2, <3>1, <1>a
  <2> QED BY <2>1, <2>3 DEF LinkInv
<1>18. ASSUME ResetHash PROVE LinkInv'
  <2>1. /\ pc' = "idle" /\ Budget["reset"] # 0
        /\ dbHeight' = dbHeight /\ dbHeight # 0 /\ from' = dbHeight + 1
    BY <1>18 DEF ResetHash, PlaceInv, taskVars
  <2>2. Top' = dbHeight /\ Low' = dbHeight + 1
    BY <2>1 DEF Top, Low, RowPending
  <2>3. \A h \in Height : ~(h >= Low' /\ h <= Top')
    BY <2>2, <1>a
  <2> QED BY <2>1, <2>3 DEF LinkInv
<1> QED
  BY <1>1, <1>2, <1>3, <1>4, <1>5, <1>6, <1>7, <1>8, <1>9, <1>10, <1>11, <1>12,
     <1>13, <1>14, <1>15, <1>16, <1>17, <1>18, <1>a, NoCrash
     DEF Next, TaskStep, ClientStep

\* From the height last asked for, the rows up to the recorded position are the
\* chain that ends there, whatever the node reorganises, the observers refuse
\* and clients reset between two tasks, as long as no second answer of the node
\* is lost: a rewind continues from the right hash and withdraws the right
\* orphan.
THEOREM TableIsLinked ==
    ASSUME OneLoss
    PROVE  Spec => []TableLinked
<1>1. TypeInv /\ WrapInv /\ StepInv /\ LinkInv => TableLinked
  <2> SUFFICES ASSUME TypeInv, WrapInv, StepInv, LinkInv, from # 0, pc = "loop",
                      NEW h \in from..dbHeight
               PROVE  dbBlock[h] \in {NoBlock, AncestorAt[dbHash][h]}
    BY DEF TableLinked
  <2>1. dbHeight # 0 /\ h \in Height /\ h >= Low /\ h <= dbHeight
    BY Constants DEF StepInv, TypeInv, TypeOK, WrapInv, Height, Low
  <2>2. Top = dbHeight /\ PosHash = dbHash
    BY DEF Top, PosHash, RowPending
  <2> QED BY <2>1, <2>2 DEF LinkInv
<1> DEFINE Inv == TypeInv /\ WrapInv /\ PlaceInv /\ StepInv /\ LinkInv
<1>2. Init => Inv
  BY InitType, InitWrap, InitPlace, InitStep, InitLink
<1>3. Inv /\ [Next]_vars => Inv'
  BY NextType, NextWrap, NextPlace, NextStep, NextLink DEF OneLoss
<1> QED BY <1>1, <1>2, <1>3, PTL DEF Spec

\* Once the queue is drained and the task is outside a rewind, the observers
\* hold only blocks of the chain that ends in the recorded block, after any
\* number of reorganisations, as long as no second answer is lost.
THEOREM AnnouncedIsOnChain ==
    ASSUME OneLoss, Budget["reset"] = 0, Budget["scan"] = 0
    PROVE  Spec => []AnnouncedOnChain
<1> DEFINE Inv == TypeInv /\ WrapInv /\ PlaceInv /\ ShownInv /\ StepInv /\ LinkInv
<1>1. Inv => AnnouncedOnChain
  <2> SUFFICES ASSUME Inv, notices = <<>>, pc \in {"idle", "loop"}, dbHash # NoBlock,
                      NEW b \in live
               PROVE  b \in PathTo(dbHash)
    BY DEF AnnouncedOnChain
  <2>1. b \in Block /\ Announced(b)
    BY DEF TypeInv, TypeOK, Announced, Shown
  <2>2. ~RowPending /\ Top = dbHeight /\ PosHash = dbHash
    BY DEF RowPending, Top, PosHash
  <2>3. dbBlock[HeightOf[b]] = b /\ HeightOf[b] <= dbHeight
    BY <2>1, <2>2 DEF ShownInv
  <2>4. dbHeight # 0 /\ HeightOf[dbHash] = dbHeight
    BY DEF StepInv, PlaceInv
  <2>5. HeightOf[b] \in Height /\ b # NoBlock
    BY <2>1, Constants
  <2>6. b = AncestorAt[dbHash][HeightOf[b]]
    <3>1. Low = 0 /\ HeightOf[b] >= Low
      BY <2>5, Constants DEF Low, Height
    <3> QED BY <2>2, <2>3, <2>4, <2>5, <3>1 DEF LinkInv
  <2>7. HeightOf[b] \in 0..HeightOf[dbHash]
    BY <2>3, <2>4, <2>5, Constants DEF Height, WrapInv
  <2> QED BY <2>6, <2>7 DEF PathTo
<1>2. Init => Inv
  BY InitType, InitWrap, InitPlace, InitShown, InitStep, InitLink
<1>3. Inv /\ [Next]_vars => Inv'
  BY NextType, NextWrap, NextPlace, NextShown, NextStep, NextLink DEF OneLoss, Lasting
<1> QED BY <1>1, <1>2, <1>3, PTL DEF Spec

------------------------------------------------------------------------------
(* What was delivered. *)

\* With at most one answer lost and observers that accept what they are given.
OneLossAccepted == OneLoss /\ Budget["refuse"] = 0

LEMMA NeverRefused ==
    ASSUME Budget["refuse"] = 0, spent \in [Fault -> Nat], NEW F, Suffer(F)
    PROVE  "refuse" \notin F
<1>1. spent["refuse"] \in Nat
  BY DEF Fault
<1> QED BY <1>1 DEF Suffer

\* An accepted extraction leaves the block delivered, or it is empty.
LEMMA ExtractAccepted ==
    ASSUME NEW b, NEW h, NEW holder, NEW F, "refuse" \notin F, Extract(b, h, holder, F)
    PROVE  extracted \subseteq extracted' /\ b \in extracted' \cup EmptyBlocks
  BY DEF Extract

LEMMA ScanOneAccepted ==
    ASSUME NEW h, NEW holder, NEW F, "refuse" \notin F, ScanOne(h, holder, F)
    PROVE  extracted \subseteq extracted'
  BY ExtractAccepted DEF ScanOne

LEMMA InitRow == Init => RowInv
  BY DEF Init, RowInv, RowPending

LEMMA NextRow ==
    /\ OneLossAccepted
    /\ TypeInv /\ WrapInv /\ PlaceInv /\ StepInv /\ LinkInv /\ RowInv /\ [Next]_vars
    => RowInv'
<1> SUFFICES ASSUME OneLossAccepted, TypeInv, WrapInv, PlaceInv, StepInv, LinkInv, RowInv,
                    [Next]_vars
             PROVE  RowInv'
  OBVIOUS
<1>a. /\ TypeOK /\ Steady /\ Budget["refuse"] = 0
      /\ dbHeight \in Nat
      /\ from \in Nat
      /\ curHeight \in Nat /\ (pc # "freshBlock" => curHeight \in Height)
      /\ dbBlock \in [Height -> Block \cup {NoBlock}]
      /\ spent \in [Fault -> Nat]
      /\ NoBlock \notin Block
      /\ HeightOf \in [Block -> Height]
      /\ Height \subseteq Nat
  BY Constants DEF OneLossAccepted, OneLoss, TypeInv, TypeOK, WrapInv, Height, Uint
<1>r. pc # "idle" => reset = NoBlock
  BY DEF PlaceInv
<1> USE DEF dbVars, clientVars
\* Where neither the position nor the table changes.
<1>e. ASSUME UNCHANGED <<dbHeight, dbHash, dbBlock, from>>, extracted \subseteq extracted',
             ~RowPending, pc # "saveHash", pc' \notin {"saveHash", "saveBlock"},
             pc' = "saveHeight" /\ ~isFork' => curHash' \in extracted' \cup EmptyBlocks
      PROVE  RowInv'
  <2>1. ~RowPending'
    BY <1>e DEF RowPending
  <2>2. Top' = Top
    BY <1>e, <2>1 DEF Top
  <2> QED BY <1>e, <2>1, <2>2 DEF RowInv
<1>f. ASSUME UNCHANGED <<taskVars, dbHeight, dbHash, dbBlock, from>>,
             extracted \subseteq extracted'
      PROVE  RowInv'
  <2>1. UNCHANGED <<pc, isFork, curHash>>
    BY <1>f DEF taskVars
  <2>2. RowPending' <=> RowPending
    BY <2>1 DEF RowPending
  <2>3. Top' = Top
    BY <1>f, <2>2 DEF Top
  <2> QED BY <1>f, <2>1, <2>2, <2>3 DEF RowInv
<1>g. ASSUME Return \/ LeaveLoop PROVE pc' \in {"idle", "rescan"}
  BY <1>g DEF Return, LeaveLoop
<1>1. ASSUME NEW F, BeginTask(F) PROVE RowInv'
  BY <1>1, <1>e DEF BeginTask, RowPending
<1>2. ASSUME NEW F, FreshHeight(F) PROVE RowInv'
  BY <1>2, <1>e, <1>g DEF FreshHeight, RowPending
<1>3. ASSUME NEW F, FreshBlock(F) PROVE RowInv'
  BY <1>3, <1>e, <1>g DEF FreshBlock, RowPending
<1>4. ASSUME NEW F, LoopTop(F) PROVE RowInv'
  <2>1. pc' \in {"idle", "rescan", "fetch"}
    BY <1>4, <1>g DEF LoopTop
  <2> QED BY <1>4, <2>1, <1>e DEF LoopTop, RowPending
<1>5. ASSUME NEW F, FetchFails(F) PROVE RowInv'
  BY <1>5, <1>e DEF FetchFails, RowPending
<1>6. ASSUME NEW F, ScanNext(F) PROVE RowInv'
  <2>1. "refuse" \notin F
    BY <1>6, <1>a, NeverRefused DEF ScanNext
  <2>2. extracted \subseteq extracted' /\ curHash' \in extracted' \cup EmptyBlocks
    BY <1>6, <2>1, ExtractAccepted DEF ScanNext
  <2> QED BY <1>6, <2>2, <1>e DEF ScanNext, RowPending
<1>7. ASSUME NEW F, ForkFound(F) PROVE RowInv'
  BY <1>7, <1>e DEF ForkFound, RowPending
<1>8. ASSUME NEW F, DropRecord(F) PROVE RowInv'
  BY <1>8, <1>e DEF DropRecord, RowPending
<1>9. ASSUME NEW F, Rewind(F) PROVE RowInv'
  <2>1. pc = "rewind" /\ (pc' = "rescan" \/ (pc' = "saveHeight" /\ isFork'))
    BY <1>9 DEF Rewind, LeaveLoop
  <2> QED BY <1>9, <2>1, <1>e DEF Rewind, RowPending
<1>10. ASSUME NEW F, SaveHeight(F) PROVE RowInv'
  <2>1. "db" \notin F
    BY <1>10, <1>a, SteadyFaults DEF SaveHeight
  <2>2. /\ pc = "saveHeight" /\ pc' = "saveHash"
        /\ dbHeight' = curHeight
        /\ from' = IF from # 0 THEN from ELSE IF isFork THEN curHeight + 1 ELSE curHeight
        /\ UNCHANGED <<curHeight, curHash, isFork, dbHash, dbBlock, extracted>>
    BY <1>10, <2>1 DEF SaveHeight
  <2>3. /\ curHeight >= 1
        /\ curHash \in Block /\ HeightOf[curHash] = curHeight
    BY <2>2 DEF WrapInv, TypeInv, PlaceInv
  <2>4. /\ Top = dbHeight /\ PosHash = dbHash
        /\ Top' = IF isFork THEN curHeight ELSE curHeight - 1
        /\ RowPending' <=> ~isFork
    BY <2>2 DEF Top, PosHash, RowPending
  <2>5. dbHeight # 0 => dbHash \in Block /\ HeightOf[dbHash] = dbHeight
    BY <2>2, <1>r DEF StepInv, TypeInv, TypeOK
  <2>6. ~isFork /\ dbHeight # 0 => dbHeight = curHeight - 1
    <3> SUFFICES ASSUME ~isFork, dbHeight # 0 PROVE dbHeight = curHeight - 1
      OBVIOUS
    <3>1. Parent[curHash] = dbHash
      BY <2>2 DEF StepInv
    <3>2. curHash # Genesis /\ HeightOf[Parent[curHash]] = HeightOf[curHash] - 1
      BY <2>3, TreeAssumption
    <3> QED BY <2>3, <2>5, <3>1, <3>2
  <2>7. isFork /\ dbHeight # 0 => dbHeight \in {curHeight, curHeight + 1}
    BY <2>2 DEF StepInv, Rewinding
  <2>8. from # 0 => dbHeight # 0
    BY DEF StepInv
  <2>9. from' # 0 => \A h \in from'..Top' :
           dbBlock[h] # NoBlock /\ dbBlock[h] \in extracted \cup EmptyBlocks
    <3>1. CASE from = 0
      BY <2>2, <2>3, <2>4, <3>1, <1>a
    <3>2. CASE from # 0
      <4>1. \A h \in from..dbHeight :
               dbBlock[h] # NoBlock /\ dbBlock[h] \in extracted \cup EmptyBlocks
        BY <2>4, <3>2 DEF RowInv
      <4>2. Top' <= dbHeight
        BY <2>4, <2>6, <2>7, <2>8, <3>2, <1>a
      <4>3. Top' \in Int
        BY <2>4, <1>a
      <4> QED BY <2>2, <3>2, <4>1, <4>2, <4>3, <1>a
    <3> QED BY <3>1, <3>2
  <2>10. RowPending' => curHash \in extracted \cup EmptyBlocks
    BY <2>2, <2>4 DEF RowInv
  <2>11. ASSUME dbHash # NoBlock, HeightOf[dbHash] = curHeight, curHeight >= from'
         PROVE  isFork /\ (dbBlock[curHeight] # NoBlock => dbHash = curHash)
    <3>1. dbHeight # 0
      BY <2>11 DEF StepInv
    <3>2. dbHeight = curHeight
      BY <2>5, <2>11, <3>1
    <3>3. isFork
      BY <2>3, <2>6, <3>1, <3>2, <1>a
    <3>4. ASSUME dbBlock[curHeight] # NoBlock PROVE dbHash = curHash
      <4>1. dbBlock[curHeight] = AncestorAt[dbHash][curHeight]
        <5>1. curHeight >= Low
          BY <2>2, <2>11, <1>a DEF Low
        <5>2. curHeight \in Height /\ curHeight <= Top
          BY <2>2, <2>4, <3>2, <1>a
        <5> QED BY <2>4, <3>1, <3>4, <5>1, <5>2 DEF LinkInv
      <4>2. AncestorAt[dbHash][curHeight] = dbHash
        BY <2>5, <2>11, <3>1, <1>a, PathAssumption
      <4> QED BY <2>2, <3>3, <3>4, <4>1, <4>2 DEF StepInv
    <3> QED BY <3>3, <3>4
  <2> QED BY <2>2, <2>9, <2>10, <2>11 DEF RowInv
<1>11. ASSUME SaveHash({}) PROVE RowInv'
  <2>1. /\ pc = "saveHash" /\ pc' = IF isFork THEN "loop" ELSE "saveBlock"
        /\ UNCHANGED <<dbHeight, dbBlock, extracted, from, curHash>>
    BY <1>11 DEF SaveHash, AfterSave
  <2>2. RowPending' <=> RowPending
    BY <2>1 DEF RowPending
  <2>3. Top' = Top
    BY <2>1, <2>2 DEF Top
  <2>4. pc' # "saveHash" /\ pc' # "saveHeight"
    BY <2>1
  <2> QED BY <2>1, <2>2, <2>3, <2>4 DEF RowInv
<1>12. ASSUME NEW F, SaveBlock(F) PROVE RowInv'
  <2>1. "db" \notin F
    BY <1>12, <1>a, SteadyFaults DEF SaveBlock
  <2>2. /\ pc = "saveBlock" /\ pc' = "loop"
        /\ dbBlock' = [dbBlock EXCEPT ![curHeight] = curHash]
        /\ UNCHANGED <<dbHeight, from, extracted>>
    BY <1>12, <2>1 DEF SaveBlock, Rows
  <2>3. dbHeight = curHeight /\ curHash \in Block
    BY <2>2 DEF TypeInv, PlaceInv
  <2>4. Top = curHeight - 1 /\ Top' = curHeight /\ RowPending /\ ~RowPending'
    BY <2>2, <2>3 DEF Top, RowPending
  <2>5. curHash \in extracted \cup EmptyBlocks
    BY <2>4 DEF RowInv
  <2>7. ASSUME from # 0, NEW h \in from..curHeight
        PROVE  dbBlock'[h] # NoBlock /\ dbBlock'[h] \in extracted \cup EmptyBlocks
    <3>1. h \in Height
      BY <2>2, <2>7, <1>a, Constants DEF Height
    <3>2. CASE h = curHeight
      BY <2>2, <2>3, <2>5, <3>2, <1>a
    <3>3. CASE h # curHeight
      <4>1. h \in from..(curHeight - 1)
        BY <2>7, <3>3, <1>a
      <4> QED BY <2>2, <2>4, <2>7, <3>1, <3>3, <4>1, <1>a DEF RowInv
    <3> QED BY <3>2, <3>3
  <2> QED BY <2>2, <2>4, <2>7 DEF RowInv
<1>13. ASSUME NEW F, RescanLast(F) \/ RescanFailed(F) PROVE RowInv'
  <2>1. "refuse" \notin F
    BY <1>13, <1>a, NeverRefused DEF RescanLast, RescanFailed
  <2>2. extracted \subseteq extracted'
    <3>1. CASE RescanLast(F)
      BY <2>1, <3>1, ScanOneAccepted DEF RescanLast
    <3>2. CASE RescanFailed(F)
      <4>1. PICK h \in todo :
               IF Fetched(h, F) = NoBlock \/ Fetched(h, F) \in EmptyBlocks
               THEN UNCHANGED extracted
               ELSE Extract(Fetched(h, F), h, ClientHolds, F)
        BY <3>2, Zenon DEF RescanFailed
      <4> QED BY <2>1, <4>1, ExtractAccepted
    <3> QED BY <1>13, <3>1, <3>2
  <2>3. pc' \in {"rescan", "failed", "forget"} /\ pc \in {"rescan", "failed", "forget"}
    BY <1>13 DEF RescanLast, RescanFailed
  <2>4. UNCHANGED <<dbHeight, dbHash, dbBlock, from>>
    BY <1>13 DEF RescanLast, RescanFailed
  <2> QED BY <2>2, <2>3, <2>4, <1>e DEF RowPending
<1>14. ASSUME NEW F, ListUnscan(F) \/ Forget(F) PROVE RowInv'
  BY <1>14, <1>e DEF ListUnscan, Forget, RowPending
<1>15. ASSUME EndTask PROVE RowInv'
  BY <1>15, <1>e, <1>g DEF EndTask, RowPending
<1>16. ASSUME NEW F, ScanBlock(F) \/ ScanBlockExtract(F) \/ ScanBlockNotify \/ ResetAsks
       PROVE  RowInv'
  <2>1. extracted \subseteq extracted'
    BY <1>16 DEF ScanBlock, ScanBlockExtract, ScanBlockNotify, ResetAsks, Extract
  <2> QED BY <1>16, <2>1, <1>f DEF ScanBlock, ScanBlockExtract, ScanBlockNotify, ResetAsks
<1>17. ASSUME DeliverNotice \/ Pause \/ Run \/ Grow \/ Reorg \/ UNCHANGED vars
       PROVE  RowInv'
  BY <1>17, <1>f DEF DeliverNotice, Pause, Run, Grow, Reorg, vars
<1>18. ASSUME NEW F, ResetHeight(F) PROVE RowInv'
  <2>1. pc' = "idle" /\ dbHeight' \in Nat /\ from' = dbHeight' + 1
    BY <1>18, <1>a, ResetBetween DEF taskVars
  <2>2. Top' = dbHeight' /\ ~RowPending'
    BY <2>1 DEF Top, RowPending
  <2>3. \A h : h \notin from'..Top'
    <3>1. PICK d \in Nat : dbHeight' = d
      BY <2>1
    <3> QED BY <2>1, <2>2, <3>1
  <2> QED BY <2>1, <2>2, <2>3 DEF RowInv
<1>19. ASSUME ResetHash PROVE RowInv'
  <2>1. pc' = "idle" /\ UNCHANGED <<pc, dbHeight, dbBlock, from, extracted>>
    BY <1>19 DEF ResetHash, PlaceInv, taskVars
  <2>2. ~RowPending /\ ~RowPending' /\ Top' = Top
    BY <2>1 DEF Top, RowPending
  <2> QED BY <2>1, <2>2 DEF RowInv
<1> QED
  BY <1>1, <1>2, <1>3, <1>4, <1>5, <1>6, <1>7, <1>8, <1>9, <1>10, <1>11, <1>12,
     <1>13, <1>14, <1>15, <1>16, <1>17, <1>18, <1>19, <1>a, NoCrash
     DEF Next, TaskStep, ClientStep

\* Across any number of reorganisations and resets between two tasks, every
\* block of the chain that ends in the recorded block was itself delivered
\* since a client last asked for it, as long as no second answer of the
\* node is lost and the observers accept what they are given: a rewind never
\* resumes above a block of the new branch that was not extracted.
THEOREM ChainIsCovered ==
    ASSUME OneLossAccepted
    PROVE  Spec => []ChainCovered
<1> DEFINE Inv == TypeInv /\ WrapInv /\ PlaceInv /\ StepInv /\ LinkInv /\ RowInv
<1>1. Inv => ChainCovered
  <2> SUFFICES ASSUME Inv, from # 0, PositionWhole, NEW h \in from..dbHeight
               PROVE  AncestorAt[dbHash][h] \in extracted \cup EmptyBlocks
    BY DEF ChainCovered
  <2>1. /\ dbHeight # 0 /\ dbHeight \in Nat
        /\ h \in Height /\ h >= Low /\ h <= dbHeight
        /\ dbHash \in Block /\ HeightOf[dbHash] = dbHeight
        /\ dbHeight \in Height /\ dbHeight \in from..dbHeight
        /\ from \in Nat /\ NoBlock \notin Block
    BY Constants DEF StepInv, TypeInv, TypeOK, WrapInv, Height, PositionWhole, Low
  <2>2. AncestorAt[dbHash][dbHeight] = dbHash
    BY <2>1, PathAssumption
  <2>3. CASE pc = "saveHash"
    <3>1. isFork /\ (dbBlock[dbHeight] # NoBlock => dbHash = curHash)
      BY <2>1, <2>3 DEF RowInv
    <3>2. Top = dbHeight /\ PosHash = curHash
      BY <2>3, <3>1 DEF Top, PosHash, RowPending
    <3>3. /\ dbBlock[dbHeight] # NoBlock
          /\ dbBlock[h] # NoBlock /\ dbBlock[h] \in extracted \cup EmptyBlocks
      BY <2>1, <3>2 DEF RowInv
    <3> QED BY <2>1, <3>1, <3>2, <3>3 DEF LinkInv
  <2>4. CASE pc = "saveBlock" /\ h = dbHeight
    <3>1. dbHash \in extracted \cup EmptyBlocks
      BY <2>4 DEF RowInv, StepInv, RowPending
    <3> QED BY <2>2, <2>4, <3>1
  <2>5. CASE pc # "saveHash" /\ ~(pc = "saveBlock" /\ h = dbHeight)
    <3>1. h <= Top /\ h \in from..Top /\ PosHash = dbHash
      BY <2>1, <2>5 DEF Top, PosHash, RowPending
    <3>2. dbBlock[h] # NoBlock /\ dbBlock[h] \in extracted \cup EmptyBlocks
      BY <2>1, <3>1 DEF RowInv
    <3> QED BY <2>1, <3>1, <3>2 DEF LinkInv
  <2> QED BY <2>3, <2>4, <2>5
<1>2. Init => Inv
  BY InitType, InitWrap, InitPlace, InitStep, InitLink, InitRow
<1>3. Inv /\ [Next]_vars => Inv'
  BY NextType, NextWrap, NextPlace, NextStep, NextLink, NextRow DEF OneLossAccepted, OneLoss
<1> QED BY <1>1, <1>2, <1>3, PTL DEF Spec
==============================================================================
