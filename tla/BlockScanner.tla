---------------------------- MODULE BlockScanner -----------------------------
(***************************************************************************)
(* VLXBlockScanner (velas/blockscaner.go): the periodic task ScanBlockTask *)
(* that follows the node's chain, hands what it extracts to the observers, *)
(* rewinds when the chain forked and retries what failed, together with    *)
(* the entry points SetRescanBlockHeight and ScanBlock of other goroutines.*)
(*                                                                         *)
(* An action performs at most one database transaction and one node read:  *)
(* a crash, another goroutine or the node may come between any two.  The   *)
(* extraction of one block (BatchExtractTransaction) is one step here; its *)
(* goroutines are the subject of module BatchExtract.                      *)
(***************************************************************************)
EXTENDS NodeChain, Sequences, FiniteSets

CONSTANTS
    EmptyBlocks,           \* the blocks that carry no transaction
    RescanLastBlockCount,  \* bs.RescanLastBlockCount
    UintMod,               \* 2^64 in the code: heights are uint64
    MaxNotices,            \* bound: queued block notices
    Budget,                \* bound: how often each kind of fault strikes
    ResetHeights,          \* the heights clients ask to rescan from
    ResetWhileScanning     \* may SetRescanBlockHeight run beside the task?

\* What may go wrong: an RPC error, an observer that returns an error, a
\* database file that cannot be opened, a crash of the process, a
\* reorganisation of the node's chain; and how often a client pauses the
\* scanner, calls ScanBlock or calls SetRescanBlockHeight.
Fault == {"rpc", "refuse", "db", "crash", "reorg", "pause", "scan", "reset"}

Uint == 0..(UintMod - 1)

ASSUME ScannerAssumption ==
    /\ EmptyBlocks \subseteq Block
    /\ RescanLastBlockCount \in Nat
    /\ UintMod \in Nat
    /\ UintMod > MaxHeight + 2
    /\ UintMod > RescanLastBlockCount
    /\ MaxNotices \in Nat
    /\ Budget \in [Fault -> Nat]
    /\ ResetHeights \subseteq Height
    /\ ResetWhileScanning \in BOOLEAN

VARIABLES
    dbHeight,   \* key blockHeight of the bucket: last scanned height, 0 = none
    dbHash,     \* key blockHash of the bucket
    dbBlock,    \* the Block table, keyed by height
    unscan,     \* the UnscanRecord table: the heights to retry
    pc,         \* where ScanBlockTask is
    curHeight,  \* its local currentHeight
    curHash,    \* its local currentHash
    forkBlock,  \* its local forkBlock
    isFork,     \* its local isFork
    todo,       \* heights a rescan loop still has to visit
    visiting,   \* height whose record RescanFailedRecord deletes next
    asked,      \* block SetRescanBlockHeight got from the node, not yet stored
    reset,      \* block whose hash SetRescanBlockHeight has still to store
    fetched,    \* block a client's ScanBlock got from the node
    toAnnounce, \* block a client's ScanBlock extracted, not yet announced
    scanning,   \* BlockScannerBase.Scanning
    notices,    \* block headers queued for the observers (in memory)
    live,       \* blocks announced to the observers and not withdrawn
    extracted,  \* history: blocks whose data every observer accepted since
                \*   the last SetRescanBlockHeight asked for them again
    from,       \* history: first height the recorded position answers for
    spent       \* history: faults so far

dbVars     == <<dbHeight, dbHash, dbBlock, unscan>>
taskVars   == <<pc, curHeight, curHash, forkBlock, isFork, todo, visiting>>
clientVars == <<asked, reset, fetched, toAnnounce>>
obsVars    == <<notices, live>>
vars       == <<tip, dbVars, taskVars, clientVars, scanning, obsVars, extracted,
                from, spent>>

PC == {"idle", "fresh", "freshBlock", "loop", "fetch", "drop",
       "rewind", "saveHeight", "saveHash", "saveBlock", "rescan", "failed", "forget"}

Notice == [block : Block, fork : BOOLEAN]

TypeOK ==
    /\ tip \in Block
    /\ dbHeight \in Uint
    /\ dbHash \in Block \cup {NoBlock}
    /\ dbBlock \in [Height -> Block \cup {NoBlock}]
    /\ unscan \subseteq Uint \ {0}
    /\ pc \in PC
    /\ curHeight \in Uint
    /\ curHash \in Block \cup {NoBlock}
    /\ forkBlock \in Block \cup {NoBlock}
    /\ isFork \in BOOLEAN
    /\ todo \subseteq Uint
    /\ visiting \in Uint
    /\ asked \in Block \cup {NoBlock}
    /\ reset \in Block \cup {NoBlock}
    /\ fetched \in Block \cup {NoBlock}
    /\ toAnnounce \in Block \cup {NoBlock}
    /\ scanning \in BOOLEAN
    /\ notices \in Seq(Notice)
    /\ live \subseteq Block
    /\ extracted \subseteq Block
    /\ from \in Nat
    /\ spent \in [Fault -> Nat]

\* A new process: an empty in-memory state, a running timer, an empty
\* database file, and a node with the genesis block alone or one more.
Init ==
    /\ tip \in {b \in Block : HeightOf[b] <= 1}
    /\ dbHeight = 0
    /\ dbHash = NoBlock
    /\ dbBlock = [h \in Height |-> NoBlock]
    /\ unscan = {}
    /\ pc = "idle"
    /\ curHeight = 0
    /\ curHash = NoBlock
    /\ forkBlock = NoBlock
    /\ isFork = FALSE
    /\ todo = {}
    /\ visiting = 0
    /\ asked = NoBlock
    /\ reset = NoBlock
    /\ fetched = NoBlock
    /\ toAnnounce = NoBlock
    /\ scanning = TRUE
    /\ notices = <<>>
    /\ live = {}
    /\ extracted = {}
    /\ from = 0
    /\ spent = [f \in Fault |-> 0]

------------------------------------------------------------------------------
(* Operations the handlers share. *)

\* The faults F strike this step.
Suffer(F) ==
    /\ \A f \in F : spent[f] < Budget[f]
    /\ spent' = [f \in Fault |-> IF f \in F THEN spent[f] + 1 ELSE spent[f]]

\* The database file is locked from storm.Open to db.Close, and only a
\* SaveLocalNewBlock spans two steps of this model.  Meanwhile the others wait
\* in storm.Open, or give up after its timeout: the fault "db".
TaskHolds   == pc = "saveHash"
ClientHolds == reset # NoBlock
Opened(holder, F) == holder => "db" \in F

\* GetBlock(h) under the faults F.
Fetched(h, F) == IF "rpc" \in F THEN NoBlock ELSE NodeBlock(h)

\* GetLocalBlock(h) under the faults F.
LocalBlock(h, F) ==
    IF "db" \in F \/ h \notin Height THEN NoBlock ELSE dbBlock[h]

\* Slip: without the test for height 0.
SaveUnscanAnyHeight(h, holder, F) ==
    /\ Opened(holder, F)
    /\ unscan' = IF "db" \in F THEN unscan ELSE unscan \cup {h}

\* SaveUnscanRecord: height 0 is not recorded; the ID of a record is a hash of
\* its height (and of the empty TxID), so a height has at most one.
SaveUnscan(h, holder, F) ==
    /\ Opened(holder, F)
    /\ unscan' = IF "db" \in F THEN unscan ELSE unscan \cup ({h} \ {0})

\* DeleteUnscanRecord.
DeleteUnscan(h, holder, F) ==
    /\ Opened(holder, F)
    /\ unscan' = IF "db" \in F THEN unscan ELSE unscan \ {h}

\* BatchExtractTransaction(h, b): without transactions it is an error that
\* leaves no record; otherwise newExtractDataNotify calls the observers, and
\* an observer's error leaves a record but is not returned.
Extract(b, h, holder, F) ==
    \/ /\ b \in EmptyBlocks
       /\ F \cap {"refuse", "db"} = {}
       /\ UNCHANGED <<extracted, unscan>>
    \/ /\ b \notin EmptyBlocks
       /\ F \cap {"refuse", "db"} = {}
       /\ extracted' = extracted \cup {b}
       /\ UNCHANGED unscan
    \/ /\ b \notin EmptyBlocks
       /\ "refuse" \in F
       /\ SaveUnscan(h, holder, F)
       /\ UNCHANGED extracted

\* Slip: the header loses its Fork flag, which BlockHeader() does not copy.
NotifyUnflagged(b, fork) ==
    /\ Len(notices) < MaxNotices
    /\ notices' = Append(notices, [block |-> b, fork |-> FALSE])
    /\ UNCHANGED live

\* newBlockNotify: BlockScannerBase queues the header for the observers.
Notify(b, fork) ==
    /\ Len(notices) < MaxNotices
    /\ notices' = Append(notices, [block |-> b, fork |-> fork])
    /\ UNCHANGED live

\* a - b on unsigned integers.
Minus(a, b) == IF a >= b THEN a - b ELSE a + UintMod - b

\* Slip: steps back three blocks.
RewoundTooFar(h) == IF Minus(h, 3) <= 0 THEN 1 ELSE Minus(h, 3)

\* Slip: steps back to the orphaned block itself.
RewoundTooLittle(h) == IF Minus(h, 1) <= 0 THEN 1 ELSE Minus(h, 1)

\* currentHeight - 2, then the test for <= 0.
Rewound(h) == IF Minus(h, 2) <= 0 THEN 1 ELSE Minus(h, 2)

\* The heights i of: for i := h - RescanLastBlockCount; i < h; i++.  Below the
\* count the subtraction wraps around, and the loop makes no turn.
RescanWindow(h) ==
    {i \in Uint : Minus(h, RescanLastBlockCount) <= i /\ i < h}

\* Leaving the scan loop by break.  The other locals are dead from here on.
LeaveLoop ==
    /\ pc' = "rescan"
    /\ todo' = RescanWindow(curHeight)
    /\ curHeight' = 0
    /\ curHash' = NoBlock
    /\ forkBlock' = NoBlock
    /\ isFork' = FALSE
    /\ UNCHANGED visiting

\* Returning from the task.
Return ==
    /\ pc' = "idle"
    /\ curHeight' = 0
    /\ curHash' = NoBlock
    /\ forkBlock' = NoBlock
    /\ isFork' = FALSE
    /\ todo' = {}
    /\ visiting' = 0

------------------------------------------------------------------------------
(* ScanBlockTask: GetScannedBlockHeader. *)

\* The timer fires; GetLocalNewBlock.  A database that cannot be opened reads
\* as height 0, the same answer as a database that holds no position.
BeginTask(F) ==
    /\ pc = "idle"
    /\ scanning
    /\ ResetWhileScanning \/ asked = NoBlock
    /\ Opened(ClientHolds, F)
    /\ Suffer(F)
    /\ IF "db" \in F \/ dbHeight = 0
       THEN /\ pc' = "fresh"
            /\ UNCHANGED <<curHeight, curHash>>
       ELSE /\ pc' = "loop"
            /\ curHeight' = dbHeight
            /\ curHash' = dbHash
    /\ UNCHANGED <<tip, dbVars, forkBlock, isFork, todo, visiting, clientVars,
                   scanning, obsVars, extracted, from>>

\* No local position: the node's height minus one, which wraps around at a
\* node with the genesis block alone.
FreshHeight(F) ==
    /\ pc = "fresh"
    /\ Suffer(F)
    /\ IF "rpc" \in F
       THEN Return
       ELSE /\ curHeight' = Minus(NodeHeight, 1)
            /\ pc' = "freshBlock"
            /\ UNCHANGED <<curHash, forkBlock, isFork, todo, visiting>>
    /\ UNCHANGED <<tip, dbVars, clientVars, scanning, obsVars, extracted, from>>

\* ... and the hash the node serves for it.
FreshBlock(F) ==
    /\ pc = "freshBlock"
    /\ Suffer(F)
    /\ IF Fetched(curHeight, F) = NoBlock
       THEN Return
       ELSE /\ curHash' = Fetched(curHeight, F)
            /\ pc' = "loop"
            /\ UNCHANGED <<curHeight, forkBlock, isFork, todo, visiting>>
    /\ UNCHANGED <<tip, dbVars, clientVars, scanning, obsVars, extracted, from>>

------------------------------------------------------------------------------
(* ScanBlockTask: the scan loop. *)

\* Slip: stops one block early.
AtChainEndEarly == curHeight + 1 >= NodeHeight

AtChainEnd == curHeight >= NodeHeight

\* The Scanning flag, GetBlockHeight and the test for the chain's end.
LoopTop(F) ==
    /\ pc = "loop"
    /\ Suffer(F)
    /\ CASE ~scanning -> Return
         [] scanning /\ ("rpc" \in F \/ AtChainEnd) -> LeaveLoop
         [] OTHER -> /\ curHeight' = curHeight + 1
                     /\ pc' = "fetch"
                     /\ UNCHANGED <<curHash, forkBlock, isFork, todo, visiting>>
    /\ UNCHANGED <<tip, dbVars, clientVars, scanning, obsVars, extracted, from>>

\* Slip: a height that cannot be fetched is passed over without a record.
FetchFailsUnrecorded(F) ==
    /\ pc = "fetch"
    /\ Suffer(F)
    /\ Fetched(curHeight, F) = NoBlock
    /\ pc' = "loop"
    /\ UNCHANGED <<tip, dbVars, curHeight, curHash, forkBlock, isFork, todo,
                   visiting, clientVars, scanning, obsVars, extracted, from>>

\* GetBlock fails: the height is recorded, currentHash is not advanced.
FetchFails(F) ==
    /\ pc = "fetch"
    /\ Suffer(F)
    /\ Fetched(curHeight, F) = NoBlock
    /\ SaveUnscan(curHeight, ClientHolds, F)
    /\ pc' = "loop"
    /\ UNCHANGED <<tip, dbHeight, dbHash, dbBlock, curHeight, curHash,
                   forkBlock, isFork, todo, visiting, clientVars, scanning,
                   obsVars, extracted, from>>

\* The block continues the local chain: extract it.
ScanNext(F) ==
    /\ pc = "fetch"
    /\ Suffer(F)
    /\ Fetched(curHeight, F) # NoBlock
    /\ LET b == Fetched(curHeight, F) IN
          /\ Parent[b] = curHash
          /\ Extract(b, curHeight, ClientHolds, F)
          /\ curHash' = b
    /\ isFork' = FALSE
    /\ pc' = "saveHeight"
    /\ UNCHANGED <<tip, dbHeight, dbHash, dbBlock, curHeight, forkBlock, todo,
                   visiting, clientVars, scanning, obsVars, from>>

\* Slip: the height being scanned, not its parent's.
OrphanHeightOffByOne == curHeight

OrphanHeight == curHeight - 1

\* It does not: look up the orphaned block ...
ForkFound(F) ==
    /\ pc = "fetch"
    /\ Opened(ClientHolds, F)
    /\ Suffer(F)
    /\ Fetched(curHeight, F) # NoBlock
    /\ Parent[Fetched(curHeight, F)] # curHash
    /\ forkBlock' = LocalBlock(OrphanHeight, F)
    /\ pc' = "drop"
    /\ UNCHANGED <<tip, dbVars, curHeight, curHash, isFork, todo, visiting,
                   clientVars, scanning, obsVars, extracted, from>>

\* ... delete the record of its height, and step back two blocks.
DropRecord(F) ==
    /\ pc = "drop"
    /\ Suffer(F)
    /\ DeleteUnscan(OrphanHeight, ClientHolds, F)
    /\ curHeight' = Rewound(curHeight)
    /\ pc' = "rewind"
    /\ UNCHANGED <<tip, dbHeight, dbHash, dbBlock, curHash, forkBlock, isFork,
                   todo, visiting, clientVars, scanning, obsVars, extracted, from>>

\* Slip: the node is asked first, the Block table only when it fails.
RewindBaseFromNode(F) ==
    IF Fetched(curHeight, F) # NoBlock THEN Fetched(curHeight, F)
    ELSE LocalBlock(curHeight, F)

\* The block a rewind continues from: the local one, else the node's.
RewindBase(F) ==
    IF LocalBlock(curHeight, F) # NoBlock THEN LocalBlock(curHeight, F)
    ELSE Fetched(curHeight, F)

\* Continue from that block; without one the loop ends.
Rewind(F) ==
    /\ pc = "rewind"
    /\ Opened(ClientHolds, F)
    /\ Suffer(F)
    /\ IF RewindBase(F) = NoBlock
       THEN LeaveLoop
       ELSE /\ curHash' = RewindBase(F)
            /\ isFork' = TRUE
            /\ pc' = "saveHeight"
            /\ UNCHANGED <<curHeight, forkBlock, todo, visiting>>
    /\ UNCHANGED <<tip, dbVars, clientVars, scanning, obsVars, extracted, from>>

\* After SaveLocalNewBlock: a fork is announced when the orphan was known, a
\* new block goes on to SaveLocalBlock.
AfterSave ==
    IF isFork
    THEN /\ pc' = "loop"
         /\ forkBlock' = NoBlock
         /\ isFork' = FALSE
         /\ IF forkBlock = NoBlock THEN UNCHANGED obsVars
                                   ELSE Notify(forkBlock, TRUE)
    ELSE /\ pc' = "saveBlock"
         /\ UNCHANGED <<forkBlock, isFork, obsVars>>

\* SaveLocalNewBlock, first db.Set.  An open error skips both.
SaveHeight(F) ==
    /\ pc = "saveHeight"
    /\ Opened(ClientHolds, F)
    /\ Suffer(F)
    /\ IF "db" \in F
       THEN /\ AfterSave
            /\ UNCHANGED <<dbHeight, from>>
       ELSE /\ dbHeight' = curHeight
            /\ from' = IF from # 0 THEN from
                       ELSE IF isFork THEN curHeight + 1 ELSE curHeight
            /\ pc' = "saveHash"
            /\ UNCHANGED <<forkBlock, isFork, obsVars>>
    /\ UNCHANGED <<tip, dbHash, dbBlock, unscan, curHeight, curHash, todo,
                   visiting, clientVars, scanning, extracted>>

\* SaveLocalNewBlock, second db.Set.
SaveHash(F) ==
    /\ pc = "saveHash"
    /\ Suffer(F)
    /\ dbHash' = curHash
    /\ AfterSave
    /\ UNCHANGED <<tip, dbHeight, dbBlock, unscan, curHeight, curHash, todo,
                   visiting, clientVars, scanning, extracted, from>>

\* Slip: a row that exists is not replaced.
RowsKept(F) == IF "db" \in F \/ dbBlock[curHeight] # NoBlock THEN dbBlock
               ELSE [dbBlock EXCEPT ![curHeight] = curHash]

\* SaveLocalBlock: Height is the primary key of a row.
Rows(F) == IF "db" \in F THEN dbBlock
           ELSE [dbBlock EXCEPT ![curHeight] = curHash]

\* SaveLocalBlock, then newBlockNotify.
SaveBlock(F) ==
    /\ pc = "saveBlock"
    /\ Opened(ClientHolds, F)
    /\ Suffer(F)
    /\ dbBlock' = Rows(F)
    /\ Notify(curHash, FALSE)
    /\ pc' = "loop"
    /\ UNCHANGED <<tip, dbHeight, dbHash, unscan, curHeight, curHash,
                   forkBlock, isFork, todo, visiting, clientVars, scanning,
                   extracted, from>>

------------------------------------------------------------------------------
(* ScanBlockTask: after the loop. *)

\* scanBlock(h): the block is extracted whatever its parent is.
ScanOne(h, holder, F) ==
    \/ /\ Fetched(h, F) = NoBlock
       /\ "refuse" \notin F
       /\ SaveUnscan(h, holder, F)
       /\ UNCHANGED extracted
    \/ /\ Fetched(h, F) # NoBlock
       /\ Extract(Fetched(h, F), h, holder, F)

\* One turn of the loop over the last RescanLastBlockCount blocks.
RescanLast(F) ==
    /\ pc = "rescan"
    /\ Suffer(F)
    /\ \E h \in todo :
          /\ \A i \in todo : h <= i
          /\ ScanOne(h, ClientHolds, F)
          /\ todo' = todo \ {h}
    /\ UNCHANGED <<tip, dbHeight, dbHash, dbBlock, pc, curHeight, curHash,
                   forkBlock, isFork, visiting, clientVars, scanning, obsVars, from>>

\* RescanFailedRecord: GetUnscanRecords.
ListUnscan(F) ==
    /\ pc = "rescan"
    /\ todo = {}
    /\ Opened(ClientHolds, F)
    /\ Suffer(F)
    /\ todo' = IF "db" \in F THEN {} ELSE unscan
    /\ pc' = "failed"
    /\ UNCHANGED <<tip, dbVars, curHeight, curHash, forkBlock, isFork,
                   visiting, clientVars, scanning, obsVars, extracted, from>>

\* RescanFailedRecord: one height of the map, in any order.  A record whose
\* block cannot be fetched or is empty stays; otherwise it is deleted next.
RescanFailed(F) ==
    /\ pc = "failed"
    /\ Suffer(F)
    /\ \E h \in todo :
          LET b == Fetched(h, F) IN
          /\ todo' = todo \ {h}
          /\ IF b = NoBlock \/ b \in EmptyBlocks
             THEN /\ F \cap {"refuse", "db"} = {}
                  /\ UNCHANGED <<pc, visiting, extracted, unscan>>
             ELSE /\ Extract(b, h, ClientHolds, F)
                  /\ pc' = "forget"
                  /\ visiting' = h
    /\ UNCHANGED <<tip, dbHeight, dbHash, dbBlock, curHeight, curHash,
                   forkBlock, isFork, clientVars, scanning, obsVars, from>>

\* RescanFailedRecord: DeleteUnscanRecord.
Forget(F) ==
    /\ pc = "forget"
    /\ Suffer(F)
    /\ DeleteUnscan(visiting, ClientHolds, F)
    /\ pc' = "failed"
    /\ visiting' = 0
    /\ UNCHANGED <<tip, dbHeight, dbHash, dbBlock, curHeight, curHash,
                   forkBlock, isFork, todo, clientVars, scanning, obsVars,
                   extracted, from>>

\* The task returns.
EndTask ==
    /\ pc = "failed"
    /\ todo = {}
    /\ Return
    /\ UNCHANGED <<tip, dbVars, clientVars, scanning, obsVars, extracted, from,
                   spent>>

------------------------------------------------------------------------------
(* Other goroutines, the observers, the node, and crashes. *)

\* SetRescanBlockHeight(height): the block the node serves for height - 1; an
\* error returns without a change.  A client that does not reset beside the task
\* has the next task wait.
ResetAsks ==
    /\ asked = NoBlock
    /\ reset = NoBlock
    /\ ResetWhileScanning \/ pc = "idle"
    /\ Suffer({"reset"})
    /\ \E height \in ResetHeights :
          /\ NodeBlock(Minus(height, 1)) # NoBlock
          /\ asked' = NodeBlock(Minus(height, 1))
    /\ UNCHANGED <<tip, dbVars, taskVars, reset, fetched, toAnnounce, scanning,
                   obsVars, extracted, from>>

\* SetRescanBlockHeight: first db.Set.  A database that does not open leaves
\* the position, and the client gets no error.
ResetHeight(F) ==
    /\ asked # NoBlock
    /\ Opened(TaskHolds, F)
    /\ Suffer(F)
    /\ asked' = NoBlock
    /\ IF "db" \in F
       THEN UNCHANGED <<dbHeight, reset, from, extracted>>
       ELSE /\ dbHeight' = HeightOf[asked]
            /\ reset' = asked
            /\ from' = HeightOf[asked] + 1
            /\ extracted' = {b \in extracted : HeightOf[b] <= HeightOf[asked]}
    /\ UNCHANGED <<tip, dbHash, dbBlock, unscan, taskVars, fetched, toAnnounce,
                   scanning, obsVars>>

\* SetRescanBlockHeight: second db.Set.
ResetHash ==
    /\ reset # NoBlock
    /\ dbHash' = reset
    /\ reset' = NoBlock
    /\ UNCHANGED <<tip, dbHeight, dbBlock, unscan, taskVars, asked, fetched,
                   toAnnounce, scanning, obsVars, extracted, from, spent>>

\* ScanBlock(height), called by a client at any time: GetBlock.
ScanBlock(F) ==
    /\ fetched = NoBlock
    /\ Suffer(F \cup {"scan"})
    /\ \E h \in Height :
          /\ fetched' = Fetched(h, F)
          /\ IF Fetched(h, F) = NoBlock
             THEN SaveUnscan(h, TaskHolds \/ ClientHolds, F)
             ELSE "db" \notin F /\ UNCHANGED unscan
    /\ UNCHANGED <<tip, dbHeight, dbHash, dbBlock, taskVars, asked, reset,
                   toAnnounce, scanning, obsVars, extracted, from>>

\* ScanBlock: BatchExtractTransaction, whatever its error.
ScanBlockExtract(F) ==
    /\ fetched # NoBlock
    /\ toAnnounce = NoBlock
    /\ Suffer(F)
    /\ Extract(fetched, HeightOf[fetched], TaskHolds \/ ClientHolds, F)
    /\ toAnnounce' = fetched
    /\ fetched' = NoBlock
    /\ UNCHANGED <<tip, dbHeight, dbHash, dbBlock, taskVars, asked, reset,
                   scanning, obsVars, from>>

\* ScanBlock: newBlockNotify.
ScanBlockNotify ==
    /\ toAnnounce # NoBlock
    /\ Notify(toAnnounce, FALSE)
    /\ toAnnounce' = NoBlock
    /\ UNCHANGED <<tip, dbVars, taskVars, asked, reset, fetched, scanning,
                   extracted, from, spent>>

\* BlockScannerBase delivers a queued header to BlockScanNotify.
DeliverNotice ==
    /\ notices # <<>>
    /\ notices' = Tail(notices)
    /\ live' = IF Head(notices).fork THEN live \ {Head(notices).block}
                                     ELSE live \cup {Head(notices).block}
    /\ UNCHANGED <<tip, dbVars, taskVars, clientVars, scanning, extracted, from,
                   spent>>

\* BlockScannerBase.Pause and Run.
Pause ==
    /\ scanning
    /\ Suffer({"pause"})
    /\ scanning' = FALSE
    /\ UNCHANGED <<tip, dbVars, taskVars, clientVars, obsVars, extracted, from>>

Run ==
    /\ ~scanning
    /\ scanning' = TRUE
    /\ UNCHANGED <<tip, dbVars, taskVars, clientVars, obsVars, extracted, from,
                   spent>>

\* The process dies and is started again: only the database file, the node
\* and the observers' own state survive.
Crash ==
    /\ Suffer({"crash"})
    /\ Return
    /\ asked' = NoBlock
    /\ reset' = NoBlock
    /\ fetched' = NoBlock
    /\ toAnnounce' = NoBlock
    /\ scanning' = TRUE
    /\ notices' = <<>>
    /\ UNCHANGED <<tip, dbVars, live, extracted, from>>

Grow ==
    /\ NodeGrows
    /\ UNCHANGED <<dbVars, taskVars, clientVars, scanning, obsVars, extracted,
                   from, spent>>

Reorg ==
    /\ Suffer({"reorg"})
    /\ NodeReorgs
    /\ UNCHANGED <<dbVars, taskVars, clientVars, scanning, obsVars, extracted, from>>

------------------------------------------------------------------------------
\* Each step names the faults that can strike it.
TaskStep ==
    \/ \E F \in SUBSET {"db"} : BeginTask(F) \/ SaveHeight(F) \/ SaveBlock(F)
    \/ \E F \in SUBSET {"rpc"} : FreshHeight(F) \/ FreshBlock(F) \/ LoopTop(F)
    \/ \E F \in SUBSET {"rpc", "db"} : FetchFails(F) \/ Rewind(F)
    \/ \E F \in SUBSET {"refuse", "db"} : ScanNext(F)
    \/ \E F \in SUBSET {"db"} :
          ForkFound(F) \/ DropRecord(F) \/ ListUnscan(F) \/ Forget(F)
    \/ \E F \in SUBSET {"rpc", "refuse", "db"} : RescanLast(F) \/ RescanFailed(F)
    \/ SaveHash({})
    \/ EndTask

ClientStep ==
    \/ ResetAsks
    \/ \E F \in SUBSET {"db"} : ResetHeight(F)
    \/ ResetHash
    \/ \E F \in SUBSET {"rpc", "db"} : ScanBlock(F)
    \/ \E F \in SUBSET {"refuse", "db"} : ScanBlockExtract(F)
    \/ ScanBlockNotify
    \/ Pause
    \/ Run

Next ==
    \/ TaskStep
    \/ ClientStep
    \/ DeliverNotice
    \/ Crash
    \/ Grow
    \/ Reorg

Spec == Init /\ [][Next]_vars

\* What the program gives: its single task goroutine keeps running and the
\* timer starts it again (openwallet's BlockScannerBase), a client's second
\* write follows its first, the queue of headers is drained.  Nothing is
\* assumed of the node, and a paused scanner need not be resumed.
Fairness ==
    /\ WF_vars(TaskStep)
    /\ WF_vars(ResetHash)
    /\ WF_vars(DeliverNotice)

FairSpec == Spec /\ Fairness

------------------------------------------------------------------------------
(* Safety. *)

\* The heights whose data the observers have, or that hold none.
Got(h) == \E b \in extracted \cup EmptyBlocks : HeightOf[b] = h

\* The recorded height and hash name one block.
PositionWhole == dbHash # NoBlock /\ HeightOf[dbHash] = dbHeight

\* No height that wrapped around is scanned, stored as the position or recorded
\* for a retry.  The rewind's currentHeight-2 never wraps, which its test
\* currentHeight <= 0 cannot see to: a fork is never found below height 2.  The
\* height-1 of a fresh start does wrap, at a node with the genesis block alone,
\* and goes no further than the lookup of its block.
NoWrap ==
    /\ pc # "freshBlock" => curHeight \in Height
    /\ dbHeight \in Height
    /\ unscan \subseteq Height

\* A restart resumes above dbHeight, so no height up to it may be lost: its
\* data was delivered or it has a record for RescanFailedRecord.  Excepted is
\* the recorded block itself while its hash is not the node's (a write torn
\* between height and hash): the next task steps back over it.
NoHeightLost ==
    from # 0 =>
      \A h \in from..dbHeight :
         h \in unscan \/ Got(h) \/ (h = dbHeight /\ dbHash # NodeBlock(h))

\* Across forks, every block of the chain that ends in the recorded block was
\* itself delivered, or its height has a record: a rewind never resumes above
\* a block of the new branch that was not extracted.
ChainCovered ==
    (from # 0 /\ PositionWhole) =>
      \A h \in from..dbHeight :
         h \in unscan \/ AncestorAt[dbHash][h] \in extracted \cup EmptyBlocks

\* Whenever the queue is drained and the task is not inside a rewind, the
\* observers hold no block of an abandoned branch: every fork ForkFound steps
\* over was withdrawn with header.Fork = true.
AnnouncedOnChain ==
    (notices = <<>> /\ pc \in {"idle", "loop"} /\ dbHash # NoBlock) =>
      live \subseteq PathTo(dbHash)

\* The withdrawal of an orphan reaches the observers before the block that
\* replaces it, although both go through an asynchronous queue: they never
\* hold two blocks of one height.
OneBlockPerHeight ==
    \A a, b \in live : HeightOf[a] = HeightOf[b] => a = b

\* The rows of the Block table below the recorded position are the chain that
\* ends there, so GetLocalBlock gives a rewind the right hash to continue from
\* and the right orphan to withdraw.
TableLinked ==
    (from # 0 /\ PositionWhole /\ pc = "loop") =>
      \A h \in from..dbHeight :
         dbBlock[h] \in {NoBlock, AncestorAt[dbHash][h]}

------------------------------------------------------------------------------
(* Liveness, once faults have stopped: every budget is finite. *)

\* The recorded height ends at the node's for good, its hash is the node's tip
\* (unless a crash tore the pair: that shows once another block is mined),
\* nothing is queued, and only heights of empty blocks still have a record.
Settles ==
    <>[](/\ dbHeight = NodeHeight
         /\ PositionWhole => dbHash = tip
         /\ notices = <<>>
         /\ unscan \subseteq {HeightOf[b] : b \in EmptyBlocks})

\* The observers end up with exactly the node's chain from the first scanned
\* height on (without crashes, which empty the queue), and with nothing when
\* the node never has more than the genesis block.
ObserversConverge ==
    <>[](live = {b \in PathTo(tip) : NodeHeight # 0 /\ HeightOf[b] >= from})
==============================================================================
