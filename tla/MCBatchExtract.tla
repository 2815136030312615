--------------------------- MODULE MCBatchExtract ----------------------------
(***************************************************************************)
(* Two overlapping calls that together want more tokens than there are,    *)
(* and a call for a block without transactions.                            *)
(***************************************************************************)
EXTENDS BatchExtract, TLC

CONSTANTS task, client, empty

Calls  == {task, client, empty}
Counts == task :> 3 @@ client :> 2 @@ empty :> 0
==============================================================================
