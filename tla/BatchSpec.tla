------------------------------ MODULE BatchSpec ------------------------------
(***************************************************************************)
(* What BatchExtractTransaction promises its callers, with its goroutines  *)
(* and channels left out: a call hands the extracted data of each of its   *)
(* transactions to the observers once, in any order, and returns when all  *)
(* of them were handed over.  An observer's error leaves a record.         *)
(***************************************************************************)
EXTENDS Naturals

CONSTANTS
    Call,   \* the calls of BatchExtractTransaction
    Count   \* Count[c]: the number of transactions of call c, len(txs)

Jobs(c) == {<<c, i>> : i \in 1..Count[c]}
Job     == UNION {Jobs(c) : c \in Call}

VARIABLES
    called,    \* the calls that began
    returned,  \* the calls that returned
    handed,    \* handed[j]: how often j's data was handed to the observers
    recorded   \* the calls in which an observer returned an error

vars == <<called, returned, handed, recorded>>

Init ==
    /\ called = {}
    /\ returned = {}
    /\ handed = [j \in Job |-> 0]
    /\ recorded = {}

Begin(c) ==
    /\ c \notin called
    /\ called' = called \cup {c}
    /\ returned' = IF Count[c] = 0 THEN returned \cup {c} ELSE returned
    /\ UNCHANGED <<handed, recorded>>

HandOver(j) ==
    /\ j[1] \in called \ returned
    /\ handed[j] = 0
    /\ handed' = [handed EXCEPT ![j] = 1]
    /\ \/ UNCHANGED recorded
       \/ recorded' = recorded \cup {j[1]}
    /\ UNCHANGED <<called, returned>>

Return(c) ==
    /\ c \in called \ returned
    /\ \A j \in Jobs(c) : handed[j] = 1
    /\ returned' = returned \cup {c}
    /\ UNCHANGED <<called, handed, recorded>>

Step(c) == Return(c) \/ \E j \in Jobs(c) : HandOver(j)

Next == \E c \in Call : Begin(c) \/ Step(c)

\* Every call that begins comes to its end.
Spec == Init /\ [][Next]_vars /\ \A c \in Call : WF_vars(Step(c))
==============================================================================
