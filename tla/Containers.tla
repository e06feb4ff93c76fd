----------------------------- MODULE Containers -----------------------------
(***************************************************************************)
(* The data structures of the library under one specification: the buffers *)
(* and codec at the two ends of a stream, the hash table and the skip      *)
(* list.  They share nothing, so a behaviour exercises one of them and     *)
(* leaves the others as they were made.                                    *)
(***************************************************************************)
EXTENDS MessageStream, HashTable, SkipList

VARIABLE exercised          \* which, never changes

vars == <<exercised, streamVars, hashVars, skipVars>>

Init ==
    /\ StreamInit /\ HashInit /\ SkipInit
    /\ exercised \in {"stream", "table", "list"}
    /\ exercised # "stream" => pipelined = FALSE

Next ==
    /\ UNCHANGED exercised
    /\ \/ exercised = "stream" /\ StreamNext /\ UNCHANGED <<hashVars, skipVars>>
       \/ exercised = "table" /\ HashNext /\ UNCHANGED <<streamVars, skipVars>>
       \/ exercised = "list" /\ SkipNext /\ UNCHANGED <<streamVars, hashVars>>

(* Of the stream's receiver, which module MessageStream justifies; nobody has to call
   the operations of a container. *)
Spec == Init /\ [][Next]_vars /\ StreamFairness

=============================================================================
