--------------------------- MODULE MCSyncManager ---------------------------
(***************************************************************************)
(* Small instances of SyncManager.                                         *)
(***************************************************************************)
EXTENDS SyncManager

\* Two peers with the whole chain; or one whose chain grows during the sync,
\* while the other cannot be reached and old blocks are forgotten.
Usual ==
    {[heads |-> <<MaxNum, MaxNum>>, expires |-> FALSE],
     [heads |-> <<MaxNum - 1, 0>>, expires |-> TRUE]}

\* The second peer is itself behind.
Lagging == {[heads |-> <<MaxNum, MaxNum - 2>>, expires |-> FALSE]}
=============================================================================
