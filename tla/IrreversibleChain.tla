------------------------- MODULE IrreversibleChain -------------------------
(***************************************************************************)
(* What a node promises those who read from it, abstracting from forks,    *)
(* stores, failures and restarts: a chain of final blocks, which only      *)
(* grows, and a tip built on it.  The tip moves one block at a time, never *)
(* below what is final; a block becomes final in order, and only when the  *)
(* tip is built on it or it is the tip's next block.                       *)
(***************************************************************************)
EXTENDS BlockTree, Sequences

VARIABLES
    final,  \* the irreversible blocks, oldest first
    tip     \* the block whose state readers see

chainVars == <<final, tip>>

LastFinal == final[Len(final)]

Init == final = <<Genesis>> /\ tip = Genesis

\* The block b, next after the tip, is applied.
Apply(b) ==
    /\ b # Genesis /\ Prev[b] = tip
    /\ tip' = b
    /\ UNCHANGED final

\* The last block of the tip's branch is taken back, if it is not final.
TakeBack ==
    /\ tip # LastFinal
    /\ tip' = Prev[tip]
    /\ UNCHANGED final

\* The block b becomes final, below the tip or with it.
Finalize(b) ==
    /\ b # Genesis /\ Prev[b] = LastFinal
    /\ b \in Ancestors[tip] \/ Prev[b] = tip
    /\ final' = Append(final, b)
    /\ tip' \in {tip, b} /\ b \in Ancestors[tip']

\* Readers are sent back to the last final block.
Stop ==
    /\ tip' = LastFinal
    /\ UNCHANGED final

\* From there they go on at once with a branch that had been applied.
Resume(b) ==
    /\ tip = LastFinal /\ LastFinal \in Ancestors[b]
    /\ tip' = b
    /\ UNCHANGED final

Next ==
    \/ \E b \in Block : Apply(b) \/ Finalize(b) \/ Resume(b)
    \/ TakeBack
    \/ Stop

Spec == Init /\ [][Next]_chainVars
=============================================================================
