--------------------------- MODULE MCForkDatabase ---------------------------
(***************************************************************************)
(* Two branches of three blocks on the genesis block.  They tie at every   *)
(* number until block 6 raises the last irreversible block number of one   *)
(* of them, which is the shortest tree with ties, a preference by lib and  *)
(* a root that can advance twice.                                          *)
(*                                                                         *)
(*       1 <- 2 <- 4 <- 6          1 <- 3 <- 5 <- 7                        *)
(***************************************************************************)
EXTENDS ForkDatabase

MCBlock == 1..7

MCPrev == [b \in 2..7 |-> IF b <= 3 THEN 1 ELSE b - 2]

MCBlockNum == <<1, 2, 2, 3, 3, 4, 4>>

MCDposLib == <<0, 0, 0, 1, 1, 2, 1>>
=============================================================================
