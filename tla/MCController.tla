---------------------------- MODULE MCController ----------------------------
(***************************************************************************)
(* Small instances of Controller.  Two branches leave block 2, and a third *)
(* one leaves the genesis block:                                           *)
(*                                                                         *)
(*   number   1   2   3   4   5   6                                        *)
(*            1 - 2 - 4 - 6 - 8 - 11                                       *)
(*            |    \- 5 - 7 - 9 - 10                                       *)
(*             \- 3           \ - 12                                       *)
(*                                                                         *)
(* Blocks 8 and 9 tie; their children make two more blocks irreversible,   *)
(* on one branch or on the other.                                          *)
(***************************************************************************)
EXTENDS Controller

MCBlock == 1..12

MCPrev ==
    [b \in 2..12 |->
        CASE b \in {2, 3} -> 1
          [] b \in {4, 5} -> 2
          [] b \in 6..9   -> b - 2
          [] b = 11       -> 8
          [] OTHER        -> 9]

MCBlockNum == <<1, 2, 2, 3, 3, 4, 4, 5, 5, 6, 6, 6>>
MCDposLib  == <<0, 0, 0, 1, 1, 1, 1, 2, 2, 4, 4, 4>>

\* A block was produced under the active rate of its parent.
MadeUnder(active) == [b \in MCBlock |-> IF b = 1 THEN {1} ELSE {active[MCPrev[b]]}]

\* The fee rate 2 becomes active with block 4, on one side of the fork.
RateOnOneBranch  == [b \in MCBlock |-> IF b \in {4, 6, 8, 11} THEN 2 ELSE 1]
ValidOnOneBranch == MadeUnder(RateOnOneBranch)

\* The rate differs across both forks.  The first blocks after a fork hold no
\* transaction that pays a fee, so that any rate gives their id; the last ones
\* of two branches are invalid.
RateAcrossForks == [b \in MCBlock |-> IF b \in {3, 4, 6, 8, 11} THEN 2 ELSE 1]
SomeInvalid ==
    [b \in MCBlock |->
        CASE b \in 2..5    -> {1, 2}
          [] b \in {11, 12} -> {}
          [] OTHER          -> MadeUnder(RateAcrossForks)[b]]

\* One fee rate throughout.
OneRate        == [b \in MCBlock |-> 1]
OneRateInvalid == [b \in MCBlock |-> IF b \in {11, 12} THEN {} ELSE {1}]
OneRateValid   == [b \in MCBlock |-> {1}]
=============================================================================
