------------------------------ MODULE BlockTree ------------------------------
(***************************************************************************)
(* The tree of blocks a node may ever meet, and what the header state of a *)
(* block says about it.  A block_header_state is a pure function of the    *)
(* block and of its ancestors (block_header_state::next), so everything    *)
(* the fork database and the controller read from it is a constant         *)
(* function of the block.  Block identifiers are natural numbers: `<' on   *)
(* them is sha256_less, the order that breaks ties between block ids.      *)
(***************************************************************************)
EXTENDS Naturals

CONSTANTS
    Block,     \* the block ids
    Genesis,   \* the genesis block, root of the tree
    Prev,      \* block_header::previous of every block but the genesis block
    BlockNum,  \* block_header_state_common::block_num
    DposLib    \* block_header_state_common::dpos_irreversible_blocknum

ASSUME BlockAssumption == Block \subseteq Nat /\ Genesis \in Block

ASSUME PrevAssumption == Prev \in [Block \ {Genesis} -> Block]

ASSUME BlockNumAssumption ==
    /\ BlockNum \in [Block -> Nat]
    /\ \A b \in Block \ {Genesis} : BlockNum[b] = BlockNum[Prev[b]] + 1

\* A block never declares itself irreversible: calc_dpos_last_irreversible
\* reads the proposals of its parent's header state.
ASSUME DposLibAssumption ==
    /\ DposLib \in [Block -> Nat]
    /\ \A b \in Block \ {Genesis} : DposLib[b] < BlockNum[b]

\* The last irreversible block number does not decrease from a block to its
\* child (see LibNeverDecreases of module BlockHeaderState for when it holds).
ASSUME LibMonotoneAssumption ==
    \A b \in Block \ {Genesis} : DposLib[Prev[b]] <= DposLib[b]

-----------------------------------------------------------------------------
\* The sets of blocks that contain, with a block, its predecessor.
PrevClosed == {S \in SUBSET Block : \A c \in S \ {Genesis} : Prev[c] \in S}

\* A block and its ancestors: the least set closed under Prev that holds it.
Ancestors ==
    [b \in Block |-> {a \in Block : \A S \in PrevClosed : b \in S => a \in S}]

\* first_preferred: the longer (lib, block_num), compared lexicographically.
FirstPreferred(a, b) ==
    \/ DposLib[a] > DposLib[b]
    \/ DposLib[a] = DposLib[b] /\ BlockNum[a] > BlockNum[b]

SamePreference(a, b) == DposLib[a] = DposLib[b] /\ BlockNum[a] = BlockNum[b]
=============================================================================
