-------------------------- MODULE ProducerNetwork --------------------------
(***************************************************************************)
(* Several producing nodes, and the tree of blocks they sign.  A schedule  *)
(* of producers has just become active on a common block.  In every slot   *)
(* the producer whose turn it is may sign a block on its head, as its      *)
(* producer_plugin lets it, or miss the slot.  Blocks reach the other      *)
(* nodes in any order and at any time or never: a node's head moves when   *)
(* it has received a better block, and what it has received matters only   *)
(* when it next signs, so the head is chosen there.                        *)
(*                                                                         *)
(* A node keeps the watermark of its producer, the highest block number    *)
(* and the latest slot it has signed, in memory: a restart loses it.       *)
(***************************************************************************)
EXTENDS DposHeader

CONSTANTS
    Schedule,       \* the active schedule
    SystemAccount,  \* the producer before it
    CalmSlots,      \* the slots whose blocks reach every node before the next slot
    MaxSlot,        \* the last slot
    Outcomes,       \* what may become of each slot: a block is "signed" or it is "missed"
    MaxRestarted    \* how many producers' nodes restart

\* config::max_producers is 125.
ASSUME NetworkAssumption ==
    /\ Schedule \in Seq(Range(Schedule)) /\ Len(Schedule) \in 1..125
    /\ Cardinality(Range(Schedule)) = Len(Schedule)
    /\ SystemAccount \notin Range(Schedule)
    /\ {MaxSlot, MaxRestarted} \subseteq Nat /\ CalmSlots \subseteq 1..MaxSlot
    /\ Outcomes \in [1..MaxSlot -> SUBSET {"signed", "missed"}]

Producer == Range(Schedule)

VARIABLES
    blocks,     \* the blocks signed so far, each after its predecessor
    head,       \* the head of each producer's node, an index of blocks
    watermark,  \* _producer_watermarks of each producer's node
    slot,       \* the current slot
    restarted   \* the producers whose nodes have restarted

vars == <<blocks, head, watermark, slot, restarted>>

-----------------------------------------------------------------------------
\* The system account has produced alone, which makes every block irreversible
\* with the next one; the schedule is due.
Before ==
    [block_num     |-> 3,
     slot          |-> -1,
     producer      |-> SystemAccount,
     confirmed     |-> 0,
     proposed_lib  |-> 3,
     lib           |-> 2,
     confirm_count |-> <<>>,
     last_produced |-> [p \in {SystemAccount} |-> 3],
     implied_irb   |-> [p \in {SystemAccount} |-> 2],
     active        |-> [version |-> 0, producers |-> <<SystemAccount>>],
     pending       |-> [version |-> 1, producers |-> Schedule, lib_num |-> 3],
     active_rate   |-> [version |-> 0, rate |-> 1],
     pending_rate  |-> [version |-> 0, rate |-> 0, lib_num |-> 0]]

\* The block of the given slot on top of h, confirming c blocks.
Child(h, s, c) == Finished(NextState(h, s, c))

NoWatermark == [num |-> 0, slot |-> -1]

Root == 1

\* The block of number n on the branch of block i.  Everything up to the root
\* is common to all branches.
BlockAt(i, n) ==
    LET num == Max({n, blocks[Root].hs.block_num})
    IN  CHOOSE j \in blocks[i].branch : blocks[j].hs.block_num = num

\* The last irreversible block, according to block i: the root of the fork
\* database of a node whose head is i.
LibBlock(i) == BlockAt(i, blocks[i].hs.lib)

\* first_preferred: the longest branch among those with the highest lib.
FirstPreferred(a, b) == a.lib > b.lib \/ (a.lib = b.lib /\ a.block_num > b.block_num)

\* push_block and maybe_switch_forks: the node of p, when block b has reached it,
\* makes it its head.  A branch that leaves the root out is unlinkable.
Takes(p, b) == FirstPreferred(b.hs, blocks[head[p]].hs) /\ LibBlock(head[p]) \in b.branch

\* The heads the node of p may have, depending on the blocks that have reached it.
MayHave(p, i) == i = head[p] \/ Takes(p, blocks[i])

-----------------------------------------------------------------------------
Init ==
    /\ blocks = <<[branch |-> {Root}, hs |-> Child(Before, 0, 0)]>>
    /\ head = [p \in Producer |-> Root]
    /\ watermark = [p \in Producer |-> NoWatermark]
    /\ slot = 1
    /\ restarted = {}

\* (mutant of MayProduce: the number is not compared)
MayProduceBySlot(p, h) == watermark[p].slot < slot

\* start_block: a producer that has signed a higher block, or one for this slot
\* or a later one, does not produce.
MayProduce(p, h) == watermark[p].num <= h.block_num /\ watermark[p].slot < slot

\* consider_new_watermark
NewWatermark(w, num, s) == [num |-> Max({w.num, num}), slot |-> Max({w.slot, s})]

\* The heads after p has signed b, the nth block.
Heads(p, b, n) ==
    [q \in Producer |-> IF q = p \/ (slot \in CalmSlots /\ Takes(q, b)) THEN n ELSE head[q]]

\* The producer of this slot signs a block on i.
Produce(i) ==
    LET h == blocks[i].hs
        p == ScheduledProducer(h.active.producers, slot)
        c == BlocksToConfirm(h, watermark[p].num)
        n == Len(blocks) + 1
        b == [branch |-> blocks[i].branch \cup {n}, hs |-> Child(h, slot, c)]
    IN  /\ slot <= MaxSlot /\ "signed" \in Outcomes[slot]
        /\ MayHave(p, i) /\ MayProduce(p, h) /\ ConfirmAccepted(h, p, c)
        /\ blocks' = Append(blocks, b)
        /\ head' = Heads(p, b, n)
        /\ watermark' = [watermark EXCEPT ![p] = NewWatermark(@, h.block_num + 1, slot)]
        /\ slot' = slot + 1
        /\ UNCHANGED restarted

\* Nobody produces in this slot.
Miss ==
    /\ slot <= MaxSlot /\ "missed" \in Outcomes[slot]
    /\ slot' = slot + 1
    /\ UNCHANGED <<blocks, head, watermark, restarted>>

\* The node of p is stopped and started: its stores are kept.
Restart(p) ==
    /\ slot <= MaxSlot /\ slot \notin CalmSlots /\ watermark[p] # NoWatermark
    /\ Cardinality(restarted \cup {p}) <= MaxRestarted
    /\ watermark' = [watermark EXCEPT ![p] = NoWatermark]
    /\ restarted' = restarted \cup {p}
    /\ UNCHANGED <<blocks, head, slot>>

Next ==
    \/ \E i \in DOMAIN blocks : Produce(i)
    \/ Miss
    \/ \E p \in Producer : Restart(p)

Spec == Init /\ [][Next]_vars

-----------------------------------------------------------------------------
\* The blocks block i says are irreversible or proposes to be.
Final(i) == {LibBlock(i), BlockAt(i, blocks[i].hs.proposed_lib)}

\* More than two thirds of the producers confirm at most one block of each
\* number: whichever branches two blocks are on, what they propose or make
\* irreversible at the same number is the same block.
FinalByNumber ==
    LET final == UNION {Final(i) : i \in DOMAIN blocks}
    IN  \A i, j \in final : blocks[i].hs.block_num = blocks[j].hs.block_num => i = j

OnOneBranch(i, j) == i \in blocks[j].branch \/ j \in blocks[i].branch

\* What is irreversible is so for everyone: no two blocks, on whatever branches
\* and signed by whomever, make blocks of different branches irreversible.
IrreversibleAgree ==
    LET libs == {LibBlock(i) : i \in DOMAIN blocks}
    IN  \A i, j \in libs : OnOneBranch(i, j)

\* The blocks that block i confirms, itself included ("confirm the head block
\* too").
Confirms(i) == (blocks[i].hs.block_num - blocks[i].hs.confirmed)..blocks[i].hs.block_num

\* The blocks that p signs confirm no block number twice, on any two branches.
SignsOnce(p) ==
    LET signed == {i \in DOMAIN blocks : blocks[i].hs.producer = p}
    IN  \A i, j \in signed : i < j => Confirms(i) \cap Confirms(j) = {}

\* A producer whose node runs on never signs overlapping ranges, however often
\* it changes branches ("No producer should sign a block with overlapping ranges
\* or it is proof of byzantine behavior").
ConfirmsDisjoint == \A p \in Producer \ restarted : SignsOnce(p)

\* Nor does one whose node has restarted and has no watermark ("assume no
\* confirmations to make sure we don't double sign after a crash").
NeverDoubleSigns == \A p \in Producer : SignsOnce(p)
=============================================================================
