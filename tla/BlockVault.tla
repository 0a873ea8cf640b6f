----------------------------- MODULE BlockVault -----------------------------
(***************************************************************************)
(* Several nodes that are one logical producer, and the block vault they   *)
(* share: the two PostgreSQL tables of postgres_backend, written by the    *)
(* clients of blockvault_client_plugin.                                    *)
(*                                                                         *)
(* A node asks the vault before it commits a block it has constructed,     *)
(* tells it of every block it receives from peers, and offers it its       *)
(* snapshots, which prune it.  Calls go through a thread of the client,    *)
(* first in first out (block_vault_impl::ioc); only for a constructed      *)
(* block does the node's main thread wait.  A node that is refused loads   *)
(* the vault's blocks after a second, a node that starts does so first.    *)
(*                                                                         *)
(* A statement of the backend is a serializable transaction, here one      *)
(* step; it may fail, and the answer to one that has not may be lost.      *)
(* The other producers are the environment: they sign one block in each of *)
(* their slots, and the blocks that branches make irreversible agree.      *)
(***************************************************************************)
EXTENDS Integers, Sequences, SequencesExt

CONSTANTS
    Node,          \* the nodes of the logical producer
    OwnSlots,      \* the slots in which it is scheduled
    MaxSlot,       \* the last slot
    MaxBlocks,     \* how many blocks are signed
    Libs,          \* the values dpos_irreversible_blocknum may take
    MaxSnapshots,  \* how many snapshots the vault is given
    MaxFaults      \* how many nodes stop, transactions fail or answers are lost

ASSUME VaultAssumption ==
    /\ {MaxSlot, MaxBlocks, MaxSnapshots, MaxFaults} \subseteq Nat /\ Libs \subseteq Nat
    /\ OwnSlots \subseteq 1 .. MaxSlot

VARIABLES
    blocks,    \* all blocks that have been signed and sent to others
    node,      \* each node's chain, producer_plugin and vault client
    rows,      \* the table BlockData
    snaps,     \* the table SnapshotData: the snapshots' blocks
    proposals, \* the snapshots accepted so far
    faults,    \* the faults so far
    accepted   \* the constructed blocks the vault has accepted, in order

vars == <<blocks, node, rows, snaps, proposals, faults, accepted>>

-----------------------------------------------------------------------------
(***************************************************************************)
(* Blocks.  A block is the sequence of the headers from the genesis block, *)
(* which is empty, to its own: slot, the node that signed it if it is one  *)
(* of ours, and lib, which is dpos_irreversible_blocknum (0 if nothing is  *)
(* irreversible yet).  So Front(b) is its predecessor, as its id says.     *)
(***************************************************************************)
Genesis == <<>>

Num(b)   == Len(b) + 1
Slot(b)  == IF b = Genesis THEN 0 ELSE Last(b).slot
Lib(b)   == IF b = Genesis THEN 0 ELSE Last(b).lib
IsOwn(b) == Slot(b) \in OwnSlots

\* c is b or one of its predecessors.
OnBranch(c, b) == Len(c) <= Len(b) /\ c = SubSeq(b, 1, Len(c))

\* The last block that block b makes irreversible.
Final(b) == SubSeq(b, 1, Lib(b) - 1)

Child(b, s, by, l) == Append(b, [slot |-> s, by |-> by, lib |-> l])

\* What two blocks make irreversible agrees.
Agree(c, d) == OnBranch(Final(c), Final(d)) \/ OnBranch(Final(d), Final(c))

\* The fork database's preference.
Better(b, c) == Lib(b) > Lib(c) \/ (Lib(b) = Lib(c) /\ Num(b) > Num(c))

-----------------------------------------------------------------------------
(***************************************************************************)
(* A node: the blocks of its fork database, root and head; the producer's  *)
(* watermark; _latest_rejected_block_num; the timer of _block_vault_resync *)
(* ("cancelled" until its handler has run); the client's queue of blocks   *)
(* to append.  call says where the main thread is: the block made waits    *)
(* for the vault's answer, or has it, or the process is down.              *)
(***************************************************************************)
NodeOn(b) ==
    [call |-> "idle", made |-> Genesis,
     known |-> {b}, root |-> b, head |-> b,
     num |-> 0, slot |-> 0, rejected |-> 0, resync |-> "off",
     queue |-> <<>>]

\* What a process leaves on disk: the fork database, side branches included.
Down(nd) == [NodeOn(nd.root) EXCEPT !.call  = "down",
                                    !.known = nd.known, !.head = nd.head]

\* consider_new_watermark, for a block of this producer.
NewWatermark(nd, b) ==
    IF IsOwn(b) THEN [nd EXCEPT !.num  = Max({nd.num, Num(b)}),
                                !.slot = Max({nd.slot, Slot(b)})]
                ELSE nd

\* push_block of a block whose predecessor is known; others are unlinkable.
Linkable(nd, b) == b # Genesis /\ b \notin nd.known /\ Front(b) \in nd.known

Pushed(nd, b) ==
    LET head == IF Better(b, nd.head) THEN b ELSE nd.head
        root == IF Num(Final(head)) > Num(nd.root) THEN Final(head) ELSE nd.root
    IN  NewWatermark([nd EXCEPT
            !.head  = head,
            !.root  = root,
            !.known = {c \in nd.known \cup {b} : OnBranch(root, c)}], b)

\* on_sync_block: an unlinkable block is dropped.  (At a start an unlinkable block
\* number 2 stops the node instead, which then is one that does nothing.)
OnSyncBlock(nd, b) == IF Linkable(nd, b) THEN Pushed(nd, b) ELSE nd

\* The blocks of a sequence, one after the other.
Loaded(nd, order) ==
    LET after[i \in 0 .. Len(order)] ==
            IF i = 0 THEN nd ELSE OnSyncBlock(after[i - 1], order[i])
    IN  after[Len(order)]

-----------------------------------------------------------------------------
(***************************************************************************)
(* The vault.  A row has its watermark and its block, whose lib, number    *)
(* and predecessor are columns too.                                        *)
(***************************************************************************)
\* (mutant of ConstructedAllowed) The time of the last block is not compared.
ConstructedByNumber(c) == ~\E r \in rows : r.num >= Num(c) \/ Lib(r.block) > Lib(c)

\* (mutant of ConstructedAllowed) The lib is not compared.
ConstructedByWatermark(c) == ~\E r \in rows : r.num >= Num(c) \/ r.slot >= Slot(c)

\* insert_constructed_block
ConstructedAllowed(c) ==
    ~\E r \in rows : r.num >= Num(c) \/ r.slot >= Slot(c) \/ Lib(r.block) > Lib(c)

\* insert_external_block: the new row has the table's highest watermark.  The
\* column block_id is unique.
ExternalAllowed(b) == ~\E r \in rows : r.block = b \/ Lib(r.block) >= Num(b)

ExternalRow(b) == [num   |-> Max({0} \cup {r.num  : r \in rows}),
                   slot  |-> Max({0} \cup {r.slot : r \in rows}),
                   block |-> b]

\* insert_snapshot and the deletion of what it makes outdated
SnapshotAllowed(s) == ~\E t \in snaps : Num(t) >= Num(s) \/ Slot(t) >= Slot(s)

RowsAfter(s)  == {r \in rows : ~(r.num <= Num(s) \/ r.slot <= Slot(s))}
SnapsAfter(s) == {t \in snaps \cup {s} : ~(Num(t) < Num(s) \/ Slot(t) < Slot(s))}

\* sync: the blocks from the lowest watermark of the given block's successors
\* on, by number, if there are successors ...
Successors(b) == {r \in rows : r.block # Genesis /\ Front(r.block) = b}

Earlier(r, q) == r.num < q.num \/ (r.num = q.num /\ r.slot <= q.slot)

RowsSince(b) ==
    LET w == CHOOSE r \in Successors(b) : \A q \in Successors(b) : Earlier(r, q)
    IN  {r \in rows : r.num >= w.num /\ r.slot >= w.slot}

Blocks(R) == {r.block : r \in R}

ByNum(S) == {q \in SetToSeqs(S) : \A i, j \in DOMAIN q : i < j => Num(q[i]) <= Num(q[j])}

\* ... nothing if the block is a last one; otherwise the snapshot and all
\* blocks, in whatever order the table has them.
UpToDate(b) == Successors(b) = {} /\ b \in Blocks(rows)
InOrder(b)  == IF Successors(b) # {} THEN ByNum(Blocks(RowsSince(b))) ELSE {<<>>}
AnyOrder    == SetToSeqs(Blocks(rows))

-----------------------------------------------------------------------------
Init ==
    /\ blocks = {Genesis}
    /\ node = [n \in Node |-> NodeOn(Genesis)]
    /\ rows = {} /\ snaps = {}
    /\ proposals = 0 /\ faults = 0
    /\ accepted = <<>>

\* A step goes well, or is one of the faults.
Fault(happens) == /\ happens => faults < MaxFaults
                  /\ faults' = IF happens THEN faults + 1 ELSE faults

\* The blocks other nodes are waiting to commit.
Made == {node[n].made : n \in {m \in Node : node[m].call = "waiting"}}

\* A block that may be signed: its lib is not below its predecessor's and agrees
\* with the other blocks.
MayBe(c) == /\ Lib(c) >= Lib(Front(c)) /\ Lib(c) < Num(c)
            /\ Cardinality(blocks \cup Made) < MaxBlocks
            /\ \A d \in blocks \cup Made : Agree(c, d)

-----------------------------------------------------------------------------
\* start_block, up to the decision to produce, and finalize_block; then
\* async_propose_constructed_block.
MayProduce(nd, s) ==
    /\ s > Slot(nd.head) /\ s \in OwnSlots
    /\ ~(nd.rejected > Num(nd.head))
    /\ ~(nd.num > Num(nd.head))
    /\ ~(nd.slot >= s)

Propose(n, s, l) ==
    LET nd == node[n]  c == Child(nd.head, s, n, l) IN
    /\ nd.call = "idle"
    /\ MayProduce(nd, s)
    /\ MayBe(c)
    /\ node' = [node EXCEPT ![n].call = "waiting", ![n].made = c]
    /\ UNCHANGED <<blocks, rows, snaps, proposals, faults, accepted>>

\* produce_block with the answer FALSE: the block is aborted, and a resync
\* scheduled unless there is one.
Rejected(nd) ==
    [nd EXCEPT !.call = "idle", !.made = Genesis, !.rejected = Num(nd.made),
               !.resync = IF nd.resync = "off" THEN "armed" ELSE nd.resync]

\* The client's thread reaches the proposed block and the vault accepts it.
\* If the connection is lost after the commit the handler still gets FALSE.
ConstructedAccepted(n, answer) ==
    LET c == node[n].made IN
    /\ node[n].call = "waiting" /\ node[n].queue = <<>>
    /\ ConstructedAllowed(c)
    /\ blocks' = blocks \cup {c}
    /\ rows' = rows \cup {[num |-> Num(c), slot |-> Slot(c), block |-> c]}
    /\ accepted' = Append(accepted, [block |-> c, snaps |-> snaps,
                                     final |-> {Final(r.block) : r \in rows}])
    /\ node' = [node EXCEPT ![n] = IF answer THEN [@ EXCEPT !.call = "accepted"]
                                            ELSE Rejected(@)]
    /\ Fault(~answer)
    /\ UNCHANGED <<snaps, proposals>>

\* The vault has a reason to reject it, or the transaction fails.
ConstructedRefused(n) ==
    /\ node[n].call = "waiting" /\ node[n].queue = <<>>
    /\ node' = [node EXCEPT ![n] = Rejected(@)]
    /\ Fault(ConstructedAllowed(node[n].made))
    /\ UNCHANGED <<blocks, rows, snaps, proposals, accepted>>

\* on_irreversible_block: when the root moves, snapshots that were taken of blocks
\* not higher than the new root are proposed if finalize finds their block.  It
\* does so before the root is advanced, so that a block of a side branch is still
\* found.  create_snapshot takes a snapshot of a head at any time; which one of the
\* known blocks, if any, is chosen here.  The proposal may also fail: the connection
\* may be in another transaction.
ProposeSnapshot(s) ==
    /\ proposals < MaxSnapshots
    /\ SnapshotAllowed(s)
    /\ rows' = RowsAfter(s)
    /\ snaps' = SnapsAfter(s)
    /\ proposals' = proposals + 1

SnapshotsPromoted(nd, root) ==
    \/ UNCHANGED <<rows, snaps, proposals>>
    \/ nd.root # root /\ \E s \in nd.known : Num(s) <= Num(root) /\ ProposeSnapshot(s)

\* produce_block with the answer TRUE: commit_block.
Commit(n) ==
    LET nd == node[n]  new == Pushed(nd, nd.made) IN
    /\ nd.call = "accepted"
    /\ node' = [node EXCEPT ![n] = [new EXCEPT !.call = "idle", !.made = Genesis]]
    /\ SnapshotsPromoted(nd, new.root)
    /\ UNCHANGED <<blocks, faults, accepted>>

-----------------------------------------------------------------------------
\* on_incoming_block.  A block of the same producer cancels a resync, unless the
\* timer has expired already.
Receive(n, b, cancel) ==
    LET nd == node[n]  new == Pushed(nd, b) IN
    /\ nd.call = "idle"
    /\ Linkable(nd, b)
    /\ cancel => nd.resync = "armed" /\ IsOwn(b)
    /\ node' = [node EXCEPT ![n] = [new EXCEPT
                    !.queue  = Append(nd.queue, b),
                    !.resync = IF cancel THEN "cancelled" ELSE nd.resync]]
    /\ SnapshotsPromoted(nd, new.root)
    /\ blocks' = blocks \cup {b}
    /\ UNCHANGED <<faults, accepted>>

\* The blocks other producers may have signed on top of a known one: one in
\* each of their slots.  A block exists for the model when it first arrives.
OthersBlocks(b) ==
    {c \in {Child(b, s, "others", l) : s \in Slot(b) + 1 .. MaxSlot, l \in Libs} :
        /\ ~IsOwn(c)
        /\ \A d \in blocks : Slot(d) # Slot(c)
        /\ MayBe(c)}

\* The client's thread appends an external block.  If the vault rejects it, or
\* the transaction fails, nobody is told.
AppendExternal(n, ok) ==
    LET q == node[n].queue IN
    /\ q # <<>>
    /\ ok => ExternalAllowed(Head(q))
    /\ rows' = IF ok THEN rows \cup {ExternalRow(Head(q))} ELSE rows
    /\ node' = [node EXCEPT ![n].queue = Tail(q)]
    /\ Fault(ExternalAllowed(Head(q)) /\ ~ok)
    /\ UNCHANGED <<blocks, snaps, proposals, accepted>>

-----------------------------------------------------------------------------
\* The resync timer's handler.  A snapshot that becomes irreversible meanwhile
\* is not proposed: the connection is in the transaction of the sync.
Resynced(nd, order) == Loaded([nd EXCEPT !.resync = "off"], order)

Resync(n) ==
    LET nd == node[n] IN
    /\ nd.call = "idle" /\ nd.resync = "armed"
    /\ \/ /\ Successors(nd.root) # {} \/ UpToDate(nd.root)
          /\ \E q \in InOrder(nd.root) : node' = [node EXCEPT ![n] = Resynced(nd, q)]
       \/ /\ Successors(nd.root) = {} /\ ~UpToDate(nd.root) /\ snaps = {}
          /\ \E q \in AnyOrder : node' = [node EXCEPT ![n] = Resynced(nd, q)]
    /\ UNCHANGED <<blocks, rows, snaps, proposals, faults, accepted>>

\* block_only_sync::on_snapshot throws, and the node quits.
ResyncMeetsSnapshot(n) ==
    LET nd == node[n] IN
    /\ nd.call = "idle" /\ nd.resync = "armed"
    /\ Successors(nd.root) = {} /\ ~UpToDate(nd.root) /\ snaps # {}
    /\ node' = [node EXCEPT ![n] = Down(nd)]
    /\ UNCHANGED <<blocks, rows, snaps, proposals, faults, accepted>>

ResyncCancelled(n) ==
    /\ node[n].call = "idle" /\ node[n].resync = "cancelled"
    /\ node' = [node EXCEPT ![n].resync = "off"]
    /\ UNCHANGED <<blocks, rows, snaps, proposals, faults, accepted>>

\* chain_plugin's start with the vault: blockvault_sync_strategy::do_sync.  The
\* producer plugin starts later, so these blocks leave no watermark.  The process
\* ended at any moment before: until it is started again it is like one that
\* does nothing.
Started(nd, order) ==
    [Loaded([nd EXCEPT !.call = "idle"], order) EXCEPT !.num = 0, !.slot = 0]

StartFrom(n, nd, orders) ==
    /\ Fault(node[n].call # "down")
    /\ \E q \in orders : node' = [node EXCEPT ![n] = Started(nd, q)]
    /\ UNCHANGED <<blocks, rows, snaps, proposals, accepted>>

\* With the block log of the last run.  A snapshot the log has is replayed up to
\* the log's head; with one beyond the log the node does not start.
Start(n) ==
    LET nd == Down(node[n]) IN
    IF Successors(nd.root) # {} \/ UpToDate(nd.root)
    THEN StartFrom(n, nd, InOrder(nd.root))
    ELSE IF snaps = {} THEN StartFrom(n, nd, AnyOrder)
    ELSE /\ \A s \in snaps : OnBranch(s, nd.root)
         /\ StartFrom(n, NodeOn(nd.root), AnyOrder)

\* On an empty disk: from the snapshot, or from the genesis block.
StartAfresh(n) ==
    \E b \in IF snaps = {} THEN {Genesis} ELSE snaps : StartFrom(n, NodeOn(b), AnyOrder)

-----------------------------------------------------------------------------
Next ==
    \E n \in Node :
        \/ \E s \in OwnSlots : \E l \in Libs : Propose(n, s, l)
        \/ \E answer \in BOOLEAN : ConstructedAccepted(n, answer)
        \/ ConstructedRefused(n)
        \/ Commit(n)
        \/ \E ok \in BOOLEAN : AppendExternal(n, ok)
        \/ \E b \in blocks \cup UNION {OthersBlocks(c) : c \in node[n].known} :
               \E cancel \in BOOLEAN : Receive(n, b, cancel)
        \/ Resync(n) \/ ResyncMeetsSnapshot(n) \/ ResyncCancelled(n)
        \/ Start(n) \/ StartAfresh(n)

Spec == Init /\ [][Next]_vars

-----------------------------------------------------------------------------
\* A block that is accepted later has a higher number and a later slot than
\* every block of this producer that was accepted before, whichever nodes made
\* them, whatever they had received, and whether or not they learned of the
\* acceptance, unless a snapshot at or above the earlier one has pruned it.
\* (propose_constructed_block: "no future proposed blocks will be accepted which
\* is in conflict with this block due to double production".)
ProductionOrdered ==
    \A j \in DOMAIN accepted : \A i \in 1 .. j - 1 :
        LET a == accepted[i].block  b == accepted[j].block
        IN  \/ Num(b) > Num(a) /\ Slot(b) > Slot(a)
            \/ \E s \in accepted[j].snaps : Num(s) >= Num(a) \/ Slot(s) >= Slot(a)

\* An accepted block continues every block that was irreversible for a block the
\* vault had: no accepted block is a finality violation, on whatever fork the
\* node that made it was.
ExtendsFinal ==
    \A j \in DOMAIN accepted :
        \A f \in accepted[j].final : OnBranch(f, accepted[j].block)

\* Without the exception this is what the interface promises.  A snapshot deletes
\* the watermarks up to its own, and a node that lags may then sign again.
NeverDoubleProduces ==
    \A j \in DOMAIN accepted : \A i \in 1 .. j - 1 :
        Num(accepted[j].block) > Num(accepted[i].block)
=============================================================================
