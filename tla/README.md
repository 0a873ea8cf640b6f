# A TLA+ model of the DCD node's chain core

The modules here model how a `dcdnode` decides which chain it is on and gets
there: the fork database, the controller's fork switching, irreversibility and
restart, the DPoS bookkeeping of block headers, on one branch and among several
producers, the activation of protocol features, the synchronization with peers,
and the block vault several nodes of one producer share. TLC checks them on
small instances. TLAPS proves their safety properties for all
values of the constants: everything about the fork database; of the controller,
that it uses the fork database correctly, that it implements a growing chain of
final blocks, that its stores agree and, when the cached fee rate does not
decide whether blocks are valid, that it is on the best branch; all that is
stated about one branch's headers, about protocol features and about the block
vault; that no producer confirms a block twice on any branches and that no two
blocks of one number are irreversible; and that a sync skips no block. Section 5
gives the arguments and the conditions.

## 1. The system

A node receives blocks from peers (`net_plugin`) or makes its own
(`producer_plugin`). Both end in the **controller**, whose single main thread
owns five stores that have to agree:

| store | code | state |
|---|---|---|
| fork database | `fork_database.cpp` | root, head, the reversible block states, which of them are validated; `fork_db.dat` between runs |
| chain state | `combined_database`, chainbase | a committed base and a stack of undo sessions, one per reversible block |
| reversible blocks | `reversible_block_object` | the blocks of the head's branch above the log |
| block log | `block_log.cpp` | the irreversible blocks, append-only |
| caches | `controller_impl`, `transaction_fee_manager` | `head`, `pending`, the fee rate `contract_cur_rate` |

| component | operations | what makes it correct | modelled |
|---|---|---|---|
| fork_database | add, mark_valid, remove, advance_root, rollback_head_to_root, reset, close, open, pending_head, fetch_branch | no orphaned branch; head is a best validated block; pending_head is a best block; the file can be read back | yes |
| controller | push_block, maybe_switch_forks, pop/apply_block, log_irreversible, start/abort/finalize/commit_block, startup, init, replay, destructor | the stores agree after every call, returned or thrown; irreversible blocks stay; the node ends on the best valid branch; a restart resumes | mostly |
| block_header_state | next, calc_dpos_last_irreversible, _finish_next; set_proposed_producers, set_proposed_rate and the promotion in start_block | the lib is supported by more than 2/3 and never decreases; nobody confirms a block twice; promotions never throw and happen | mostly |
| protocol_feature_manager | check_protocol_features, preactivate_feature, activate_feature, popped_blocks_to, init; the producer's scheduled activations | header states, chain state and manager agree; a preactivated feature is activated by the next block; nothing requested stops the chain | mostly |
| transaction_fee_manager | get_new_rate_params | the cached rate is the head's | the cache only |
| combined_database, block_log | undo stack; append | see the stores above | their interface |
| producer_plugin | block timing, watermarks, incoming transactions | no double production, no double confirmation, on any branches; the producers never make two blocks of one number irreversible; a scheduled feature is activated | watermarks, the confirm rule, scheduled features |
| net_plugin: sync_manager | recv_handshake, sync_recv_notice, start_sync, request_next_chunk, verify_catchup, sync_reassign_fetch, sync_recv_block, rejected_block | no block is skipped; the node reaches its peers' lib whatever is lost or late | yes, for one chain |
| net_plugin: connections, dispatch_manager | connect, close, handshakes, notices, block messages, the response timer, bcast_block; transactions, heartbeats, framing, authentication | | what sync_manager uses |
| blockvault_client_plugin | propose_constructed_block, append_external_block, propose_snapshot, sync; resync and start in producer_plugin and chain_plugin | the nodes of one logical producer never sign two blocks for a number or a slot, and none against what is irreversible | mostly |
| unapplied_transaction_queue, authorization_manager, state history and trace logs | | | planned, section 8 |
| transaction execution, wasm, ABI, snapshots, HTTP, wallet, command line tools, vendored libraries | | | no |

`PROJECT.json` lists every component with its sources.

What is hard here is not one call but what a call leaves when it *fails*. A
fork switch is a sequence of pops and applications, any of which may throw; an
append to the log may throw after half of a branch has been logged; the process
may die between any two of these steps; and a restart compares stores that
different calls have written. On the network it is what arrives *late*: a block
of a branch that has been left, a chunk whose request was given to another peer,
a timeout that had expired before it was cancelled. The hazards list of
`PROJECT.json` gives the line where each bites and the property that covers it.

## 2. The modules

```
BlockTree  <-  ForkDatabase  <-  Controller  <-  MCController
   ^                 ^             ^
   |                 |             |
   |      MCForkDatabase   ControllerProofs  (about both)
   |
IrreversibleChain     (instantiated by Controller)

DposHeader  <-  BlockHeaderState  <-  MCBlockHeaderState
   ^    ^
   |    ProducerNetwork  <-  MCProducerNetwork
   |
DposHeaderProofs  <-  BlockHeaderStateProofs, ProducerNetworkProofs
                      (each also extends the module it is about)

ProtocolFeatures  <-  MCProtocolFeatures, ProtocolFeaturesProofs
SyncManager       <-  MCSyncManager, SyncManagerProofs
BlockVault        <-  MCBlockVault, BlockVaultProofs

NaturalSets           (induction and maxima, for the proof modules)
```

**BlockTree** holds the tree of all blocks a node may meet as constants: `Prev`,
`BlockNum`, `DposLib`. A block's header state is a function of the block and
its ancestors, so the fork database and the controller need only these two
numbers of it, and the id, whose order (`sha256_less`) breaks ties. The
assumptions are: numbers grow by one, a block's lib is below its own number, and
the lib does not decrease from a block to its child. `BlockHeaderState` is where
the last two come from (`LibBehindProposed`, `LibNeverDecreases`), and
section 4 says when the last one fails.

**ForkDatabase** has one action for each operation. The index is a set of ids;
its `by_lib_block_num` order is `IndexBefore` below the validated flag. The
fork database's file is the record `saved`, and the order in which `close()`
writes it is `WrittenBefore`, because `open()` depends on it.

**Controller** has one action per call the main thread makes, and `pc` names the
next one. Only when `pc` is `"idle"` can a new top-level call begin.

| actions | code |
|---|---|
| `PushBlock`, `RejectBlock` | `create_block_state_future`, `push_block` |
| `MaybeSwitchForks`, `PopBlock`, `ApplyBlock` | the way through `maybe_switch_forks` |
| `ApplyBlockThrows`, `UnapplyBlock`, `ReversalOfEmptyBranch`, `ReapplyBlock` | its way out when a block throws |
| `LogIrreversible`, `AppendBlock`, `AppendApplyThrows`, `AppendThrows`, `AdvanceToLogHead` | `log_irreversible`, whose loop may throw in `apply_block` or in `blog.append` |
| `StartBlock`, `AbortBlock`, `CommitBlock`, `CommitMarkValid`, `CommitPush` | producing a block |
| `Shutdown`, `Startup`, `StartupHead`, `StartupChecks`, `StartupBestBranch` | the destructor, the constructor, `startup` and `init` |
| `Crash`, `StartupGenesis`, `ReplayIrreversible`, `ReplayReversible`, `ReplayEnds` | the process dies between two steps, leaving the block log and the reversible blocks; `startup` with the genesis state, `replay` and `replay_push_block`, after a crash or because a replay is asked for |

Executing a block is abstracted to whether its result has the block's id. That
depends on the parent's state, which the model tracks as the block at the top of
the undo stack, and on the cached fee rate: `Reproducible[b]` is the set of
rates under which `b` can be executed, empty for an invalid block.

**IrreversibleChain** is the abstract specification of a node: a sequence
`final` of irreversible blocks and a block `tip`. The tip moves by one block at a
time and never leaves what is final; a block becomes final in order, at the
tip's side; a stop sends readers back to the last final block, from which the
node may resume. `Controller` instantiates it with the block log for `final`
and, for `tip`, the controller's head while the node is serving and the log's
head while it is down, starting, replaying the log or has failed to start.

**DposHeader** has the pure functions of `block_header_state.cpp`: what the
header state of a block is, given its parent's. The two modules that follow use
it.

**BlockHeaderState** follows one branch. `StartBlock` computes the next header
state and promotes what is due, `SetProposedProducers` and `SetProposedRate`
happen while the block is being built, and `FinishNext` completes it. Confirm
counters are 8 bit and the double-confirm check is unsigned, as in the code.
Time slots are counted modulo a common multiple of the schedules' lengths.

**ProducerNetwork** has the tree of all blocks that the producers of a schedule
have signed, each with its header state. In every slot the scheduled producer
signs on its head (`Produce`) or nobody does (`Miss`); `Outcomes` says which of
the two a slot may have. Messages are not
modelled as such: a node may have received any part of the tree, so its head is
its old one or any signed block that it takes (`Takes`: preferred to the old
head, and built on that one's last irreversible block). This covers every delay,
loss and order.
`MayProduce`, `BlocksToConfirm` and `NewWatermark` are the producer plugin's
rules; `Restart` loses the watermark, which is kept in memory. In the slots of
`CalmSlots` nobody restarts and a block reaches every node before the next is
signed (`Heads`), so that the lib can have begun to move when anything may
happen.

**SyncManager** has one action per task of a connection's strand and per message
received. `sync` holds the members of `sync_manager`, `conn` our side of each
connection with its `strand` (posted tasks, first in first out) and its response
timer, `peer` the other side with the blocks we have asked it for and the `wire`
of what it has sent. `chain` is the application thread, which takes received
blocks from a queue and posts the outcome to a strand. A handler is an operator
from a record of all variables to another, so that the code's calls are
operator applications; where the code releases the lock between two parts
(`sync_recv_block` after `sync_update_expected`) they are two steps.

| actions | code |
|---|---|
| `Connect`, `Lose`, `Close` | `connect`, a failing socket, `_close` with `sync_reset_lib_num` |
| `ReceiveHandshake`, `ReceiveNotice`, `ReceiveBlock` | `handle_message`, `process_next_block_message`, with `recv_handshake`, `sync_recv_notice`, `start_sync`, `verify_catchup` |
| `ProcessSignedBlock`, then `AcceptedBlock`, `KnownBlock` or `RejectedBlock`, `RecvBlock` | `process_signed_block` on the application thread, then `sync_recv_block` or `rejected_block` on the strand |
| `SendHandshake`, `RequestSyncBlocks` | the tasks `send_handshake` and `request_next_chunk` post |
| `TimerExpires`, `SyncTimeout` | `sync_wait`, `sync_timeout`, `sync_reassign_fetch`: an expired timer runs even if it is cancelled before its turn |
| `ExpireBlocks` | the dispatcher forgets irreversible blocks, after which a block we have is received as if it were new |
| `PeerSendsBlock`, `PeerGrows` | the peer's `enqueue_sync_block` and `bcast_block` |

**ProtocolFeatures** follows one branch too, as the sequence `chain` of what
each block's header state (`header`) and chain state (`activated`,
`preactivated`) say about features. `cache` is the manager's memory, `pending`
the building block, `scheduled` and `signaled` the producer plugin's wish list.

| actions | code |
|---|---|
| `ScheduleProtocolFeatureActivations`, `StartBlock`, `ProduceBlock`, `ProduceBlockThrows` | `producer_plugin`, with `controller::start_block`, `finalize_block` and `commit_block` |
| `ApplyBlock`, `CommitBlock` | a received block |
| `PreactivateFeature` | a transaction of the building block |
| `AbortBlock`, `PopBlock`, `Restart` | `abort_block`, `pop_block`, `protocol_feature_manager::init` |

A `start_block` that throws half way is one step of `StartBlock` or
`ApplyBlock`: it activates a first part of the list and the scoped guard pops it
again. A feature that is disabled or unknown on the node is one whose earliest
activation time never comes. `is_builtin_activated` compares with a number that
is larger than any block number when a feature is not active; the model writes 0.

**BlockVault** has the two tables of `postgres_backend` as sets (`rows`, with
the watermark and the block; `snaps`) and, per node, what takes part: the fork
database with root and head, the watermark, `_latest_rejected_block_num`, the
resync timer and the client's queue. A block is the sequence of headers that
leads to it, so forks need no constants. What other producers sign is the
environment: one block in each of their slots, on any branch. Their libs and
ours are assumed to agree; `irreversible_split` in section 4 shows what it takes
that they do not.

| actions | code |
|---|---|
| `Propose`, then `ConstructedAccepted` or `ConstructedRefused`, `Commit` | `produce_block`, whose main thread waits for the vault's answer; a transaction may fail, and the answer of one that committed may be lost |
| `Receive`, `AppendExternal` | `on_incoming_block`; the block is appended later, by the client's thread |
| `SnapshotsPromoted`, in `Commit` and `Receive` | `on_irreversible_block`, which proposes a snapshot of a block that has become irreversible |
| `Resync`, `ResyncMeetsSnapshot`, `ResyncCancelled` | the timer handler of `block_only_sync` |
| `Start`, `StartAfresh` | `blockvault_sync_strategy`, with the block log or on an empty disk |

A down node is like one that is silent, so a restart is one step. Clocks of the
nodes differ by any amount: a node may propose for any of its slots after its
head. A block of other producers comes into being when a node first receives it.

## 3. The runs

| run | instance | what it shows |
|---|---|---|
| `forkdb` | seven blocks, two branches that tie | all sequences of calls keep the index linked, head and pending head best, the file readable; only rollback and reset worsen the head |
| `controller_sync` | twelve blocks on three branches, two of them invalid, fee rates that differ between branches, one failing append | after every call the state and the best-branch rule hold; no block that can be executed is lost; a failed switch restores the old branch; the node catches up |
| `controller_produce` | the same tree, all valid; production, restarts, crashes at any step, replays, both read modes | the node starts without an assert; after an orderly stop at the same head, with nothing to replay; after a crash or a replay with stores that agree |
| `controller_faults` | invalid blocks, production, one failing append, restarts, crashes with replay and both modes together | the node implements `IrreversibleChain`; reversible blocks are those of the head; log, root and committed state agree; `advance_root` is called within its contract; no assert of a fork switch fires |
| `headers` | the system account, then schedules of two and of four producers and a new fee rate, proposed at any time, an empty schedule being refused; missed slots, headers confirming anything the checks accept, a window of 4 | the lib is supported, never decreases and is behind the proposed lib; the window and its counters are right; promotions never meet a failing assert and never get stuck; nobody confirms twice |
| `producer_network` | four producers, any delays and missed slots after two calm rounds, one restart | what two blocks propose or make irreversible at one number is one block; a producer that was not restarted never signs overlapping ranges |
| `sync_catchup` | two peers that have the whole chain, or one that grows while the other cannot be reached; one lost connection or early timeout at any moment | no block is skipped; the node reaches the peers' last irreversible block |
| `features` | four features: one free, one that needs preactivation, one that also depends on both, one allowed only later; branches of five blocks | the three records agree; preactivation is honoured by the next block; no request stops the producer; what is scheduled is activated or stays scheduled |
| `block_vault` | two nodes of one producer with two slots, other producers' blocks before, between and after them, two libs, one snapshot, one fault or restart | accepted blocks ascend in number and slot unless a snapshot pruned the earlier one; each continues all that the vault's blocks make irreversible |
| `stale_fee_rate` | violates `ReapplySucceeds` | |
| `irreversible_split` | violates `IrreversibleAgree` | |
| `sync_stall` | violates `QuietIsCaughtUp` | |

*Bounds.* The controller's tree has two branches of equal length, so that ties,
switches in both directions and switches of up to three blocks happen, and blocks at
the ends that make two more numbers irreversible at once, so that an append can
fail between two. One append failure is enough for each call to meet one; the
numbers of restarts, crashes and replays are not bounded. The run of headers is
bounded by the length of the branch (9 blocks). Within it a schedule of two or of
four producers becomes active, and that of four also after that of two; each block
comes one or two slots after the one before. Without the feature that refuses an
empty schedule (`DisallowEmpty = FALSE`) the properties hold too, in 2.9 million
states; the run has it, and the theorems are for both. In `producer_network` eight slots are free; with a mutant that
needs too few confirmations two blocks of one number are irreversible by then.
`irreversible_split` says of each slot whether a block is signed in it and
whether it arrives at once, because the disagreement takes 33 slots; which branch
a producer signs on is left free. In
`sync_catchup` a chunk is one block and the chain has four, so that a sync takes
several chunks and the peer's head, lib and our head are all different; the lib
is one block behind the head. In `block_vault` four slots are enough for a node
that lags, or is on the branch that lost, to propose beside a block of the
other, and for a snapshot between two proposals. Runs that stop at a bound or in a final state do
not check for deadlock; the others do.

*Fairness* is used by the two `CatchesUp` only. In `Controller`, `WF(Step)`: the
main thread, once in a call, takes its next step; nothing in it waits for
another actor. `SF(PushBlock(b))`: peers offer a block again until it is
accepted, which is what the sync protocol does for a block above a node's head;
strong, because the node is busy between the offers. In `SyncManager`,
`WF(Progress)`: as long as a thread has a task, a message is on the wire, a
timer is armed or a connection is closed, one of these goes on: thread pools run
posted tasks, an armed timer expires, and closed connections are opened again by
`connection_monitor`. Nothing is assumed of the peers' growth, of faults or of
which of several tasks runs first.

*What the properties leave to assumptions.* `StateMatchesHead` and
`StartupSucceeds` are checked without append failures in a producing node, and
`OnlyInvalidDropped` and `ReapplySucceeds` with branches whose fee rates differ,
but whose first blocks pay no fee and so execute alike under either rate, because
section 4 shows that they fail otherwise. In `features` the timestamp of block n
is n: blocks are made in consecutive slots.

## 4. Disagreements found

- **`stale_fee_rate`.** The cached rate is read again only by `commit_block`, so
  a switch across a rate change executes both branches under the wrong rate; the
  reversal fails too and leaves the head below both.
- **`sync_stall`.** The node is in `head_catchup` with a peer that lags itself
  when another peer's notice says that it is far behind. `start_sync` requests a
  chunk but changes the stage only from `in_sync`. The next block of the first
  peer ends `head_catchup`: the source is forgotten and the stage is `in_sync`.
  The handshakes that would start the sync again are skipped when the head is
  what the last ones said, the chunk arrives and nothing follows it; the peer
  that is ahead still takes us for syncing and does not send new blocks.

- **`irreversible_split`.** The documentation calls the blocks of `blocks.log`
  final. Two nodes can log different blocks with no fault but late blocks and
  missed slots. Four producers; the fourth is cut off after three slots and goes
  on alone. The three others propose block 8 and one of them confirms that with a
  block of which only it hears: for it, block 8 is irreversible. The other two
  have confirmed block 8 and know it as proposed, but the lib of their heads has
  not moved, and a node compares branches by lib and by length only
  (`first_preferred`). The fourth's branch has become longer, so they take it, and
  the three together make block 13 of that branch irreversible. No producer
  confirms a number twice, so at *one* number there is one block
  (`FinalByNumber`, which is proved); but nothing makes a producer stay with a
  branch whose block it has confirmed.

*Known limits*, which the same models show with other constants and which the
passing runs exclude by their bounds:

- after a failed switch the applied part of the new branch stays validated. If
  its tip ties with the head and has the smaller id, the next `add()` makes it the
  fork database's head (`fork_database.cpp:329`); when that push throws, the
  controller stays where it was. The stores disagree and the next start fails in
  `init()` (`StartupSucceeds` alone in `ControllerProduce.cfg`, with `Reproducible <-
  OneRateInvalid`, `Produced = {}`, `Modes = {"speculative"}`, `MayReplay =
  FALSE`, `MayCrash = FALSE`);
- a snapshot deletes the vault's watermarks up to its own, and, with the
  watermark they inherited, external blocks above it. A node that lags may then
  have a block accepted at a number at which another's was accepted before
  (`NeverDoubleProduces` as an invariant in `BlockVault.cfg`);
- the fork choice at start-up: a branch of several blocks on top of the head,
  left by irreversible mode, fails part way; the reversal then reads
  `branches.second.back()` of an empty vector (`StartupSucceeds` with both
  modes and invalid blocks);
- a schedule that goes from four producers to three, one of which lags, lowers
  the lib from a block to its child (`LibNeverDecreases` with `Schedules <-
  Shrinking`, `Offline = {bpc}`, `SlotCycle = 12`, `MaxTracked = 8`,
  `MaxConfirmed = 6`, `HonestConfirms = TRUE`, `MaxBlockNum = 22`): "committed
  block did not become the new head in fork database" may fire;
- a producer whose node restarts has no watermark. It then confirms nothing, "to
  make sure we don't double sign after a crash", but signs a block with a number
  it has signed before when a shorter branch with a higher lib has become the
  better one (`NeverDoubleSigns` with `Schedule <- ThreeProducers`,
  six calm slots and `MaxSlot = 16`). With at most a third of the producers
  restarted `FinalByNumber` still holds;
- two early timeouts can make the peer drop its notice together with the blocks
  and leave the node at rest behind a growing peer; so can a timeout that runs
  after the sync has ended (`sync_catchup` with `MaxFaults = 2`, or with a peer
  that grows by two);
- `blog.append` throws inside `commit_block`: `abort_block` undoes the state, but
  `head`, the fork database and the reversible block stay (`StateMatchesHead`
  with `Produced` not empty and `MaxAppendFailures = 1`);
- `produce_block` clears the scheduled features before it signs the block; when
  signing fails or the block vault rejects the block they are not scheduled any
  more (`ScheduledIsActivated` speaks of blocks that are produced);
- a failing append in irreversible mode leaves the state one block ahead of the
  log (`IrreversibleHeadIsLogged` with `MaxAppendFailures = 1`);
- a replay that is asked for keeps `fork_db.dat`; if an append had failed before
  the stop, `log_irreversible`, which reads the fork database's head, logs and
  commits blocks the replay has not reached yet (`IrreversibleStays` with
  `MaxAppendFailures = 1` and `MayReplay = TRUE`);
- a header that confirms more blocks than the branch has passes the
  double-confirm check by unsigned underflow (`NoDoubleConfirm` with
  `MaxConfirmed = 5` and one producer);
- a negative rate, which the native `setrate` action does not refuse, becomes
  pending and never active, and no later rate can become pending
  (`PendingRateIsPromoted` with a negative element of `RateValues`).

## 5. The proofs

The theorems hold for all values of the constants that satisfy the named
assumptions of the modules: every block tree, infinite ones too, every set of
invalid blocks, every number of nodes, producers, features and faults. The
conditions a theorem has beyond these are part of its statement, and each is one
whose failure section 4 lists.

| module | theorems | inductive invariant |
|---|---|---|
| `ControllerProofs` | `TypeCorrect`, `NeverOrphaned`, `HeadAlwaysBest`, `PendingHeadAlwaysBest`, `AlwaysReopens`, `HeadOnlyImproves` (of `ForkDatabase`) | `FdbInv`, `FdbFinite` |
| | `NodeReopens`, `NodeTypeCorrect` | `BaseInv` |
| | `NodeIrreversibleStays`, `NodeAdvanceRootContract`, `NodeImplementsChain`, `NodeIrreversibleHeadIsLogged` | `NodeInv` = `BaseInv`, `ControlInv`, `PositionInv` |
| | `NodeSwitchInSync` | `PathInv`, over `NodeInv` |
| | `NodeStateMatchesHead`, `NodeReversibleIsBranch`, `NodeRestartResumes`, `NodeOnlyInvalidDropped` | `UndoInv`, `RevInv`, `SavedHead`, over `NodeInv` |
| | `NodeOnBestBranch`, `NodeCommitTakesHead`, `NodeReapplySucceeds` | `ValidInv`, `BestInv`, over all of these |
| | `NodeStartupSucceeds` | `GoodNode` = all of these, `AtLog` and `UpInv` |
| `BlockHeaderStateProofs` | `HeaderTypeCorrect`, `HeaderLibBehindProposed`, `HeaderPromotionNeverThrows`, `HeaderSchedulePromoted`, `HeaderRatePromoted`, `HeaderConfirmWindow`, `HeaderLibIsSupported`, `HeaderLibNeverDecreases`, `HeaderNoDoubleConfirm`, `HonestNoDoubleConfirm` | `HeaderTypeInv`, then `VersionInv`, `WindowInv`, `SupportInv`, `ConfirmedInv` |
| `ProducerNetworkProofs` | `NetworkConfirmsDisjoint` | `NetInv` |
| | `NetworkFinalByNumber` | `FinalInv` = `NetInv`, `AgreedInv`, `FewRestarted` |
| `SyncManagerProofs` | `SyncNothingSkipped` | `Inv`: the world is in `World(head)` |
| `ProtocolFeaturesProofs` | `FeatureViewsAgree`, `PreactivationIsHandled`, `NothingStopsTheProducer`, `ScheduleIsNotLost` | `FeatureInv`, `ListInv` |
| `BlockVaultProofs` | `BlockVaultProductionOrdered`, `BlockVaultExtendsFinal` | `VaultInv` |

**Fork database.** None of its properties is inductive alone. The invariant is

    FdbInv == FdbTypeOK /\ Linked /\ HeadIsBestValidated /\ SavedConsistent

`Linked` is needed for `advance_root`: the blocks it leaves are those whose way
to the new root is in the index (lemma `BranchInIndex`). `HeadIsBestValidated`
needs that `add` picks the first of *all* validated blocks and that `remove`
and `advance_root` never drop the head. `SavedConsistent` carries both across
`close` and `open`. `ReopenSucceeds` then follows because a block is strictly
preferred to its predecessor, so `close()` never writes it first; this is where
the monotone lib is used. `pending_head` needs that the index is finite
(`FdbFinite`), for only then is there a first block. `Ancestors` is defined as a
least closed set rather than by recursion: the facts about it
(`AncestorsPrev`, `PreferredToAncestors`) are proved by exhibiting a closed set.

**Controller and fork database.** Every step of the controller is a step or a
stutter of the fork database (`StepIsFdbStep`, one case per action), by the way
the controller's module is composed; the lemma `NodeIsFdb` says so once, and what is
proved of the fork database holds in every node.

**Controller: types.** Even the type of the undo stack depends on what relates
the stores: `kv_db.commit` drops as many sessions as two block numbers differ
by, `init()` keeps as many, and both are within the stack only if the committed
revision is not above the log's head. `BaseInv` has the log as one block of each
number (`LogInv`) and what each stage of a call or a start relies on
(`StageInv`).

**Controller: what is irreversible.** `ControlInv` says which call is at which
step; `PositionInv` where root, log, head and the branches of a switch are on
the tree, in each step of each call, and in a stopped node what its files will
make of it. The core of the argument is that a validated block's predecessors
are validated down to the root (`ClosedInv`), so the head of the fork database
and the controller's are both on branches of the root, and that the branches of a
switch meet at or above the root (`SwitchInv`), so no pop goes below it. From this
come `IrreversibleStays`, the contract of `advance_root`, and `Spec => ChainSpec`:
each step of the node is a step or a stutter of `IrreversibleChain` under the
mapping of section 2.

**Controller: fork switches.** `SwitchInSync` says that the asserts on the way of a
switch do not fire: "attempt to pop beyond last irreversible block" and the two
"loss of sync between fork_db and chainbase". The index shrinks during a
switch, by `remove(id)` of the block that threw with all that is built on it, so
`PathInv` is needed: from where the head is, up to the end of the branch to apply, or of
the one to apply again, every block is in the index; what is removed is
on the one branch and above the place where the two part, hence not on the other.
`OnlyInvalidDropped` says that what a running node's index loses is final, beside
the final branch, or cannot be executed: a block throws only for its own
sake, since `UndoInv` has its parent's state below it at each step of the switch.

**Controller: the stores agree.** `UndoInv` says that the undo stack is the
branch from the committed block to the head, at every step (`Stacked`); `RevInv`
that the reversible blocks are those of the head's branch above the log, and in a
stopped node those from which a start or a replay makes that branch again.
`SavedHead` relates the stopped node's head to the file of the fork database.
These are long because a call that throws leaves in the middle: each intermediate
step needs its own relation of the stores.

**Controller: fork choice.** `ValidInv` says that what is validated, stored or
logged has been executed, so it can be executed again when the cached rate does
not decide: the old branch of a failed switch is re-applied to its tip. `BestInv`
says, of every step, which blocks of the index are preferred to which tip. Between
calls none is preferred to the head. When `maybe_switch_forks` is entered only the
block that was pushed is. In a switch the last block of the new branch is a best
one, and every block preferred to the old tip is built on the whole of the new
branch, so that removing the block that throws, with what is built on it, removes
all of them, and the tip that the reversal comes back to is the best again. At
`commit_block` only the committed block is preferred to its predecessor, hence
it becomes the fork database's head and the assert does not fire. A replay has one
branch only, and a stopped node's file has a best block as its head.

**Controller: start-up.** When every block can be executed and no append throws,
no call ends with an exception (`UpInv`), so the node is stopped at the fork
database's head, whose branch above the log is what is stored. On these, `init()`
finds no gap after the log (`RevInv`), no undo revision below the head
(`UndoInv`), and the pending head on the branch of the last stored block
(`BestInv`). It is the only theorem that needs all of the invariants.

The conditions of the controller's theorems:

- `~MayReplay`: the operator does not ask for a replay while there is a usable
  state. Crashes and the replay after a crash are included. With it, a failed
  append before the stop breaks `IrreversibleStays` (section 4);
- `CommitTakesHead`: the assert of `commit_block` that the committed block is the
  new head does not fire. `NodeCommitTakesHead` proves this from `~MayReplay`,
  `CommitsLog`, `StopsAtForkHead` and `RatesDoNotMatter`, so that it is a condition
  of its own only when rates matter;
- `CommitsLog`: no append to the log throws inside `commit_block` (section 4);
- `AppendsSucceed`, for `IrreversibleHeadIsLogged`: none throws at all (section 4);
- `StopsAtForkHead`: the node is not stopped while its head differs from the fork
  database's. They differ after a failed switch that was preceded by an `add()`
  which changed the head among tied blocks (section 4, first limit): the start
  then fails;
- `RatesDoNotMatter`, for `OnBestBranch` and `ReapplySucceeds`: each block can be
  executed under all fee rates or under none. `stale_fee_rate` shows the latter
  false without it, so the theorem says that the cached rate is the only reason;
- `NoneInvalid`, for `StartupSucceeds`: every block can be executed under every
  fee rate. With an invalid block a switch can fail, and the first and the third
  limit of section 4 show that the node may then not come up.

**Headers.** `DposHeaderProofs` has what `next` and
`calc_dpos_last_irreversible` do to one header; `DposInv` is preserved by them.
`HeaderTypeInv` adds the block being built as a function of the last header and
of what `start_block` has made pending (`BuildingOf`), so that `FinishNext` can be
reasoned about. `VersionInv` (the versions of what is active, pending, proposed
follow each other) gives `PromotionNeverThrows`. `WindowInv` gives the shape of
`confirm_count`: the entries are between one and what all producers together
would require, so that the 8 bit decrement never wraps.
`SupportInv` needs `ToleranceKept` (no schedule becomes active that tolerates
fewer lagging producers than the one before); without it section 4 shows the lib
to decrease. `ConfirmedInv` says that a producer who joins a schedule starts at
the lib, which is past everything it confirmed before it left. The double-confirm
theorem excludes headers that confirm more blocks than exist, for which the check
wraps; honest producers make none (`HonestNoDoubleConfirm`). Rates are promoted
when none is negative. The lib of `calc_dpos_last_irreversible`, an element
of a sorted sequence, is characterised by counting (`Below`): less than a third
of the producers are behind it.

**Producers.** `NetInv` says that a producer that has not restarted has signed
nothing above its watermark, and nothing twice. `BlocksToConfirm` confirms
numbers above the watermark only, so the ranges are disjoint, whatever branch the
producer is on. No assumption on messages is used: `MayHave` is not looked at.

`NetworkFinalByNumber` is the argument about quorums, over header states that
only count. `AgreedInv` says of every block of the tree what its header state
stands for: its branch has one block of each number (`BranchOK`); the counter of a
number in `confirm_count`, plus the producers of the branch that have confirmed
that number, is what is required of it (`CountOK`), where each producer is counted
once because its ranges on a branch are disjoint; and so the proposed lib, the lib
and all implied ones are numbers that `Needed` producers, more than two thirds,
have confirmed on the branch (`AgreedOK`). The part that is about one header is in
`DposHeaderProofs`: `ConfirmAccounts` follows the loop of `next()` that counts
down, ends at a number that reaches zero, cuts the window there and proposes it.
Two sets of more than two thirds share more than a third of the producers
(`QuorumsMeet`), so if at most a third have restarted they share one that has not.
By `ConfirmsDisjoint` it has confirmed the number with one block, which is
therefore on both branches, and so is the block of that number below it
(`SameBlock`). The condition `3 * MaxRestarted <= Len(Schedule)` is the usual
fault bound; a restart is the fault here, because the watermark is lost with it.
TLC has checked `FinalInv` on the instance of `producer_network` with 14 slots.

**Synchronization.** `sync_next_expected_num` is written by every strand, for
blocks that were applied, known or thrown away long before, so `NothingSkipped`
is not inductive: a task that waits on a strand could name any block. The
invariant types everything that can wait: an accepted or known block of a task is
one up to our head, `have_block` says so of a received one, and the head only
grows. `World(h)` is the set of worlds in which this is so for head `h`; each
handler maps `World(h)` to itself, and the handlers compose as the calls do. Only
`process_signed_block` leads to `World(h + 1)`. `start_sync` moves the number to
the block after the root, which is not beyond the head's (`LibBelow`).

**Features.** `FeatureInv` says of each block of the branch that its header state
and its chain state agree, that its activation numbers are not above its own
number, and that popping it gives its predecessor's activations
(`BlockExtends`). The last part is what makes `pop_block` right, because the
manager does not remember what it was before a block: it only compares numbers.
`BuildingInv` says the same of the building block, for its commit and its abort.
The step that matters is `BlockStartedInv`: only features that are not active are
activated, so popping them gives back exactly what was there
(`PopUndoesActivation`), whether all of the list or a part of it went through.
`ListInv` adds that the lists name features without repetition, that a
preactivated feature was allowed and its dependencies are active or before it in
the list. So the merged list of the producer, preactivated ones first, passes
every check.

**Block vault.** `VaultInv` says that the vault remembers every block it has
accepted by a row with its watermark or a higher one, or by a snapshot that has
pruned such a row; that the rows are of signed blocks; and that all signed blocks
agree on what is irreversible. The condition of the insertion then orders the
new block after all of them.

**Induction.** What would be induction over numbers is done on sets:
`NaturalSets` proves, from the well-foundedness of `<` on `Nat`, that a set of
numbers that has 0 and successors is `Nat`, that a bounded set has a greatest
element and that finite sets are bounded. Recursive functions (the producer's
merged list of features, the blocks a node loads from the vault) are reasoned
about with these.

*Only model-checked:*

- liveness, `CatchesUp` in both modules, which this prover does not do.

## 6. Mutants

Every property of a passing run has a mutant in the modules, marked
`(mutant of ...)`: a plausible slip in the code, such as a pop that forgets
the reversible block, that makes TLC report the property. They are used by
nothing else.

## 7. Not modelled

- *Controller:* start from a snapshot; loss of part of the block log or of the
  reversible blocks (a crash keeps what was written: the process dies, the
  machine does not; `std::bad_alloc` ends the process at once and is such a
  crash); read-only and head read modes; `terminate_at_block`; a shutdown that
  interrupts a replay (`check_shutdown`, `controller.cpp:447` and `482`);
  the case of `replay` in which the fork database's root is below the log's head and
  its branch reaches that head (`controller.cpp:462-468`): a file's root is the last
  block logged, so it does not happen in the model, where `ReplayIrreversible`
  would have no step and `controller_produce`, which checks for deadlock, would
  stop; everything a transaction does but propose a schedule or a rate or preactivate a feature.
- *Headers:* signatures, merkle roots, extensions. `ProducerNetwork` has one
  schedule, and blocks that are all valid.
- *Features:* the activation handlers, building the set of features at start-up.
- *Synchronization:* competing forks between the peers (there is one chain), the
  delay of `add_peer_block`, a task of another strand inside the loop over the
  connections at the end of `head_catchup`, transactions, heartbeats,
  authentication, framing. `fork_head` survives a close, as in the code.
  `verify_catchup` tests and sets the stage without `sync_mtx`
  (`net_plugin.cpp:1914-1916`), and `sync_reset_lib_num` takes the lock apart from
  what follows it in `recv_handshake` and in `sync_recv_notice` (1800 and 1856, 1960
  and 1961): a task of another strand in between is left out, each is one step. A
  peer that cannot fetch a block and has nothing new to say writes nothing; its
  request goes on after the next write (1222), and the keep-alive message (1139-1167)
  is one, so `PeerSendsBlock` goes on at once.
- *Block vault:* large objects, compression, creating the tables, and `sync` as
  more than one read: its transaction is read committed, so a write between its
  statements is seen by the later ones. `propose_snapshot` uses the connection
  from the main thread while the client's thread may be in a transaction; the
  model lets the proposal fail then. A snapshot may be of any block the node knows
  when the root passes its number, side branches included, because `finalize` only
  looks whether the block can still be found; one requested in irreversible
  mode, which is proposed at once (`producer_plugin.cpp:1216-1231`), is not
  modelled. A start throws when the vault sends a block 2 that does not link
  (`blockvault_sync_strategy.hpp:97-101`), where the model drops it and
  starts: a node that does not come up is one that takes no further step.
- *The rest*, with reasons, is in `PROJECT.json`: data conversion, execution of
  code, file formats, request handling and third-party libraries, where there is
  no protocol between actors to check.

## 8. Plan

1. `unapplied_transaction_queue`; the state history log.
2. Forks between the peers of `SyncManager`; schedule changes in
   `ProducerNetwork`.
