----------------------------- MODULE Controller -----------------------------
(***************************************************************************)
(* controller: the main thread of a node, which keeps the chain state at   *)
(* the head of the best branch it can validate.  push_block adds a block   *)
(* to the fork database and switches to the preferred branch;              *)
(* log_irreversible moves what has become irreversible to the block log;   *)
(* commit_block appends a block this node has produced; a restart rebuilds *)
(* the controller from fork_db.dat, the state database, the reversible     *)
(* blocks and the block log.                                               *)
(*                                                                         *)
(* Each step is one call the code makes (a pop, an application, an append  *)
(* to the log...).  `pc' names the call that comes next: the thread is     *)
(* single, so while pc is not "idle" only that call can happen.            *)
(***************************************************************************)
EXTENDS ForkDatabase, Sequences, FiniteSetsExt

SeqExt == INSTANCE SequencesExt

CONSTANTS
    Rate,              \* fee rates
    DefaultRate,       \* transaction_fee_manager's initial contract_cur_rate
    ActiveRate,        \* block_header_state::active_rate of every block
    Reproducible,      \* the cached rates under which executing a block gives its id
    Produced,          \* the blocks this node may produce
    Modes,             \* the read modes the node may be started in
    MaxAppendFailures, \* how often blog.append may throw
    MayRestart,        \* the node may be stopped and started again
    MayReplay,         \* it may then be told to replay (--replay-blockchain)
    MayCrash           \* the process may end at any point

ASSUME RateAssumption ==
    /\ DefaultRate \in Rate
    /\ ActiveRate \in [Block -> Rate]
    /\ Reproducible \in [Block -> SUBSET Rate]
    /\ ActiveRate[Genesis] = DefaultRate

ASSUME NodeAssumption ==
    /\ Produced \subseteq Block \ {Genesis}
    /\ Modes \subseteq {"speculative", "irreversible"} /\ Modes # {}
    /\ MaxAppendFailures \in Nat
    /\ {MayRestart, MayReplay, MayCrash} \subseteq BOOLEAN

VARIABLES
    chead,    \* my->head, the block the chain state is at
    base,     \* the block of the last committed revision of kv_db
    undo,     \* the blocks whose undo sessions are on kv_db's stack, oldest first
    pending,  \* my->pending holds a block being built on chead
    rev,      \* the blocks in reversible_blocks
    blog,     \* the block log
    rate,     \* transaction_fee.contract_cur_rate
    mode,     \* read_mode
    pc,       \* the next call of the thread, "idle" between top-level calls
    first,    \* the branch being applied or logged (branches.first, branch)
    second,   \* the branch being popped (branches.second)
    made,     \* the block commit_block(true) is adding, at most one
    caller,   \* the top-level call in progress
    thrown,   \* the last top-level call ended with an exception
    failures  \* how often blog.append has thrown

callVars == <<first, second, made, caller, thrown>>
ctlVars  == <<chead, base, undo, pending, rev, blog, rate, mode, pc, callVars, failures>>
vars     == <<fdbVars, ctlVars>>

-----------------------------------------------------------------------------
LogHead == SeqExt!Last(blog)

\* kv_db.revision() when no session is open.
Revision == BlockNum[base] + Len(undo)

\* The block whose state kv_db holds.
StateBlock == IF undo = <<>> THEN base ELSE SeqExt!Last(undo)

\* The block of the branch S that comes right after b.
NextOn(S, b) == {c \in S : Prev[c] = b}

\* kv_db.commit(n): drop the undo sessions up to revision n.
Committed(b) ==
    /\ base' = b
    /\ undo' = SubSeq(undo, BlockNum[b] - BlockNum[base] + 1, Len(undo))

\* apply_block(b) reaches the end of commit_block(false): the revision check
\* of start_block, and execution on the parent's state with the cached fee
\* rate giving the same block id.
CanApply(b) ==
    /\ Revision = BlockNum[chead]
    /\ Prev[b] = chead /\ StateBlock = chead
    /\ rate \in Reproducible[b]

\* What a successful apply_block(b) leaves, the head excepted.
Applied(b) ==
    /\ undo' = Append(undo, b)
    /\ rate' = ActiveRate[b]
    /\ rev' = IF mode = "irreversible" THEN rev ELSE rev \cup {b}
    /\ UNCHANGED base

\* mark_valid(b) on a block that may be validated already.
MarkValidOnce(b) ==
    IF b \in validated THEN UNCHANGED fdbVars ELSE MarkValid(b)

\* (mutants of PoppedHead: the state is not undone, the reversible block is
\* not removed)
PoppedWithoutUndo ==
    /\ Known(Prev[chead])
    /\ rev' = {r \in rev : BlockNum[r] # BlockNum[chead]}
    /\ chead' = Prev[chead]
    /\ UNCHANGED <<undo, base, rate>>

PoppedKeepsReversible ==
    /\ Known(Prev[chead])
    /\ chead' = Prev[chead]
    /\ undo' = IF undo = <<>> THEN undo ELSE SeqExt!Front(undo)
    /\ UNCHANGED <<rev, base, rate>>

\* pop_block(): the reversible block and the state of the head are dropped.
PoppedHead ==
    /\ Known(Prev[chead])
    /\ rev' = {r \in rev : BlockNum[r] # BlockNum[chead]}
    /\ chead' = Prev[chead]
    /\ undo' = IF undo = <<>> THEN undo ELSE SeqExt!Front(undo)
    /\ UNCHANGED <<base, rate>>

\* The top-level call returns.  A startup that returns from maybe_switch_forks
\* looks again for a better branch, a replay for another reversible block.
Return ==
    /\ pc' = CASE caller = "startup" -> "best"
              [] caller = "replay"  -> "replay"
              [] OTHER              -> "idle"
    /\ caller' = IF caller \in {"startup", "replay"} THEN caller ELSE "none"
    /\ first' = {} /\ second' = {} /\ made' = {}
    /\ thrown' = FALSE

\* The top-level call throws: a node that is starting does not come up.
Throw ==
    /\ pc' = IF caller \in {"startup", "replay"} THEN "failed" ELSE "idle"
    /\ caller' = "none"
    /\ first' = {} /\ second' = {} /\ made' = {}
    /\ thrown' = TRUE

\* The call goes on with p.
Continue(p) == pc' = p /\ UNCHANGED callVars

-----------------------------------------------------------------------------
Init ==
    /\ FdbInit
    /\ chead = Genesis /\ base = Genesis /\ undo = <<>>
    /\ pending = FALSE
    /\ rev = {} /\ blog = <<Genesis>>
    /\ rate = DefaultRate
    /\ mode \in Modes
    /\ pc = "idle" /\ caller = "none"
    /\ first = {} /\ second = {} /\ made = {}
    /\ thrown = FALSE
    /\ failures = 0

-----------------------------------------------------------------------------
(* push_block and maybe_switch_forks *)

\* (mutant of PushBlock: only a block that extends the head is taken)
PushExtending(b) ==
    /\ pc = "idle" /\ ~pending
    /\ b # Genesis /\ Prev[b] = chead
    /\ Add(b)
    /\ pc' = IF mode = "irreversible" THEN "log" ELSE "switch"
    /\ caller' = "push" /\ thrown' = FALSE
    /\ UNCHANGED <<chead, base, undo, pending, rev, blog, rate, mode, first, second, made,
                   failures>>

\* push_block(b) of a block create_block_state_future accepts.
PushBlock(b) ==
    /\ pc = "idle" /\ ~pending
    /\ Add(b)
    /\ pc' = IF mode = "irreversible" THEN "log" ELSE "switch"
    /\ caller' = "push" /\ thrown' = FALSE
    /\ UNCHANGED <<chead, base, undo, pending, rev, blog, rate, mode, first, second, made,
                   failures>>

\* create_block_state_future refuses a block that is known or does not link.
RejectBlock(b) ==
    /\ pc = "idle"
    /\ b \in index \/ (b # Genesis /\ ~Known(Prev[b]))
    /\ UNCHANGED vars

\* maybe_switch_forks(pending_head()): extend the head, switch to another
\* branch, or do nothing.
MaybeSwitchForks ==
    /\ pc = "switch"
    /\ LET new == PendingHead IN
       IF new = chead THEN Return
       ELSE /\ first' = Ancestors[new] \ Ancestors[chead]
            /\ second' = Ancestors[chead] \ Ancestors[new]
            /\ pc' = IF second' = {} THEN "apply" ELSE "pop"
            /\ UNCHANGED <<made, caller, thrown>>
    /\ UNCHANGED <<fdbVars, chead, base, undo, pending, rev, blog, rate, mode, failures>>

\* pop the old branch down to the common ancestor.
PopBlock ==
    /\ pc = "pop"
    /\ PoppedHead
    /\ Continue(IF chead' \in second THEN "pop" ELSE "apply")
    /\ UNCHANGED <<fdbVars, pending, blog, mode, failures>>

\* apply_block, mark_valid and head = b for the next block of the new branch.
ApplyBlock ==
    /\ pc = "apply"
    /\ \E b \in NextOn(first, chead) :
        /\ CanApply(b)
        /\ Applied(b)
        /\ chead' = b
        /\ MarkValidOnce(b)
        /\ Continue(IF NextOn(first, b) = {} THEN "log" ELSE "apply")
    /\ UNCHANGED <<pending, blog, mode, failures>>

\* (mutants of ApplyBlockThrows: the block stays in the fork database, or the
\* whole new branch leaves it)
ThrowsRemovingBranch ==
    /\ pc = "apply"
    /\ \E b \in NextOn(first, chead) :
        /\ ~CanApply(b)
        /\ \E lowest \in first :
             /\ Prev[lowest] \notin first
             /\ IF head \in RemoveQueue(lowest, index) THEN Remove(b) ELSE Remove(lowest)
        /\ IF first = {b} /\ second = {} THEN Throw ELSE Continue("unapply")
    /\ UNCHANGED <<chead, base, undo, pending, rev, blog, rate, mode, failures>>

ThrowsKeepingBlock ==
    /\ pc = "apply"
    /\ \E b \in NextOn(first, chead) :
        /\ ~CanApply(b)
        /\ IF first = {b} /\ second = {} THEN Throw ELSE Continue("unapply")
    /\ UNCHANGED <<fdbVars, chead, base, undo, pending, rev, blog, rate, mode, failures>>

\* apply_block throws.  The block and what is built on it are removed.  When
\* the block extended the head the exception propagates; in a fork switch the
\* new branch is undone first.  remove() itself throws when the head of the
\* fork database is among the blocks to remove.
ApplyBlockThrows ==
    /\ pc = "apply"
    /\ \E b \in NextOn(first, chead) :
        /\ ~CanApply(b)
        /\ IF head \in RemoveQueue(b, index)
           THEN UNCHANGED fdbVars /\ Throw
           ELSE /\ Remove(b)
                /\ IF first = {b} /\ second = {} THEN Throw ELSE Continue("unapply")
    /\ UNCHANGED <<chead, base, undo, pending, rev, blog, rate, mode, failures>>

\* pop the blocks of the new branch that had been applied.
UnapplyBlock ==
    /\ pc = "unapply" /\ chead \in first
    /\ PoppedHead
    /\ Continue("unapply")
    /\ UNCHANGED <<fdbVars, pending, blog, mode, failures>>

\* The reversal reads branches.second.back() of an empty branch when the new
\* branch was built on the head itself: the process crashes.
ReversalOfEmptyBranch ==
    /\ pc = "unapply" /\ chead \notin first /\ second = {}
    /\ Continue("crashed")
    /\ UNCHANGED <<fdbVars, chead, base, undo, pending, rev, blog, rate, mode, failures>>

\* re-apply the blocks of the old branch, then rethrow.
ReapplyBlock ==
    /\ pc = "unapply" /\ chead \notin first /\ second # {}
    /\ \E b \in NextOn(second, chead) :
        IF CanApply(b)
        THEN /\ Applied(b)
             /\ chead' = b
             /\ IF NextOn(second, b) = {} THEN Throw ELSE Continue("unapply")
        ELSE /\ Throw
             /\ UNCHANGED <<chead, base, undo, rev, rate>>
    /\ UNCHANGED <<fdbVars, pending, blog, mode, failures>>

-----------------------------------------------------------------------------
(* log_irreversible *)

\* log_irreversible returns (to push_block, to the startup loop, or to
\* commit_block, which then pushes the session of the pending block).
LogReturns ==
    IF caller = "commit" THEN Continue("push") ELSE Return

\* log_irreversible throws; commit_block then aborts the pending block.
LogThrows == Throw /\ pending' = FALSE

\* What has become irreversible on the branch of the fork head.
LogIrreversible ==
    /\ pc = "log"
    /\ LET fork_head == IF mode = "irreversible" THEN PendingHead ELSE head
           branch    == FetchBranch(fork_head, DposLib[fork_head])
       IN  IF DposLib[fork_head] <= BlockNum[LogHead] THEN LogReturns
           ELSE /\ first' = branch
                /\ pc' = "append"
                /\ UNCHANGED <<second, made, caller, thrown>>
    /\ UNCHANGED <<fdbVars, chead, base, undo, pending, rev, blog, rate, mode, failures>>

\* (mutant of Logged: the block log's last block is overwritten)
LoggedOverwrites(b) ==
    /\ blog' = Append(SeqExt!Front(blog), b)
    /\ rev' = {r \in rev : BlockNum[r] > BlockNum[b]}
    /\ Continue(IF NextOn(first, b) = {} THEN "advance" ELSE "append")

\* blog.append, kv_db.commit and the removal of the reversible blocks.
Logged(b) ==
    /\ blog' = Append(blog, b)
    /\ rev' = {r \in rev : BlockNum[r] > BlockNum[b]}
    /\ Continue(IF NextOn(first, b) = {} THEN "advance" ELSE "append")

\* The next irreversible block is logged; in irreversible mode it is applied
\* and validated first.
AppendBlock ==
    /\ pc = "append"
    /\ \E b \in NextOn(first, LogHead) :
        IF mode = "irreversible"
        THEN /\ CanApply(b)
             /\ MarkValidOnce(b)
             /\ chead' = b /\ rate' = ActiveRate[b]
             /\ base' = b /\ undo' = <<>>
             /\ Logged(b)
        ELSE /\ Logged(b)
             /\ Committed(b)
             /\ UNCHANGED <<fdbVars, chead, rate>>
    /\ UNCHANGED <<pending, mode, failures>>

\* apply_block throws in irreversible mode.
AppendApplyThrows ==
    /\ pc = "append" /\ mode = "irreversible"
    /\ \E b \in NextOn(first, LogHead) : ~CanApply(b)
    /\ pc' = "advance" /\ thrown' = TRUE
    /\ UNCHANGED <<fdbVars, chead, base, undo, pending, rev, blog, rate, mode, first, second,
                   made, caller, failures>>

\* (mutant of AppendThrows: kv_db.commit comes before blog.append)
AppendThrowsCommitted ==
    /\ pc = "append" /\ failures < MaxAppendFailures
    /\ failures' = failures + 1
    /\ \E b \in NextOn(first, LogHead) : CanApply(b) \/ mode # "irreversible"
    /\ \E b \in NextOn(first, LogHead) : Committed(b)
    /\ pc' = "advance" /\ thrown' = TRUE
    /\ UNCHANGED <<fdbVars, chead, rev, rate, pending, blog, mode, first, second, made, caller>>

\* blog.append throws: in irreversible mode the block has already been applied.
AppendThrows ==
    /\ pc = "append" /\ failures < MaxAppendFailures
    /\ failures' = failures + 1
    /\ \E b \in NextOn(first, LogHead) :
        IF mode = "irreversible"
        THEN CanApply(b) /\ Applied(b) /\ chead' = b /\ MarkValidOnce(b)
        ELSE UNCHANGED <<fdbVars, chead, base, undo, rev, rate>>
    /\ pc' = "advance" /\ thrown' = TRUE
    /\ UNCHANGED <<pending, blog, mode, first, second, made, caller>>

\* advance_root to the last block logged, on both ways out of the loop.
AdvanceToLogHead ==
    /\ pc = "advance"
    /\ IF LogHead # root THEN AdvanceRoot(LogHead) ELSE UNCHANGED fdbVars
    /\ IF thrown THEN LogThrows ELSE LogReturns /\ UNCHANGED pending
    /\ UNCHANGED <<chead, base, undo, rev, blog, rate, mode, failures>>

-----------------------------------------------------------------------------
(* Producing a block *)

\* start_block for a block of this node's own.
StartBlock ==
    /\ pc = "idle" /\ ~pending /\ Produced # {} /\ mode # "irreversible" /\ IsOpen
    /\ Revision = BlockNum[chead]
    /\ pending' = TRUE
    /\ UNCHANGED <<fdbVars, chead, base, undo, rev, blog, rate, mode, pc, callVars, failures>>

AbortBlock ==
    /\ pc = "idle" /\ pending
    /\ pending' = FALSE
    /\ UNCHANGED <<fdbVars, chead, base, undo, rev, blog, rate, mode, pc, callVars, failures>>

\* finalize_block, then commit_block(true) up to fork_db.add.
CommitBlock(b) ==
    /\ pc = "idle" /\ pending
    /\ Prev[b] = chead /\ StateBlock = chead
    /\ rate \in Reproducible[b]
    /\ Add(b)
    /\ rate' = ActiveRate[b]
    /\ made' = {b}
    /\ pc' = "mark" /\ caller' = "commit" /\ thrown' = FALSE
    /\ UNCHANGED <<chead, base, undo, pending, rev, blog, mode, first, second, failures>>

\* (mutant of CommitMarkValid: no reversible block is created)
CommitWithoutReversible ==
    /\ pc = "mark"
    /\ \E b \in made :
        /\ MarkValid(b)
        /\ chead' = head'
        /\ IF head' = b
           THEN Continue("log") /\ UNCHANGED <<rev, pending>>
           ELSE Throw /\ pending' = FALSE /\ UNCHANGED rev
    /\ UNCHANGED <<base, undo, blog, rate, mode, failures>>

\* mark_valid, head = fork_db.head(), the assert that this is the new block,
\* and the reversible block.
CommitMarkValid ==
    /\ pc = "mark"
    /\ \E b \in made :
        /\ MarkValid(b)
        /\ chead' = head'
        /\ IF head' = b
           THEN rev' = rev \cup {b} /\ Continue("log") /\ UNCHANGED pending
           ELSE Throw /\ pending' = FALSE /\ UNCHANGED rev
    /\ UNCHANGED <<base, undo, blog, rate, mode, failures>>

\* (mutant of CommitPush: the session is undone)
CommitWithoutPush ==
    /\ pc = "push"
    /\ pending' = FALSE
    /\ Return
    /\ UNCHANGED <<fdbVars, chead, base, undo, rev, blog, rate, mode, failures>>

\* pending->push(): the session of the block stays on the undo stack.
CommitPush ==
    /\ pc = "push"
    /\ \E b \in made : undo' = Append(undo, b)
    /\ pending' = FALSE
    /\ Return
    /\ UNCHANGED <<fdbVars, chead, base, rev, blog, rate, mode, failures>>

-----------------------------------------------------------------------------
(* Stopping and starting *)

\* ~controller: abort_block, and ~fork_database closes fork_db.dat.
Shutdown ==
    /\ MayRestart
    /\ pc = "idle"
    /\ Close
    /\ pending' = FALSE
    /\ pc' = "down" /\ thrown' = FALSE
    /\ UNCHANGED <<chead, base, undo, rev, blog, rate, mode, first, second, made, caller, failures>>

\* The process ends between any two steps.  What is on disk is the block log and
\* the reversible blocks (--fix-reversible-blocks recovers them); fork_db.dat was
\* removed by open(), and the state is marked dirty and cannot be used again.
\* Within log_irreversible the block may be in the log already while the
\* reversible blocks are not yet pruned.
Crash ==
    /\ MayCrash
    /\ pc \notin {"down", "failed", "crashed"}
    /\ Reset(Genesis)
    /\ \/ UNCHANGED blog
       \/ /\ pc = "append"
          /\ \E b \in NextOn(first, LogHead) :
               /\ CanApply(b) \/ mode # "irreversible"
               /\ blog' = Append(blog, b)
    /\ pending' = FALSE
    /\ pc' = "down" /\ caller' = "none" /\ thrown' = FALSE
    /\ first' = {} /\ second' = {} /\ made' = {}
    /\ UNCHANGED <<chead, base, undo, rev, rate, mode, failures>>

\* The constructor opens the fork database; the fee rate has its default.
Startup ==
    /\ pc = "down"
    /\ Open
    /\ mode' \in Modes
    /\ rate' = DefaultRate
    /\ pc' = "startup" /\ caller' = "startup"
    /\ UNCHANGED <<chead, base, undo, pending, rev, blog, first, second, made, thrown, failures>>

\* startup() with the genesis state, after a crash or because a replay is asked
\* for: the state is empty, the fork database is what fork_db.dat holds, if
\* there is one, and the reversible blocks and the block log are still there.
StartupGenesis ==
    /\ pc = "down"
    /\ MayReplay \/ saved = {}
    /\ IF saved = {} THEN UNCHANGED fdbVars ELSE Open
    /\ mode' \in Modes
    /\ rate' = DefaultRate
    /\ chead' = Genesis /\ base' = Genesis /\ undo' = <<>>
    /\ pc' = "startup" /\ caller' = "replay"
    /\ UNCHANGED <<pending, rev, blog, first, second, made, thrown, failures>>

\* (mutant of StartupHead: irreversible mode keeps the head)
StartupWithoutRollback ==
    /\ pc = "startup"
    /\ chead' = IF caller = "replay" THEN chead ELSE head
    /\ Continue("init")
    /\ UNCHANGED <<fdbVars, base, undo, pending, rev, blog, rate, mode, failures>>

\* startup(): the head is the fork database's, or the genesis block's when
\* there is no state.
StartupHead ==
    /\ pc = "startup"
    /\ IF mode = "irreversible" /\ head # root THEN RollbackHeadToRoot ELSE UNCHANGED fdbVars
    /\ chead' = IF caller = "replay" THEN chead ELSE head'
    /\ Continue("init")
    /\ UNCHANGED <<base, undo, pending, rev, blog, rate, mode, failures>>

\* The reversible blocks init() keeps, and the number of the last block stored.
KeptReversible ==
    IF mode = "irreversible" THEN {} ELSE {r \in rev : BlockNum[r] > BlockNum[LogHead]}

LastStoredNum == Max({BlockNum[b] : b \in KeptReversible \cup {LogHead}})

\* init()'s checks of the reversible blocks: no gap after the block log, none
\* missing below the head, and the best branch goes through the last of them
\* (or through the one at the number of the pending head).
ReversibleBlocksMatch ==
    \/ mode = "irreversible"
    \/ /\ BlockNum[chead] <= LastStoredNum
       /\ KeptReversible # {} =>
            /\ \E r \in KeptReversible : BlockNum[r] = BlockNum[LogHead] + 1
            /\ LET n == Min({BlockNum[PendingHead], LastStoredNum})
               IN  n > BlockNum[LogHead] =>
                     \E r \in KeptReversible \cap Ancestors[PendingHead] : BlockNum[r] = n

\* init() ends, or applies the best branch after a change from irreversible mode.
StartupEnds ==
    IF mode # "irreversible" /\ head = root
    THEN pc' = "best" /\ caller' = "startup" /\ UNCHANGED <<first, second, made, thrown>>
    ELSE pc' = "idle" /\ caller' = "none" /\ UNCHANGED <<first, second, made, thrown>>

\* init() replays what is stored beyond the head, from the log first.
ReplayOrEnd ==
    IF LastStoredNum > BlockNum[chead]
    THEN /\ pc' = IF BlockNum[chead] < BlockNum[LogHead] THEN "replaylog" ELSE "replay"
         /\ caller' = "replay"
         /\ UNCHANGED <<first, second, made, thrown>>
    ELSE StartupEnds

\* init(): undo what the state has beyond the head; no assert may fire.
StartupChecks ==
    /\ pc = "init"
    /\ IF Revision >= BlockNum[chead] /\ ReversibleBlocksMatch
       THEN /\ undo' = SubSeq(undo, 1, BlockNum[chead] - BlockNum[base])
            /\ rev' = KeptReversible
            /\ ReplayOrEnd
       ELSE Throw /\ UNCHANGED <<undo, rev>>
    /\ UNCHANGED <<fdbVars, chead, base, pending, blog, rate, mode, failures>>

\* init(): "applying best branch from fork database".
StartupBestBranch ==
    /\ pc = "best"
    /\ IF PendingHead # head THEN Continue("switch")
       ELSE pc' = "idle" /\ caller' = "none" /\ UNCHANGED <<first, second, made, thrown>>
    /\ UNCHANGED <<fdbVars, chead, base, undo, pending, rev, blog, rate, mode, failures>>

\* replay(): the blocks of the log are executed without undo sessions.  After
\* the last one a fork database that does not reach it, or begins beyond it, is
\* reset to it; the root of any other is that block already.
ReplayIrreversible ==
    /\ pc = "replaylog"
    /\ \E b \in Block :
        /\ b \in NextOn(SeqExt!ToSet(Tail(blog)), chead)
        /\ IF rate \in Reproducible[b]
           THEN /\ chead' = b /\ base' = b /\ undo' = <<>> /\ rate' = ActiveRate[b]
                /\ IF b # LogHead THEN UNCHANGED fdbVars
                   ELSE IF BlockNum[PendingHead] < BlockNum[b] \/ BlockNum[b] < BlockNum[root]
                        THEN Reset(b)
                        ELSE root = b /\ UNCHANGED fdbVars
                /\ Continue(IF b # LogHead THEN "replaylog" ELSE "replay")
           ELSE /\ Throw
                /\ UNCHANGED <<fdbVars, chead, base, undo, rate>>
    /\ UNCHANGED <<pending, rev, blog, mode, failures>>

\* replay(), replay_push_block: the next reversible block is added to the fork
\* database, unless it is there, and applied by maybe_switch_forks.
ReplayReversible ==
    /\ pc = "replay"
    /\ \E b \in Block :
        /\ b \in rev /\ BlockNum[b] = BlockNum[chead] + 1
        /\ IF Prev[b] = chead /\ (b \in index \/ Known(chead))
           THEN /\ IF b \in index THEN UNCHANGED fdbVars ELSE Add(b)
                /\ first' = {b} /\ second' = {}
                /\ pc' = "apply"
                /\ UNCHANGED <<made, caller, thrown>>
           ELSE Throw /\ UNCHANGED fdbVars
    /\ UNCHANGED <<chead, base, undo, pending, rev, blog, rate, mode, failures>>

ReplayEnds ==
    /\ pc = "replay"
    /\ \A b \in rev : BlockNum[b] # BlockNum[chead] + 1
    /\ StartupEnds
    /\ UNCHANGED <<fdbVars, chead, base, undo, pending, rev, blog, rate, mode, failures>>

-----------------------------------------------------------------------------
\* The calls the thread makes on its own once a top-level call has begun.
Step ==
    \/ MaybeSwitchForks \/ PopBlock \/ ApplyBlock \/ ApplyBlockThrows
    \/ UnapplyBlock \/ ReversalOfEmptyBranch \/ ReapplyBlock
    \/ LogIrreversible \/ AppendBlock \/ AppendApplyThrows \/ AppendThrows \/ AdvanceToLogHead
    \/ CommitMarkValid \/ CommitPush
    \/ StartupHead \/ StartupChecks \/ StartupBestBranch
    \/ ReplayIrreversible \/ ReplayReversible \/ ReplayEnds

Next ==
    \/ \E b \in Block : PushBlock(b)
    \/ \E b \in Block : RejectBlock(b)
    \/ StartBlock
    \/ AbortBlock
    \/ \E b \in Produced : CommitBlock(b)
    \/ Shutdown
    \/ Crash
    \/ Startup
    \/ StartupGenesis
    \/ Step

Spec == Init /\ [][Next]_vars

\* The thread always takes the next call of the one in progress, and the
\* peers offer a block again until it is accepted.
FairSpec ==
    /\ Spec
    /\ WF_vars(Step)
    /\ \A b \in Block : SF_vars(PushBlock(b))

-----------------------------------------------------------------------------
\* The types of controller_impl's members and of the call in progress.
TypeOK ==
    /\ FdbTypeOK
    /\ chead \in Block /\ base \in Block
    /\ undo \in Seq(Block) /\ blog \in Seq(Block)
    /\ rev \subseteq Block /\ first \subseteq Block /\ second \subseteq Block
    /\ made \subseteq Produced
    /\ pending \in BOOLEAN /\ thrown \in BOOLEAN
    /\ rate \in Rate /\ mode \in Modes
    /\ caller \in {"none", "push", "commit", "startup", "replay"}
    /\ failures \in 0..MaxAppendFailures
    /\ pc \in {"idle", "switch", "pop", "apply", "unapply", "log", "append", "advance",
               "mark", "push", "down", "startup", "init", "best", "replaylog", "replay",
               "failed", "crashed"}

Idle == pc = "idle"

\* The node is running: its head is what readers see.  While it is down or
\* starting, or has failed to start, what it will come back with is the log.
Serving == pc \notin {"down", "startup", "init", "replaylog", "failed"}

\* Between calls the state database is at the head: the revision start_block
\* asserts ("db revision is not on par with head block"), and the state of the
\* very block head points to.
StateMatchesHead == Idle => Revision = BlockNum[chead] /\ StateBlock = chead

\* Between calls the reversible blocks are exactly the blocks of the head's
\* branch above the block log: a restart finds no gap and no foreign block.
ReversibleIsBranch ==
    Idle /\ mode # "irreversible" =>
        rev = {b \in Ancestors[chead] : BlockNum[b] > BlockNum[LogHead]}

\* What is irreversible stays: whatever is popped, undone or switched to, the
\* head never leaves the branch of the root, the committed state is that of the
\* last block logged, and this is the root when log_irreversible asserts it
\* ("fork database root does not match block log head").
IrreversibleStays ==
    Serving =>
        /\ root \in Ancestors[chead]
        /\ pc # "advance" => base = LogHead
        /\ pc \in {"idle", "log"} => LogHead = root

\* The callers of advance_root keep to its contract: the head of the fork
\* database is built on the new root, so no remove() throws half way.
AdvanceRootContract ==
    pc = "advance" /\ LogHead # root => LogHead \in validated /\ LogHead \in Ancestors[head]

\* Between calls no known block is preferred to the head, even when the last
\* call threw: a better branch that cannot be validated is gone.  The head is
\* the fork database's own unless the last call threw.
OnBestBranch ==
    Idle /\ mode # "irreversible" =>
        /\ \A b \in index : ~FirstPreferred(b, chead)
        /\ ~thrown => chead = head

\* No good block is lost: a block leaves the fork database only when it has
\* become the root or is not on the root's branch (advance_root), when it or
\* a block it is built on cannot be executed at all (the remove() of
\* maybe_switch_forks), or when the node is stopped.  A valid block that is
\* executed on the wrong state, or under a fee rate that pop_block has not
\* restored, is not dropped with everything built on it.
OnlyInvalidDropped ==
    [][\A b \in index \ index' :
         \/ b = root' \/ root' \notin Ancestors[b]
         \/ \E a \in Ancestors[b] : Reproducible[a] = {}
         \/ pc' = "down"]_vars

\* A fork switch works through the branches it captured before its first pop:
\* at every step the block to pop has a known predecessor ("attempt to pop
\* beyond last irreversible block"), and the block to apply, or to apply again,
\* is still in the fork database and is built on the head ("loss of sync between
\* fork_db and chainbase during fork switch", and during its reversal).
SwitchInSync ==
    /\ pc = "pop" \/ (pc = "unapply" /\ chead \in first) => Known(Prev[chead])
    /\ pc = "apply" => NextOn(first, chead) \cap index # {}
    /\ pc = "unapply" /\ chead \notin first /\ second # {} =>
         NextOn(second, chead) \cap index # {}

\* What those who read from the node see of it.
Chain == INSTANCE IrreversibleChain WITH final <- blog, tip <- IF Serving THEN chead ELSE LogHead

\* Through fork switches, failures, crashes, replays and changes of mode the
\* node is a chain of final blocks that only grows, with a tip that never leaves
\* it: no logged block is replaced, skipped or popped, and none is logged that
\* the head is not built on (log_irreversible, maybe_switch_forks, init).
ChainSpec == Chain!Spec

\* When a fork switch fails, every block of the old branch is applied again
\* ("we previously validated these blocks").
ReapplySucceeds == [][ReapplyBlock => chead' # chead]_vars

\* A node that was stopped or has crashed starts again: no assert of init()
\* fires, and applying the branch that irreversible mode has left on top of the
\* head does not end in a reversal of an empty branch.
StartupSucceeds == pc \notin {"failed", "crashed"}

\* It starts at the block it was stopped at (in irreversible mode, at the
\* root), and the blocks it has stored do not go beyond that block: there is
\* nothing to replay.
RestartResumes ==
    [][StartupHead /\ caller = "startup" =>
         /\ chead' = IF mode = "irreversible" THEN root ELSE chead
         /\ LastStoredNum <= BlockNum[chead']]_vars

\* In irreversible mode the state is that of the last block logged, after every
\* call in which blog.append does not throw: what is applied is logged and
\* committed, and a start from the other mode goes back to it.
IrreversibleHeadIsLogged == Idle /\ mode = "irreversible" => chead = LogHead

\* The node ends up on a best block of all the valid ones it is offered.
CatchesUp ==
    <>[](\A b \in Block : Reproducible[b] # {} => ~FirstPreferred(b, chead))
=============================================================================
