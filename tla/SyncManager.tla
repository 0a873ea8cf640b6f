---------------------------- MODULE SyncManager ----------------------------
(***************************************************************************)
(* net_plugin's sync_manager: how a node that is behind asks its peers for *)
(* blocks, in chunks and from one source at a time, and takes another      *)
(* source when that one is slow or gone.                                   *)
(*                                                                         *)
(* There is one chain, of which our node and every peer has a prefix.      *)
(* Each connection has a strand, a queue of posted tasks that run one at a *)
(* time; blocks are executed by the application thread, which posts the    *)
(* result to the strand of the connection they came from; the members of   *)
(* sync_manager are shared by the strands, under a mutex that each task    *)
(* takes and releases.  A handler is an operator from a world (the values  *)
(* of all variables) to a world, so that handlers compose as the calls do. *)
(*                                                                         *)
(* A peer runs the same code; of it we model what it sends us.  It takes   *)
(* what we send at once, what it sends waits in a FIFO `wire'.             *)
(***************************************************************************)
EXTENDS Integers, Sequences, FiniteSetsExt

CONSTANTS
    NumConn,      \* connections, numbered in the order of my_impl->connections
    Inbound,      \* the connections the peer has opened
    Span,         \* sync_req_span, the blocks of a chunk
    LibLag,       \* the last irreversible block is so far behind the head
    StartHead,    \* the head this node has on disk
    Starts,       \* the situations a node may start in: the head of each peer (0: it
                  \* cannot be reached), and whether the dispatcher's timer forgets
                  \* irreversible blocks during the sync
    MaxNum,       \* no chain grows beyond this block
    MaxRejected,  \* max_consecutive_rejected_windows_
    MaxFaults     \* how often a connection is lost or a timer expires early

Conn == 1..NumConn
None == 0

ASSUME NetAssumption ==
    /\ NumConn \in Nat \ {0} /\ Inbound \subseteq Conn
    /\ {Span, StartHead, MaxNum} \subseteq Nat \ {0}
    /\ {LibLag, MaxRejected, MaxFaults} \subseteq Nat
    /\ Starts \subseteq [heads : [Conn -> 0..MaxNum], expires : BOOLEAN]
    /\ StartHead <= MaxNum

VARIABLES
    chain,  \* the application thread: our head, its queue of received blocks
    sync,   \* the members of sync_manager
    conn,   \* our side of each connection
    peer,   \* the peer's side of each connection
    faults  \* connections lost and timers expired early so far

vars == <<chain, sync, conn, peer, faults>>

world == [chain |-> chain, sync |-> sync, conn |-> conn, peer |-> peer]

Becomes(w) ==
    chain' = w.chain /\ sync' = w.sync /\ conn' = w.conn /\ peer' = w.peer

-----------------------------------------------------------------------------
\* fork_db root of a node whose head is h.
Lib(h) == Max({1, h - LibLag})

\* connection::current
Current(w, c) == w.conn[c].open /\ ~w.conn[c].connecting /\ ~w.conn[c].syncing

Post(w, c, task) == [w EXCEPT !.conn[c].strand = Append(@, task)]

Handshake(force) == [op |-> "handshake", force |-> force]

\* sync_manager::send_handshakes
SendHandshakes(w) ==
    [w EXCEPT !.conn = [c \in Conn |-> IF Current(w, c) THEN Post(w, c, Handshake(FALSE)).conn[c]
                                                        ELSE w.conn[c]]]

-----------------------------------------------------------------------------
(* What the peer does with a message of ours *)

Send(w, c, msgs) == [w EXCEPT !.peer[c].wire = @ \o msgs]

\* handle_message(handshake_message): it answers the first with its own, and
\* tells us what it has when it is ahead.
PeerHandshake(w, c) ==
    LET p    == w.peer[c]
        h    == w.chain.head
        note == CASE p.head <= h      -> <<>>
                  [] Lib(p.head) > h  -> <<[type |-> "last_irr_catch_up", num |-> p.head]>>
                  [] OTHER            -> <<[type |-> "catch_up", num |-> p.head]>>
        own  == IF p.sent = 0 THEN <<[type |-> "handshake", num |-> p.head]>> ELSE <<>>
    IN  Send([w EXCEPT !.peer[c].syncing = Lib(p.head) > h,
                       !.peer[c].sent = IF @ = 0 THEN p.head ELSE @], c, note \o own)

\* handle_message(sync_request_message): a request that is still being served
\* is only extended.
PeerSyncRequest(w, c, start, end) ==
    [w EXCEPT !.peer[c].requested =
        IF @ = {} THEN {[last |-> start - 1, end |-> end]}
                  ELSE {[last |-> r.last, end |-> Max({r.end, end})] : r \in @}]

\* sync_request_message {0,0}: the request is dropped, and with it what is not
\* yet written to the socket (all but the first k messages).
PeerCancel(w, c, k) ==
    [w EXCEPT !.peer[c].requested = {}, !.peer[c].wire = SubSeq(@, 1, k)]

\* request_message, catch_up after our head: blk_send_branch.  Nothing is sent
\* to a node whose handshake has not come, and one whose head the peer does not
\* know is told to go away.
PeerBranch(w, c) ==
    IF w.conn[c].sent = 0 THEN w
    ELSE IF w.chain.head > w.peer[c].head THEN Send(w, c, <<[type |-> "go_away", num |-> 0]>>)
    ELSE [w EXCEPT !.peer[c].requested =
            {r \in {[last |-> w.chain.head,
                     end  |-> Max({w.peer[c].head} \cup {r.end : r \in @})]} : r.last < r.end}]

-----------------------------------------------------------------------------
(* sync_manager *)

\* The next current connection after the source, round robin; the source
\* itself when there is no other.
NextSource(w) ==
    LET able    == {c \in Conn : Current(w, c)}
        rank(c) == (c - w.sync.source - 1) % NumConn
    IN  IF able = {} THEN w.sync.source
        ELSE CHOOSE c \in able : \A d \in able : rank(c) <= rank(d)

RequestNextChunk(w, c) ==
    LET y     == w.sync
        src   == IF c # None /\ Current(w, c) THEN c ELSE NextSource(w)
        start == y.expected
        end   == Min({start + Span - 1, y.known})
    IN  IF w.chain.head < y.last /\ y.source # None /\ Current(w, y.source) THEN w
        ELSE IF src = None \/ ~Current(w, src)
        THEN [w EXCEPT !.sync = [y EXCEPT !.source = src, !.known = Lib(w.chain.head),
                                          !.last = 0, !.stage = "in_sync"]]
        ELSE IF y.last # y.known /\ end > 0 /\ end >= start
        THEN Post([w EXCEPT !.sync.source = src, !.sync.last = end], src,
                  [op |-> "request", start |-> start, end |-> end])
        ELSE Post([w EXCEPT !.sync.source = src], src, Handshake(FALSE))

SyncResetLibNum(w, c) ==
    LET v == [w EXCEPT !.sync.source = IF w.sync.stage = "in_sync" THEN None ELSE @]
    IN  IF Current(w, c) THEN [v EXCEPT !.sync.known = Max({@, w.conn[c].lib})]
        ELSE IF c = v.sync.source THEN RequestNextChunk([v EXCEPT !.sync.last = 0], None)
        ELSE v

IsSyncRequired(w) == w.sync.last < w.sync.known \/ w.chain.head < w.sync.last

\* (mutant of StartSync: the sync begins at the peer's irreversible block)
StartSyncAtTarget(w, c, target) ==
    LET v == [w EXCEPT !.sync.known = Max({@, target})]
    IN  IF ~IsSyncRequired(v) \/ target <= Lib(w.chain.head) THEN v
        ELSE RequestNextChunk(
               [v EXCEPT !.sync.stage = IF @ = "in_sync" THEN "lib_catchup" ELSE @,
                         !.sync.expected = Max({@, target})], c)

\* start_sync
StartSync(w, c, target) ==
    LET v == [w EXCEPT !.sync.known = Max({@, target})]
    IN  IF ~IsSyncRequired(v) \/ target <= Lib(w.chain.head) THEN v
        ELSE RequestNextChunk(
               [v EXCEPT !.sync.stage = IF @ = "in_sync" THEN "lib_catchup" ELSE @,
                         !.sync.expected = Max({@, Lib(w.chain.head) + 1})], c)

\* Ask c for its branch up to num, unless a connection is to bring it already.  One
\* step here, although the code looks at the stage and sets it without sync_mtx.
VerifyCatchup(w, c, num) ==
    IF \E d \in Conn : w.conn[d].fork_head >= num
    THEN [w EXCEPT !.conn[c].fork_head = 0, !.peer[c].syncing = FALSE]
    ELSE IF w.sync.stage = "lib_catchup" \/ num < Lib(w.chain.head) THEN w
    ELSE PeerBranch([w EXCEPT !.sync.stage = "head_catchup", !.conn[c].fork_head = num], c)

\* (mutant of SyncReassignFetch: the request that timed out is not forgotten)
SyncReassignKeepsLast(w, c, k) ==
    IF c # w.sync.source THEN w
    ELSE RequestNextChunk(PeerCancel([w EXCEPT !.conn[c].armed = FALSE], c, k), None)

\* sync_reassign_fetch
SyncReassignFetch(w, c, k) ==
    IF c # w.sync.source THEN w
    ELSE RequestNextChunk(
           PeerCancel([w EXCEPT !.conn[c].armed = FALSE, !.sync.last = 0], c, k), None)

\* recv_handshake.  sync_reset_lib_num takes the lock by itself; one step here.
RecvHandshake(w, c, num) ==
    LET h == w.chain.head
        v == SyncResetLibNum(w, c)
        u == [v EXCEPT !.conn[c].syncing = Lib(h) > num]
    IN  IF h < num /\ h >= Lib(num) THEN VerifyCatchup(u, c, num) ELSE u

\* sync_update_expected
SyncUpdateExpected(w, num, applied) ==
    IF num <= w.sync.last /\ (num = w.sync.expected \/ applied)
    THEN [w EXCEPT !.sync.expected = num + 1] ELSE w

\* The loop of sync_recv_block over the connections, in order: what a block
\* num of c settles is cleared on c, whichever connection had it.
Settled(w, num)    == {d \in Conn : w.conn[d].fork_head \in 1..num}
StillAhead(w, c, num) ==
    \E d \in Conn : /\ w.conn[d].fork_head > num
                    /\ ~(d = c /\ \E e \in Settled(w, num) : e < d)

\* The rest of sync_recv_block, under the lock taken anew.
SyncRecvBlock(w, c, num) ==
    CASE w.sync.stage = "head_catchup" ->
           LET v == [w EXCEPT !.sync.source = None,
                              !.conn[c].fork_head = IF Settled(w, num) # {} THEN 0 ELSE @]
           IN  IF StillAhead(w, c, num) THEN v
               ELSE SendHandshakes([v EXCEPT !.sync.stage = "in_sync"])
      [] w.sync.stage = "lib_catchup" /\ num = w.sync.known ->
           SendHandshakes([w EXCEPT !.sync.stage = "in_sync"])
      [] w.sync.stage = "lib_catchup" /\ num # w.sync.known /\ num = w.sync.last ->
           RequestNextChunk(w, None)
      [] w.sync.stage = "lib_catchup" /\ num # w.sync.known /\ num # w.sync.last ->
           [w EXCEPT !.conn[c].armed = TRUE]
      [] OTHER -> w

\* connection::_close.  fork_head is not cleared.
Closed(w, c) ==
    LET v == SyncResetLibNum(
               [w EXCEPT !.conn[c] = [@ EXCEPT !.open = FALSE, !.connecting = FALSE,
                                      !.syncing = FALSE, !.rejected = 0, !.lib = 0, !.sent = 0],
                         !.peer[c] = [@ EXCEPT !.requested = {}, !.sent = 0,
                                      !.syncing = FALSE, !.wire = <<>>]], c)
    IN  [v EXCEPT !.conn[c].armed = FALSE]

-----------------------------------------------------------------------------
Init ==
    \E start \in Starts :
        /\ chain = [head |-> StartHead, queue |-> <<>>, expired |-> StartHead,
                    expires |-> start.expires]
        /\ sync = [known |-> 0, last |-> 0, expected |-> 1, source |-> None, stage |-> "in_sync"]
        /\ conn = [c \in Conn |->
                    [open |-> FALSE, connecting |-> FALSE, syncing |-> FALSE, armed |-> FALSE,
                     lib |-> 0, sent |-> 0, fork_head |-> 0, rejected |-> 0, strand |-> <<>>]]
        /\ peer = [c \in Conn |->
                    [head |-> start.heads[c], sent |-> 0, syncing |-> FALSE, requested |-> {},
                     wire |-> <<>>]]
        /\ faults = 0

\* connect and start_session, or the accepted socket: the side that opened the
\* connection sends the first handshake.
Connect(c) ==
    /\ ~conn[c].open /\ conn[c].strand = <<>> /\ peer[c].head > 0
    /\ LET w == [world EXCEPT !.conn[c].open = TRUE, !.conn[c].connecting = TRUE]
       IN  Becomes(IF c \in Inbound
                   THEN Send([w EXCEPT !.peer[c].sent = peer[c].head], c,
                             <<[type |-> "handshake", num |-> peer[c].head]>>)
                   ELSE Post(w, c, Handshake(FALSE)))
    /\ UNCHANGED faults

\* The socket fails.
Lose(c) ==
    /\ conn[c].open /\ faults < MaxFaults
    /\ Becomes(Closed(world, c))
    /\ faults' = faults + 1

\* A task that goes on after it has released the lock is not interrupted on
\* its strand.
Interruptible(c) == conn[c].strand # <<>> => Head(conn[c].strand).op # "recv_block"

\* Continue with task t before anything else on c's strand.
GoOn(w, c, t) == [w EXCEPT !.conn[c].strand = <<t>> \o @]

\* dispatcher->have_block: a block we have that is not forgotten.
HaveBlock(num) == num <= chain.head /\ num > chain.expired

\* process_next_message: the first message of the wire is handled.
ReceiveHandshake(c) ==
    /\ conn[c].open /\ Interruptible(c)
    /\ peer[c].wire # <<>> /\ Head(peer[c].wire).type = "handshake"
    /\ LET num == Head(peer[c].wire).num
           w   == [world EXCEPT !.peer[c].wire = Tail(@), !.conn[c].connecting = FALSE,
                                !.conn[c].lib = Lib(num)]
           v   == IF conn[c].sent = 0 THEN Post(w, c, Handshake(FALSE)) ELSE w
       IN  Becomes(RecvHandshake(v, c, num))
    /\ UNCHANGED faults

\* handle_message(notice_message), sync_recv_notice; handle_message(go_away_message).
\* sync_reset_lib_num and what follows lock one after the other; one step here.
ReceiveNotice(c) ==
    /\ conn[c].open /\ Interruptible(c)
    /\ peer[c].wire # <<>> /\ Head(peer[c].wire).type \in {"catch_up", "last_irr_catch_up", "go_away"}
    /\ LET m == Head(peer[c].wire)
           v == [world EXCEPT !.peer[c].wire = Tail(@)]
           w == [v EXCEPT !.conn[c].connecting = FALSE]
       IN  Becomes(
             CASE m.type = "go_away" -> Post(v, c, [op |-> "close"])
               [] m.type = "last_irr_catch_up" ->
                    StartSync(SyncResetLibNum([w EXCEPT !.conn[c].lib = Lib(m.num)], c),
                              c, Lib(m.num))
               [] m.type = "catch_up" /\ HaveBlock(m.num) -> Post(w, c, Handshake(FALSE))
               [] m.type = "catch_up" /\ ~HaveBlock(m.num) -> VerifyCatchup(w, c, m.num))
    /\ UNCHANGED faults

\* process_next_block_message
ReceiveBlock(c) ==
    /\ conn[c].open /\ Interruptible(c)
    /\ peer[c].wire # <<>> /\ Head(peer[c].wire).type = "block"
    /\ LET num == Head(peer[c].wire).num
           w   == [world EXCEPT !.peer[c].wire = Tail(@)]
       IN  \/ /\ HaveBlock(num)
              /\ Becomes(GoOn([SyncUpdateExpected(w, num, FALSE) EXCEPT !.conn[c].rejected = 0],
                               c, [op |-> "recv_block", num |-> num, cancel |-> TRUE]))
           \/ /\ ~HaveBlock(num)
              /\ num >= Lib(chain.head) \/ sync.stage = "lib_catchup"
              /\ Becomes([w EXCEPT !.chain.queue = Append(@, [from |-> c, num |-> num])])
           \/ /\ ~HaveBlock(num) /\ num < Lib(chain.head) /\ sync.stage # "lib_catchup"
              /\ IF num < Lib(conn[c].sent)
                 THEN Becomes(Post(w, c, [op |-> "close"]))
                 ELSE \E k \in 0..Len(w.peer[c].wire) :
                        Becomes(Post([PeerCancel(w, c, k) EXCEPT !.conn[c].armed = FALSE],
                                     c, Handshake(FALSE)))
    /\ UNCHANGED faults

\* process_signed_block on the application thread.
ProcessSignedBlock ==
    /\ chain.queue # <<>>
    /\ LET m == Head(chain.queue)
           w == [world EXCEPT !.chain.queue = Tail(@)]
       IN  Becomes(
             CASE ~conn[m.from].open -> w
               [] conn[m.from].open /\ m.num <= chain.head ->
                    Post(w, m.from, [op |-> "known_block", num |-> m.num])
               [] conn[m.from].open /\ m.num = chain.head + 1 ->
                    Post([w EXCEPT !.chain.head = m.num], m.from,
                         [op |-> "accepted_block", num |-> m.num])
               [] OTHER -> Post(w, m.from, [op |-> "rejected_block"]))
    /\ UNCHANGED faults

\* expire_blocks: the dispatcher forgets the irreversible blocks.
ExpireBlocks ==
    /\ chain.expires /\ chain.expired < Lib(chain.head)
    /\ chain' = [chain EXCEPT !.expired = Lib(chain.head)]
    /\ UNCHANGED <<sync, conn, peer, faults>>

-----------------------------------------------------------------------------
(* The tasks of a strand *)

Task(c, op) == conn[c].strand # <<>> /\ Head(conn[c].strand).op = op

Popped(c) == [world EXCEPT !.conn[c].strand = Tail(@)]

\* send_handshake: only if something has changed since the last one.
SendHandshake(c) ==
    /\ Task(c, "handshake")
    /\ LET w == Popped(c)
       IN  Becomes(IF ~Head(conn[c].strand).force /\ conn[c].sent = chain.head THEN w
                   ELSE IF conn[c].open
                   THEN PeerHandshake([w EXCEPT !.conn[c].sent = chain.head], c)
                   ELSE Post([w EXCEPT !.conn[c].sent = chain.head], c, [op |-> "close"]))
    /\ UNCHANGED faults

\* request_sync_blocks
RequestSyncBlocks(c) ==
    /\ Task(c, "request")
    /\ LET t == Head(conn[c].strand)
           w == [Popped(c) EXCEPT !.conn[c].armed = TRUE]
       IN  Becomes(IF conn[c].open THEN PeerSyncRequest(w, c, t.start, t.end)
                                   ELSE Post(w, c, [op |-> "close"]))
    /\ UNCHANGED faults

\* dispatcher->recv_block and sync_recv_block up to the end of
\* sync_update_expected.
AcceptedBlock(c) ==
    /\ Task(c, "accepted_block")
    /\ LET num == Head(conn[c].strand).num
       IN  Becomes(GoOn([SyncUpdateExpected(Popped(c), num, TRUE) EXCEPT
                             !.conn[c].armed = FALSE, !.conn[c].rejected = 0],
                         c, [op |-> "recv_block", num |-> num, cancel |-> FALSE]))
    /\ UNCHANGED faults

KnownBlock(c) ==
    /\ Task(c, "known_block")
    /\ LET num == Head(conn[c].strand).num
       IN  Becomes(GoOn([SyncUpdateExpected(Popped(c), num, FALSE) EXCEPT
                             !.conn[c].rejected = 0],
                         c, [op |-> "recv_block", num |-> num, cancel |-> FALSE]))
    /\ UNCHANGED faults

\* The rest of sync_recv_block, and of the handler that called it.
RecvBlock(c) ==
    /\ Task(c, "recv_block")
    /\ LET t == Head(conn[c].strand)
           w == SyncRecvBlock(Popped(c), c, t.num)
       IN  Becomes(IF t.cancel THEN [w EXCEPT !.conn[c].armed = FALSE] ELSE w)
    /\ UNCHANGED faults

\* sync_manager::rejected_block, and block_status_monitor::rejected
RejectedBlock(c) ==
    /\ Task(c, "rejected_block")
    /\ \E n \in {conn[c].rejected, conn[c].rejected + 1} \ {0} :
         LET w == [Popped(c) EXCEPT !.conn[c].rejected = n]
         IN  Becomes(IF n > MaxRejected
                     THEN Post([w EXCEPT !.sync.last = 0, !.sync.source = None],
                               c, [op |-> "close"])
                     ELSE Post(w, c, Handshake(TRUE)))
    /\ UNCHANGED faults

Close(c) ==
    /\ Task(c, "close")
    /\ Becomes(Closed(Popped(c), c))
    /\ UNCHANGED faults

\* The peer has nothing more to write for a request: the next block is beyond
\* its head and its handshake has been sent.
Unserved(c, r) == r.last >= peer[c].head /\ peer[c].sent = peer[c].head

\* Nothing is under way that could bring a block or a message.
Silent ==
    /\ chain.queue = <<>>
    /\ \A c \in Conn : /\ conn[c].open \/ peer[c].head = 0
                       /\ conn[c].strand = <<>>
                       /\ peer[c].wire = <<>>
                       /\ \A r \in peer[c].requested : Unserved(c, r)

\* The timer expires: from then on sync_timeout runs, even if the wait is
\* cancelled before its turn.
TimerExpires(c) ==
    /\ conn[c].armed
    /\ Silent \/ faults < MaxFaults
    /\ Becomes(Post([world EXCEPT !.conn[c].armed = FALSE], c, [op |-> "timeout"]))
    /\ faults' = IF Silent THEN faults ELSE faults + 1

SyncTimeout(c) ==
    /\ Task(c, "timeout")
    /\ \E k \in 0..Len(peer[c].wire) : Becomes(SyncReassignFetch(Popped(c), c, k))
    /\ UNCHANGED faults

-----------------------------------------------------------------------------
(* The peers *)

\* enqueue_sync_block, after every write: the next block that was asked for, or
\* the peer's handshake if it does not have that block.  When it has already sent
\* that handshake nothing is written, and the request goes on after the next
\* write for another reason, which a keep-alive makes sure of.
PeerSendsBlock(c) ==
    /\ \E r \in peer[c].requested :
         LET num == r.last + 1
             w   == [world EXCEPT !.peer[c].requested =
                        IF num = r.end THEN {} ELSE {[r EXCEPT !.last = num]}]
         IN  Becomes(CASE num <= peer[c].head -> Send(w, c, <<[type |-> "block", num |-> num]>>)
                       [] num > peer[c].head /\ peer[c].sent # peer[c].head ->
                            Send([w EXCEPT !.peer[c].sent = peer[c].head], c,
                                 <<[type |-> "handshake", num |-> peer[c].head]>>)
                       [] OTHER -> w)
    /\ UNCHANGED faults

\* The peer's chain grows, and bcast_block sends the new block to us unless
\* the peer takes us for a node that is syncing.
PeerGrows(c) ==
    /\ peer[c].head \in 1..MaxNum - 1
    /\ LET w == [world EXCEPT !.peer[c].head = @ + 1]
       IN  Becomes(IF conn[c].open /\ conn[c].sent # 0 /\ ~peer[c].syncing
                   THEN Send(w, c, <<[type |-> "block", num |-> peer[c].head + 1]>>) ELSE w)
    /\ UNCHANGED faults

-----------------------------------------------------------------------------
Receive(c) == ReceiveHandshake(c) \/ ReceiveNotice(c) \/ ReceiveBlock(c)

RunTask(c) ==
    \/ SendHandshake(c) \/ RequestSyncBlocks(c) \/ AcceptedBlock(c) \/ KnownBlock(c)
    \/ RecvBlock(c) \/ RejectedBlock(c) \/ Close(c) \/ SyncTimeout(c)

Next ==
    \/ \E c \in Conn : Connect(c)
    \/ \E c \in Conn : Lose(c)
    \/ \E c \in Conn : Receive(c)
    \/ \E c \in Conn : RunTask(c)
    \/ \E c \in Conn : TimerExpires(c)
    \/ \E c \in Conn : PeerSendsBlock(c)
    \/ \E c \in Conn : PeerGrows(c)
    \/ ProcessSignedBlock
    \/ ExpireBlocks

Spec == Init /\ [][Next]_vars

\* What the threads, the timers and the peers do of themselves.  A timer that
\* is armed does expire, a closed connection is opened again.
Progress ==
    \/ ProcessSignedBlock
    \/ \E c \in Conn : Connect(c) \/ Receive(c) \/ RunTask(c) \/ TimerExpires(c) \/ PeerSendsBlock(c)

\* As long as one of these can be done, one of them is.
FairSpec == Spec /\ WF_vars(Progress)

-----------------------------------------------------------------------------
\* No block is skipped: the block a chunk begins with is never beyond the one
\* after our head, whichever strand's block, late or sent twice, has moved
\* sync_next_expected_num (sync_update_expected).  A gap would make every block
\* of the chunk unlinkable.
NothingSkipped == sync.expected <= chain.head + 1

\* Nothing is under way and no timer will change that.
Quiet == Silent /\ \A c \in Conn : ~conn[c].armed

\* The node never comes to rest behind its peers' last irreversible block: as
\* long as it is, there is a task, a message, a block or an armed timer.
QuietIsCaughtUp == Quiet => \A c \in Conn : chain.head >= Lib(peer[c].head)

\* Whatever connection is lost and whichever timer expires early, the node
\* catches up with the last irreversible block of its peers ("persistently
\* synchronize nodes").
CatchesUp == <>[](\A c \in Conn : chain.head >= Lib(peer[c].head))
=============================================================================
