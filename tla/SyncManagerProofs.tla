------------------------- MODULE SyncManagerProofs -------------------------
(***************************************************************************)
(* No block is skipped by a sync, for any number of connections, any chunk *)
(* size, any heads of the peers and any number of faults.                  *)
(*                                                                         *)
(* sync_next_expected_num is moved by every strand, for blocks that were   *)
(* applied, known or thrown away long before, and by start_sync; the       *)
(* invariant says why it cannot pass our head: a strand's task that names  *)
(* an accepted or a known block names one we have, whatever has happened   *)
(* to the connection since it was posted, and the head never goes back.    *)
(* A world in which that holds, with head h, is a member of World(h), and  *)
(* each handler is shown to lead from World(h) to World(h); only the       *)
(* application thread leads from World(h) to World(h + 1).                 *)
(***************************************************************************)
EXTENDS SyncManager, NaturalSets, SequenceTheorems

\* The block numbers up to h.
UpTo(h) == {n \in Int : n <= h}

Bool == BOOLEAN

\* What a strand holds: the blocks it is told of as accepted or known are blocks
\* that a node with head h has.
Tasks(h) ==
    [op : {"handshake"}, force : Bool] \cup [op : {"request"}, start : Int, end : Int]
    \cup [op : {"accepted_block", "known_block"}, num : UpTo(h)]
    \cup [op : {"recv_block"}, num : Int, cancel : Bool]
    \cup [op : {"rejected_block", "close", "timeout"}]

Kinds    == {"handshake", "catch_up", "last_irr_catch_up", "block", "go_away"}
Stages   == {"in_sync", "lib_catchup", "head_catchup"}
Messages == [type : Kinds, num : Int]
Request  == [last : Int, end : Int]
Requests == {{}} \cup {{r} : r \in Request}

ConnAt(h) ==
    [open : Bool, connecting : Bool, syncing : Bool, armed : Bool,
     lib : Int, sent : Int, fork_head : Int, rejected : Int, strand : Seq(Tasks(h))]
PeerState == [head : Int, sent : Int, syncing : Bool, requested : Requests, wire : Seq(Messages)]
SyncAt(h) ==
    [known : Int, last : Int, expected : UpTo(h + 1), source : 0 .. NumConn, stage : Stages]
Only(h)    == {h}
Entries    == [from : Conn, num : Int]
ChainAt(h) == [head : Only(h), queue : Seq(Entries), expired : Int, expires : Bool]

World(h) ==
    [chain : ChainAt(h), sync : SyncAt(h), conn : [Conn -> ConnAt(h)], peer : [Conn -> PeerState]]

\* TRUE and FALSE, for a set that is not expanded.
LEMMA Bools == TRUE \in Bool /\ FALSE \in Bool
  BY DEF Bool

\* Changing one field of a record.
LEMMA SetConnField ==
    ASSUME NEW h, NEW r \in ConnAt(h)
    PROVE  /\ \A q \in Bool : [r EXCEPT !.open = q] \in ConnAt(h)
           /\ \A q \in Bool : [r EXCEPT !.connecting = q] \in ConnAt(h)
           /\ \A q \in Bool : [r EXCEPT !.syncing = q] \in ConnAt(h)
           /\ \A q \in Bool : [r EXCEPT !.armed = q] \in ConnAt(h)
           /\ \A q \in Int : [r EXCEPT !.lib = q] \in ConnAt(h)
           /\ \A q \in Int : [r EXCEPT !.sent = q] \in ConnAt(h)
           /\ \A q \in Int : [r EXCEPT !.fork_head = q] \in ConnAt(h)
           /\ \A q \in Int : [r EXCEPT !.rejected = q] \in ConnAt(h)
           /\ \A q \in Seq(Tasks(h)) : [r EXCEPT !.strand = q] \in ConnAt(h)
  BY DEF ConnAt

\* The same, of the peer's side.
LEMMA SetPeerField ==
    ASSUME NEW r \in PeerState
    PROVE  /\ \A q \in Int : [r EXCEPT !.head = q] \in PeerState
           /\ \A q \in Int : [r EXCEPT !.sent = q] \in PeerState
           /\ \A q \in Bool : [r EXCEPT !.syncing = q] \in PeerState
           /\ \A q \in Requests : [r EXCEPT !.requested = q] \in PeerState
           /\ \A q \in Seq(Messages) : [r EXCEPT !.wire = q] \in PeerState
  BY DEF PeerState

\* The same, of sync_manager.
LEMMA SetSyncField ==
    ASSUME NEW h, NEW r \in SyncAt(h)
    PROVE  /\ \A q \in Int : [r EXCEPT !.known = q] \in SyncAt(h)
           /\ \A q \in Int : [r EXCEPT !.last = q] \in SyncAt(h)
           /\ \A q \in UpTo(h + 1) : [r EXCEPT !.expected = q] \in SyncAt(h)
           /\ \A q \in 0 .. NumConn : [r EXCEPT !.source = q] \in SyncAt(h)
           /\ \A q \in Stages : [r EXCEPT !.stage = q] \in SyncAt(h)
<1>1. PICK S : S = UpTo(h + 1)
  OBVIOUS
<1>2. PICK T : T = 0 .. NumConn
  OBVIOUS
<1>3. SyncAt(h) = [known : Int, last : Int, expected : S, source : T, stage : Stages]
  BY <1>1, <1>2 DEF SyncAt
<1> QED
  BY <1>1, <1>2, <1>3

\* The same, of the application thread.
LEMMA SetChainField ==
    ASSUME NEW h, NEW r \in ChainAt(h)
    PROVE  /\ \A q \in Seq(Entries) : [r EXCEPT !.queue = q] \in ChainAt(h)
           /\ \A q \in Int : [r EXCEPT !.expired = q] \in ChainAt(h)
  BY DEF ChainAt

\* Changing one of the four parts of a world.
LEMMA SetPart ==
    ASSUME NEW h, NEW w \in World(h)
    PROVE  /\ \A q \in ChainAt(h) : [w EXCEPT !.chain = q] \in World(h)
           /\ \A q \in SyncAt(h) : [w EXCEPT !.sync = q] \in World(h)
           /\ \A q \in [Conn -> ConnAt(h)] : [w EXCEPT !.conn = q] \in World(h)
           /\ \A q \in [Conn -> PeerState] : [w EXCEPT !.peer = q] \in World(h)
  BY DEF World

\* Changing what belongs to one connection.
LEMMA SetOne ==
    ASSUME NEW S, NEW f \in [Conn -> S], NEW c \in Conn, NEW x \in S
    PROVE  [f EXCEPT ![c] = x] \in [Conn -> S]
  OBVIOUS

\* The parts of a world.
LEMMA Parts ==
    ASSUME NEW h, NEW w \in World(h)
    PROVE  /\ w.chain \in ChainAt(h) /\ w.chain.head = h /\ w.sync \in SyncAt(h)
           /\ w.conn \in [Conn -> ConnAt(h)] /\ w.peer \in [Conn -> PeerState]
           /\ \A c \in Conn : w.conn[c] \in ConnAt(h) /\ w.peer[c] \in PeerState
<1>1. w.chain \in ChainAt(h) /\ w.sync \in SyncAt(h)
      /\ w.conn \in [Conn -> ConnAt(h)] /\ w.peer \in [Conn -> PeerState]
  BY DEF World
<1>2. w.chain.head = h
  <2>1. w.chain.head \in Only(h)
    BY <1>1 DEF ChainAt
  <2> QED
    BY <2>1 DEF Only
<1> QED
  BY <1>1, <1>2

\* The same, of a world.
LEMMA SetConn ==
    ASSUME NEW h, NEW w \in World(h), NEW c \in Conn
    PROVE  /\ \A q \in Bool : [w EXCEPT !.conn[c].open = q] \in World(h)
           /\ \A q \in Bool : [w EXCEPT !.conn[c].connecting = q] \in World(h)
           /\ \A q \in Bool : [w EXCEPT !.conn[c].syncing = q] \in World(h)
           /\ \A q \in Bool : [w EXCEPT !.conn[c].armed = q] \in World(h)
           /\ \A q \in Int : [w EXCEPT !.conn[c].lib = q] \in World(h)
           /\ \A q \in Int : [w EXCEPT !.conn[c].sent = q] \in World(h)
           /\ \A q \in Int : [w EXCEPT !.conn[c].fork_head = q] \in World(h)
           /\ \A q \in Int : [w EXCEPT !.conn[c].rejected = q] \in World(h)
           /\ \A q \in Seq(Tasks(h)) : [w EXCEPT !.conn[c].strand = q] \in World(h)
<1>1. w.conn \in [Conn -> ConnAt(h)] /\ w.conn[c] \in ConnAt(h)
  BY Parts, Zenon
<1>2. \A x \in ConnAt(h) : [w EXCEPT !.conn = [w.conn EXCEPT ![c] = x]] \in World(h)
  BY <1>1, SetOne, SetPart, Zenon
<1> QED
  BY <1>1, <1>2, SetConnField, Zenon

\* A field of the peer of one connection changes.
LEMMA SetPeer ==
    ASSUME NEW h, NEW w \in World(h), NEW c \in Conn
    PROVE  /\ \A q \in Int : [w EXCEPT !.peer[c].head = q] \in World(h)
           /\ \A q \in Int : [w EXCEPT !.peer[c].sent = q] \in World(h)
           /\ \A q \in Bool : [w EXCEPT !.peer[c].syncing = q] \in World(h)
           /\ \A q \in Requests : [w EXCEPT !.peer[c].requested = q] \in World(h)
           /\ \A q \in Seq(Messages) : [w EXCEPT !.peer[c].wire = q] \in World(h)
<1>1. w.peer \in [Conn -> PeerState] /\ w.peer[c] \in PeerState
  BY Parts, Zenon
<1>2. \A x \in PeerState : [w EXCEPT !.peer = [w.peer EXCEPT ![c] = x]] \in World(h)
  BY <1>1, SetOne, SetPart, Zenon
<1> QED
  BY <1>1, <1>2, SetPeerField, Zenon

\* A member of sync_manager changes.
LEMMA SetSync ==
    ASSUME NEW h, NEW w \in World(h)
    PROVE  /\ \A q \in Int : [w EXCEPT !.sync.known = q] \in World(h)
           /\ \A q \in Int : [w EXCEPT !.sync.last = q] \in World(h)
           /\ \A q \in UpTo(h + 1) : [w EXCEPT !.sync.expected = q] \in World(h)
           /\ \A q \in 0 .. NumConn : [w EXCEPT !.sync.source = q] \in World(h)
           /\ \A q \in Stages : [w EXCEPT !.sync.stage = q] \in World(h)
<1>1. w.sync \in SyncAt(h)
  BY Parts
<1> QED
  BY <1>1, SetPart, SetSyncField, Zenon

\* The application thread's queue or the forgotten blocks change.
LEMMA SetChain ==
    ASSUME NEW h, NEW w \in World(h)
    PROVE  /\ \A q \in Seq(Entries) : [w EXCEPT !.chain.queue = q] \in World(h)
           /\ \A q \in Int : [w EXCEPT !.chain.expired = q] \in World(h)
<1>1. w.chain \in ChainAt(h)
  BY Parts
<1> QED
  BY <1>1, SetPart, SetChainField, Zenon

\* The tasks that are posted.
LEMMA TasksOf ==
    ASSUME NEW h
    PROVE  /\ \A f \in Bool : [op |-> "handshake", force |-> f] \in Tasks(h)
           /\ \A s, e \in Int : [op |-> "request", start |-> s, end |-> e] \in Tasks(h)
           /\ \A n \in UpTo(h) : /\ [op |-> "accepted_block", num |-> n] \in Tasks(h)
                                 /\ [op |-> "known_block", num |-> n] \in Tasks(h)
           /\ \A n \in Int, f \in Bool : [op |-> "recv_block", num |-> n, cancel |-> f] \in Tasks(h)
           /\ [op |-> "rejected_block"] \in Tasks(h) /\ [op |-> "close"] \in Tasks(h)
           /\ [op |-> "timeout"] \in Tasks(h)
  BY DEF Tasks

\* Post
LEMMA PostOK ==
    ASSUME NEW h, NEW w \in World(h), NEW c \in Conn, NEW t \in Tasks(h)
    PROVE  Post(w, c, t) \in World(h)
<1>1. w.conn[c].strand \in Seq(Tasks(h))
  <2>1. w.conn[c] \in ConnAt(h)
    BY Parts
  <2> QED
    BY <2>1 DEF ConnAt
<1>2. Append(w.conn[c].strand, t) \in Seq(Tasks(h))
  BY <1>1, AppendProperties
<1> QED
  BY <1>2, SetConn, Zenon DEF Post

\* The tasks posted most: send_handshake and close.
LEMMA HandshakeOK ==
    ASSUME NEW h, NEW w \in World(h), NEW c \in Conn
    PROVE  Post(w, c, Handshake(FALSE)) \in World(h) /\ Post(w, c, Handshake(TRUE)) \in World(h)
           /\ Post(w, c, [op |-> "close"]) \in World(h)
<1>1. Handshake(TRUE) \in Tasks(h) /\ Handshake(FALSE) \in Tasks(h) /\ [op |-> "close"] \in Tasks(h)
  BY TasksOf, Bools, Zenon DEF Handshake
<1> QED
  BY <1>1, PostOK, Zenon

\* sync_manager::send_handshakes
LEMMA SendHandshakesOK ==
    ASSUME NEW h, NEW w \in World(h)
    PROVE  SendHandshakes(w) \in World(h)
<1>1. \A c \in Conn : Post(w, c, Handshake(FALSE)).conn[c] \in ConnAt(h) /\ w.conn[c] \in ConnAt(h)
  BY HandshakeOK, Parts, Zenon
<1>2. [c \in Conn |-> IF Current(w, c) THEN Post(w, c, Handshake(FALSE)).conn[c] ELSE w.conn[c]]
        \in [Conn -> ConnAt(h)]
  BY <1>1, Zenon
<1> QED
  BY <1>2, SetPart, Zenon DEF SendHandshakes

\* Send
LEMMA SendOK ==
    ASSUME NEW h, NEW w \in World(h), NEW c \in Conn, NEW m \in Seq(Messages)
    PROVE  Send(w, c, m) \in World(h)
<1>1. w.peer[c].wire \in Seq(Messages)
  <2>1. w.peer[c] \in PeerState
    BY Parts
  <2> QED
    BY <2>1 DEF PeerState
<1>2. w.peer[c].wire \o m \in Seq(Messages)
  BY <1>1, ConcatProperties
<1> QED
  BY <1>2, SetPeer, Zenon DEF Send

\* The fields of a world.
LEMMA Fields ==
    ASSUME NEW h \in Int, NEW w \in World(h)
    PROVE  /\ w.sync.known \in Int /\ w.sync.last \in Int /\ w.sync.expected \in UpTo(h + 1)
           /\ w.sync.expected \in Int
           /\ w.sync.source \in 0 .. NumConn /\ w.sync.stage \in Stages
           /\ w.chain.head = h /\ w.chain.queue \in Seq(Entries)
<1>1. w.chain \in ChainAt(h) /\ w.chain.head = h /\ w.sync \in SyncAt(h)
  BY Parts, Zenon
<1>2. /\ w.sync.known \in Int /\ w.sync.last \in Int /\ w.sync.expected \in UpTo(h + 1)
      /\ w.sync.source \in 0 .. NumConn /\ w.sync.stage \in Stages
  BY <1>1 DEF SyncAt
<1>3. w.chain.queue \in Seq(Entries)
  BY <1>1 DEF ChainAt
<1>4. w.sync.expected \in Int
  BY <1>2 DEF UpTo
<1> QED
  BY <1>1, <1>2, <1>3, <1>4

\* The fields of a connection.
LEMMA ConnFields ==
    ASSUME NEW h, NEW w \in World(h), NEW c \in Conn
    PROVE  /\ w.conn[c].open \in Bool /\ w.conn[c].syncing \in Bool
           /\ w.conn[c].lib \in Int /\ w.conn[c].sent \in Int /\ w.conn[c].fork_head \in Int
           /\ w.conn[c].rejected \in Int /\ w.conn[c].strand \in Seq(Tasks(h))
           /\ w.peer[c].head \in Int /\ w.peer[c].sent \in Int /\ w.peer[c].requested \in Requests
           /\ w.peer[c].wire \in Seq(Messages)
<1>1. w.conn[c] \in ConnAt(h) /\ w.peer[c] \in PeerState
  BY Parts, Zenon
<1>2. /\ w.conn[c].open \in Bool /\ w.conn[c].syncing \in Bool
      /\ w.conn[c].lib \in Int /\ w.conn[c].sent \in Int /\ w.conn[c].fork_head \in Int
      /\ w.conn[c].rejected \in Int /\ w.conn[c].strand \in Seq(Tasks(h))
  BY <1>1 DEF ConnAt
<1>3. /\ w.peer[c].head \in Int /\ w.peer[c].sent \in Int /\ w.peer[c].requested \in Requests
      /\ w.peer[c].wire \in Seq(Messages)
  BY <1>1 DEF PeerState
<1> QED
  BY <1>2, <1>3

\* The root is not ahead of the head.
LEMMA LibBelow ==
    ASSUME NEW n \in Int
    PROVE  Lib(n) \in Int /\ \A m \in Int : 1 <= m /\ n <= m => Lib(n) <= m
<1>1. LibLag \in Nat
  BY NetAssumption
<1>2. PICK d \in Int : d = n - LibLag
  BY <1>1
<1>3. 1 \in Int
  OBVIOUS
<1>4. Max({1, d}) \in {1, d}
  BY <1>3, MaxOfTwo
<1>5. Lib(n) = Max({1, d})
  BY <1>2 DEF Lib
<1> QED
  BY <1>1, <1>2, <1>4, <1>5

\* What is sent at once.
LEMMA MessagesOf ==
    /\ << >> \in Seq(Messages)
    /\ \A n \in Int : /\ <<[type |-> "handshake", num |-> n]>> \in Seq(Messages)
                      /\ <<[type |-> "catch_up", num |-> n]>> \in Seq(Messages)
                      /\ <<[type |-> "last_irr_catch_up", num |-> n]>> \in Seq(Messages)
                      /\ <<[type |-> "block", num |-> n]>> \in Seq(Messages)
                      /\ <<[type |-> "go_away", num |-> n]>> \in Seq(Messages)
<1>1. \A m \in Messages : <<m>> \in Seq(Messages)
  OBVIOUS
<1>2. \A s \in Kinds, n \in Int : [type |-> s, num |-> n] \in Messages
  BY DEF Messages
<1>3. /\ "handshake" \in Kinds /\ "catch_up" \in Kinds /\ "last_irr_catch_up" \in Kinds
      /\ "block" \in Kinds /\ "go_away" \in Kinds
  BY DEF Kinds
<1>4. << >> \in Seq(Messages)
  OBVIOUS
<1> QED
  BY <1>1, <1>2, <1>3, <1>4, Zenon

\* PeerHandshake
LEMMA PeerHandshakeOK ==
    ASSUME NEW h \in Nat \ {0}, NEW w \in World(h), NEW c \in Conn
    PROVE  PeerHandshake(w, c) \in World(h)
<1> DEFINE p    == w.peer[c]
           g    == w.chain.head
           note == CASE p.head <= g      -> <<>>
                     [] Lib(p.head) > g  -> <<[type |-> "last_irr_catch_up", num |-> p.head]>>
                     [] OTHER            -> <<[type |-> "catch_up", num |-> p.head]>>
           own  == IF p.sent = 0 THEN <<[type |-> "handshake", num |-> p.head]>> ELSE <<>>
           far  == Lib(p.head) > g
           v    == [w EXCEPT !.peer[c].syncing = far]
           u    == [v EXCEPT !.peer[c].sent = IF @ = 0 THEN p.head ELSE @]
<1>1. p.head \in Int /\ p.sent \in Int
  BY ConnFields, Zenon
<1>2. note \in Seq(Messages) /\ own \in Seq(Messages)
  <2>1. own \in Seq(Messages)
    BY <1>1, MessagesOf, Zenon
  <2>2. CASE p.head <= g
    <3>1. ~far
      <4>1. g = h /\ h \in Int /\ 1 <= h
        BY Parts
      <4>2. PICK n \in Int : n = p.head
        BY <1>1
      <4>3. Lib(n) \in Int /\ Lib(n) <= h
        BY <2>2, <4>1, <4>2, LibBelow
      <4> QED
        BY <4>1, <4>2, <4>3
    <3>2. note = << >>
      BY <2>2, <3>1, Zenon
    <3> QED
      BY <2>1, <3>2, MessagesOf, Zenon
  <2>3. CASE ~(p.head <= g) /\ far
    <3>1. note = <<[type |-> "last_irr_catch_up", num |-> p.head]>>
      BY <2>3, Zenon
    <3> QED
      BY <1>1, <2>1, <3>1, MessagesOf, Zenon
  <2>4. CASE ~(p.head <= g) /\ ~far
    <3>1. note = <<[type |-> "catch_up", num |-> p.head]>>
      BY <2>4, Zenon
    <3> QED
      BY <1>1, <2>1, <3>1, MessagesOf, Zenon
  <2> QED
    BY <2>2, <2>3, <2>4, Zenon
<1>3. note \o own \in Seq(Messages)
  <2> HIDE DEF note, own
  <2> QED
    BY <1>2, ConcatProperties
<1>4. far \in Bool
  BY DEF Bool
<1>5. v \in World(h)
  <2> HIDE DEF far
  <2> QED
    BY <1>4, SetPeer, Zenon
<1>6. u \in World(h)
  <2>1. v.peer[c].sent \in Int
    <3> HIDE DEF v
    <3> QED
      BY <1>5, ConnFields, Zenon
  <2>2. (IF v.peer[c].sent = 0 THEN p.head ELSE v.peer[c].sent) \in Int
    <3> HIDE DEF v
    <3> QED
      BY <1>1, <2>1, Zenon
  <2> HIDE DEF v, p
  <2> QED
    BY <1>5, <2>2, SetPeer, Zenon
<1>7. PeerHandshake(w, c) = Send(u, c, note \o own)
  BY Zenon DEF PeerHandshake
<1> HIDE DEF u, note, own
<1> QED
  BY <1>3, <1>6, <1>7, SendOK, Zenon

\* What a request for blocks is.
LEMMA RequestsOf ==
    /\ {} \in Requests
    /\ \A a, e \in Int : {[last |-> a, end |-> e]} \in Requests
    /\ \A R \in Requests : R # {} => \E r \in Request : R = {r}
  BY DEF Requests, Request

\* PeerSyncRequest
LEMMA PeerSyncRequestOK ==
    ASSUME NEW h, NEW w \in World(h), NEW c \in Conn, NEW start \in Int, NEW end \in Int
    PROVE  PeerSyncRequest(w, c, start, end) \in World(h)
<1> DEFINE R == w.peer[c].requested
           Q == IF R = {} THEN {[last |-> start - 1, end |-> end]}
                ELSE {[last |-> r.last, end |-> Max({r.end, end})] : r \in R}
<1>1. R \in Requests
  BY ConnFields, Zenon
<1>2. Q \in Requests
  <2>1. CASE R = {}
    <3>1. start - 1 \in Int
      OBVIOUS
    <3>2. Q = {[last |-> start - 1, end |-> end]}
      BY <2>1, Zenon
    <3> HIDE DEF Q
    <3> QED
      BY <3>1, <3>2, RequestsOf, Zenon
  <2>2. CASE R # {}
    <3>1. PICK r \in Request : R = {r}
      BY <1>1, <2>2, RequestsOf, Zenon
    <3>2. r.last \in Int /\ r.end \in Int
      BY DEF Request
    <3>3. Max({r.end, end}) \in Int
      <4>1. PICK e \in Int : e = r.end
        BY <3>2
      <4>2. Max({e, end}) \in {e, end}
        BY MaxOfTwo
      <4> QED
        BY <4>1, <4>2
    <3>4. Q = {[last |-> q.last, end |-> Max({q.end, end})] : q \in {r}}
      BY <2>2, <3>1, Zenon
    <3>5. Q = {[last |-> r.last, end |-> Max({r.end, end})]}
      <4> HIDE DEF Q
      <4> QED
        BY <3>4, Zenon
    <3> HIDE DEF Q
    <3> QED
      BY <3>2, <3>3, <3>5, RequestsOf, Zenon
  <2> QED
    BY <2>1, <2>2
<1>3. PeerSyncRequest(w, c, start, end) = [w EXCEPT !.peer[c].requested = Q]
  BY Zenon DEF PeerSyncRequest
<1> HIDE DEF Q
<1>4. [w EXCEPT !.peer[c].requested = Q] \in World(h)
  BY <1>2, SetPeer, Zenon
<1> QED
  BY <1>3, <1>4, Zenon

\* PeerCancel
LEMMA PeerCancelOK ==
    ASSUME NEW h, NEW w \in World(h), NEW c \in Conn, NEW k \in 0 .. Len(w.peer[c].wire)
    PROVE  PeerCancel(w, c, k) \in World(h)
<1> DEFINE v == [w EXCEPT !.peer[c].requested = {}]
<1>1. v \in World(h)
  BY RequestsOf, SetPeer, Zenon
<1>2. v.peer[c].wire = w.peer[c].wire
  BY Parts DEF World, PeerState
<1>3. SubSeq(v.peer[c].wire, 1, k) \in Seq(Messages)
  <2>1. PICK x \in Seq(Messages) : x = w.peer[c].wire
    BY ConnFields, Zenon
  <2>2. k \in 0 .. Len(x)
    BY <2>1
  <2>3. \A i \in 1 .. k : x[i] \in Messages
    <3>1. Len(x) \in Nat
      BY LenProperties
    <3>2. \A i \in 1 .. k : i \in 1 .. Len(x)
      BY <2>2, <3>1
    <3> QED
      BY <3>2, ElementOfSeq
  <2>4. SubSeq(x, 1, k) \in Seq(Messages)
    BY <2>2, <2>3, SubSeqProperties
  <2> QED
    BY <1>2, <2>1, <2>4, Zenon
<1>4. PeerCancel(w, c, k) = [v EXCEPT !.peer[c].wire = SubSeq(v.peer[c].wire, 1, k)]
  BY Zenon DEF PeerCancel
<1> HIDE DEF v
<1>5. [v EXCEPT !.peer[c].wire = SubSeq(v.peer[c].wire, 1, k)] \in World(h)
  BY <1>1, <1>3, SetPeer, Zenon
<1> QED
  BY <1>4, <1>5, Zenon

\* PeerBranch
LEMMA PeerBranchOK ==
    ASSUME NEW h \in Int, NEW w \in World(h), NEW c \in Conn
    PROVE  PeerBranch(w, c) \in World(h)
<1> DEFINE R == w.peer[c].requested
           E == Max({w.peer[c].head} \cup {r.end : r \in R})
           Q == {r \in {[last |-> w.chain.head, end |-> E]} : r.last < r.end}
           x == <<[type |-> "go_away", num |-> 0]>>
<1>1. R \in Requests /\ w.peer[c].head \in Int /\ w.chain.head = h
  BY ConnFields, Fields, Zenon
<1>2. E \in Int
  <2>1. PICK a \in Int : a = w.peer[c].head
    BY <1>1
  <2>2. CASE R = {}
    <3>1. {w.peer[c].head} \cup {r.end : r \in R} = {a, a}
      BY <2>1, <2>2
    <3>2. Max({a, a}) \in {a, a}
      BY MaxOfTwo
    <3> QED
      BY <3>1, <3>2
  <2>3. CASE R # {}
    <3>1. PICK r \in Request : R = {r}
      BY <1>1, <2>3, RequestsOf, Zenon
    <3>2. PICK e \in Int : e = r.end
      BY DEF Request
    <3>3. {w.peer[c].head} \cup {q.end : q \in R} = {a, e}
      BY <2>1, <3>1, <3>2
    <3>4. Max({a, e}) \in {a, e}
      BY MaxOfTwo
    <3> QED
      BY <3>3, <3>4
  <2> QED
    BY <2>2, <2>3
<1>3. Q \in Requests
  <2> HIDE DEF E
  <2>1. {[last |-> w.chain.head, end |-> E]} \in Requests
    BY <1>1, <1>2, RequestsOf, Zenon
  <2>2. Q = {} \/ Q = {[last |-> w.chain.head, end |-> E]}
    OBVIOUS
  <2> HIDE DEF Q
  <2> QED
    BY <2>1, <2>2, RequestsOf, Zenon
<1>4. [w EXCEPT !.peer[c].requested = Q] \in World(h)
  <2> HIDE DEF Q
  <2> QED
    BY <1>3, SetPeer, Zenon
<1>5. Send(w, c, x) \in World(h)
  <2>1. 0 \in Int
    OBVIOUS
  <2>2. x \in Seq(Messages)
    BY <2>1, MessagesOf, Zenon
  <2> HIDE DEF x
  <2> QED
    BY <2>2, SendOK, Zenon
<1>6. PeerBranch(w, c) = IF w.conn[c].sent = 0 THEN w
                         ELSE IF w.chain.head > w.peer[c].head THEN Send(w, c, x)
                         ELSE [w EXCEPT !.peer[c].requested = Q]
  BY Zenon DEF PeerBranch
<1> HIDE DEF Q, x
<1> QED
  BY <1>4, <1>5, <1>6, Zenon

\* The next source is a connection.
LEMMA NextSourceOK ==
    ASSUME NEW h \in Int, NEW w \in World(h)
    PROVE  NextSource(w) \in 0 .. NumConn
<1> DEFINE able    == {c \in Conn : Current(w, c)}
           rank(c) == (c - w.sync.source - 1) % NumConn
           R       == {rank(c) : c \in able}
<1>1. w.sync.source \in 0 .. NumConn
  BY Fields, Zenon
<1>2. NumConn \in Nat /\ NumConn # 0
  BY NetAssumption
<1>3. \A c \in Conn : rank(c) \in Nat
  <2> TAKE c \in Conn
  <2>1. PICK d \in Int : d = c - w.sync.source - 1
    BY <1>1, <1>2 DEF Conn
  <2>2. d % NumConn \in Nat
    BY <1>2
  <2> QED
    BY <2>1, <2>2
<1>4. CASE able = {}
  BY <1>1, <1>4 DEF NextSource
<1>5. CASE able # {}
  <2>1. R \in SUBSET Nat /\ R # {}
    <3> HIDE DEF rank
    <3> QED
      BY <1>3, <1>5
  <2>2. PICK n \in R : \A m \in R : n <= m
    <3> HIDE DEF R
    <3> QED
      BY <2>1, LeastNatural
  <2>3. \E c \in able : \A d \in able : rank(c) <= rank(d)
    <3> HIDE DEF rank
    <3> QED
      BY <2>2
  <2>4. NextSource(w) = CHOOSE c \in able : \A d \in able : rank(c) <= rank(d)
    BY <1>5, Zenon DEF NextSource
  <2>5. NextSource(w) \in able
    <3> HIDE DEF able, rank
    <3> QED
      BY <2>3, <2>4, Zenon
  <2> QED
    BY <1>2, <2>5 DEF Conn
<1> QED
  BY <1>4, <1>5

\* request_next_chunk
LEMMA RequestNextChunkOK ==
    ASSUME NEW h \in Nat \ {0}, NEW w \in World(h), NEW c \in 0 .. NumConn
    PROVE  RequestNextChunk(w, c) \in World(h)
<1> DEFINE y     == w.sync
           src   == IF c # None /\ Current(w, c) THEN c ELSE NextSource(w)
           start == y.expected
           end   == Min({start + Span - 1, y.known})
           far   == Lib(w.chain.head)
           y1    == [y EXCEPT !.source = src]
           y2    == [y1 EXCEPT !.known = far]
           y3    == [y2 EXCEPT !.last = 0]
           y4    == [y3 EXCEPT !.stage = "in_sync"]
           u     == [w EXCEPT !.sync = y4]
           v     == [w EXCEPT !.sync.source = src]
           t     == [v EXCEPT !.sync.last = end]
           q     == [op |-> "request", start |-> start, end |-> end]
<1>1. y \in SyncAt(h) /\ w.chain.head = h
  BY Parts, Zenon
<1>2. start \in Int /\ y.known \in Int
  <2>1. h \in Int
    OBVIOUS
  <2> QED
    BY <2>1, Fields, Zenon
<1>3. src \in 0 .. NumConn
  <2>1. h \in Int
    OBVIOUS
  <2> QED
    BY <2>1, NextSourceOK, Zenon
<1>4. end \in Int
  <2>1. Span \in Int
    BY NetAssumption
  <2>2. PICK a \in Int : a = start + Span - 1
    BY <1>2, <2>1
  <2>3. PICK b \in Int : b = y.known
    BY <1>2
  <2>4. Min({a, b}) \in {a, b}
    BY MinOfTwo
  <2> QED
    BY <2>2, <2>3, <2>4
<1>5. far \in Int
  BY <1>1, LibBelow
<1>6. u \in World(h)
  <2> HIDE DEF y, src, far
  <2>1. y1 \in SyncAt(h)
    BY <1>1, <1>3, SetSyncField, Zenon
  <2> HIDE DEF y1
  <2>2. y2 \in SyncAt(h)
    BY <1>5, <2>1, SetSyncField, Zenon
  <2> HIDE DEF y2
  <2>3. 0 \in Int /\ "in_sync" \in Stages
    BY DEF Stages
  <2>4. y3 \in SyncAt(h)
    BY <2>2, <2>3, SetSyncField, Zenon
  <2> HIDE DEF y3
  <2>5. y4 \in SyncAt(h)
    BY <2>3, <2>4, SetSyncField, Zenon
  <2> HIDE DEF y4
  <2> QED
    BY <2>5, SetPart, Zenon
<1>7. v \in World(h)
  <2> HIDE DEF src
  <2> QED
    BY <1>3, SetSync, Zenon
<1>8. t \in World(h)
  <2> HIDE DEF v, end
  <2> QED
    BY <1>4, <1>7, SetSync, Zenon
<1>9. q \in Tasks(h)
  <2> HIDE DEF start, end
  <2> QED
    BY <1>2, <1>4, TasksOf, Zenon
<1>10. src # None => src \in Conn
  <2> HIDE DEF src
  <2>1. NumConn \in Nat
    BY NetAssumption
  <2> QED
    BY <1>3, <2>1 DEF None, Conn
<1>11. RequestNextChunk(w, c) =
         IF w.chain.head < y.last /\ y.source # None /\ Current(w, y.source) THEN w
         ELSE IF src = None \/ ~Current(w, src) THEN u
         ELSE IF y.last # y.known /\ end > 0 /\ end >= start THEN Post(t, src, q)
         ELSE Post(v, src, Handshake(FALSE))
  BY Zenon DEF RequestNextChunk
<1> HIDE DEF y, src, end, u, v, t, q
<1>12. CASE src = None
  BY <1>6, <1>11, <1>12, Zenon
<1>13. CASE src # None
  <2>1. Post(t, src, q) \in World(h)
    BY <1>8, <1>9, <1>10, <1>13, PostOK, Zenon
  <2>2. Post(v, src, Handshake(FALSE)) \in World(h)
    BY <1>7, <1>10, <1>13, HandshakeOK, Zenon
  <2> QED
    BY <1>6, <1>11, <2>1, <2>2, Zenon
<1> QED
  BY <1>12, <1>13

\* sync_reset_lib_num
LEMMA SyncResetLibNumOK ==
    ASSUME NEW h \in Nat \ {0}, NEW w \in World(h), NEW c \in Conn
    PROVE  SyncResetLibNum(w, c) \in World(h)
<1> DEFINE s == IF w.sync.stage = "in_sync" THEN None ELSE w.sync.source
           v == [w EXCEPT !.sync.source = s]
           m == Max({v.sync.known, w.conn[c].lib})
           u == [v EXCEPT !.sync.known = m]
           t == [v EXCEPT !.sync.last = 0]
<1>1. None \in 0 .. NumConn /\ 0 \in Int
  BY NetAssumption DEF None
<1>2. s \in 0 .. NumConn
  <2>1. h \in Int
    OBVIOUS
  <2> QED
    BY <1>1, <2>1, Fields, Zenon
<1>3. v \in World(h)
  <2> HIDE DEF s
  <2> QED
    BY <1>2, SetSync, Zenon
<1>4. m \in Int
  <2> HIDE DEF v
  <2>1. PICK a \in Int : a = v.sync.known
    BY <1>3, Fields
  <2>2. PICK b \in Int : b = w.conn[c].lib
    BY ConnFields
  <2>3. Max({a, b}) \in {a, b}
    BY MaxOfTwo
  <2> QED
    BY <2>1, <2>2, <2>3
<1>5. u \in World(h) /\ t \in World(h)
  <2> HIDE DEF v, m
  <2> QED
    BY <1>1, <1>3, <1>4, SetSync, Zenon
<1>6. SyncResetLibNum(w, c) =
        IF Current(w, c) THEN u
        ELSE IF c = v.sync.source THEN RequestNextChunk(t, None) ELSE v
  BY Zenon DEF SyncResetLibNum
<1> HIDE DEF u, t, v
<1>7. RequestNextChunk(t, None) \in World(h)
  BY <1>1, <1>5, RequestNextChunkOK, Zenon
<1> QED
  BY <1>3, <1>5, <1>6, <1>7, Zenon

\* start_sync, once the target is known.
LEMMA StartSyncTail ==
    ASSUME NEW h \in Nat \ {0}, NEW v \in World(h), NEW c \in Conn
    PROVE  RequestNextChunk(
               [v EXCEPT !.sync.stage = IF @ = "in_sync" THEN "lib_catchup" ELSE @,
                         !.sync.expected = Max({@, Lib(h) + 1})], c) \in World(h)
<1> DEFINE s == IF v.sync.stage = "in_sync" THEN "lib_catchup" ELSE v.sync.stage
           u == [v EXCEPT !.sync.stage = s]
           e == Max({u.sync.expected, Lib(h) + 1})
           t == [u EXCEPT !.sync.expected = e]
<1>1. s \in Stages
  <2>1. v.sync.stage \in Stages
    BY Fields
  <2> QED
    BY <2>1 DEF Stages
<1>2. u \in World(h)
  <2> HIDE DEF s
  <2> QED
    BY <1>1, SetSync, Zenon
<1>3. e \in UpTo(h + 1)
  <2> HIDE DEF u
  <2>1. u.sync.expected \in Int /\ u.sync.expected <= h + 1
    BY <1>2, Fields DEF UpTo
  <2>2. Lib(h) \in Int /\ Lib(h) <= h
    BY LibBelow
  <2>3. PICK a \in Int : a = u.sync.expected
    BY <2>1
  <2>4. PICK b \in Int : b = Lib(h) + 1
    BY <2>2
  <2>5. Max({a, b}) \in {a, b}
    BY MaxOfTwo, Zenon
  <2> QED
    BY <2>1, <2>2, <2>3, <2>4, <2>5 DEF UpTo
<1>4. t \in World(h)
  <2> HIDE DEF u, e
  <2> QED
    BY <1>2, <1>3, SetSync, Zenon
<1>5. c \in 0 .. NumConn
  BY NetAssumption DEF Conn
<1>6. t = [v EXCEPT !.sync.stage = IF @ = "in_sync" THEN "lib_catchup" ELSE @,
                    !.sync.expected = Max({@, Lib(h) + 1})]
  BY Zenon
<1> HIDE DEF t
<1>7. RequestNextChunk(t, c) \in World(h)
  BY <1>4, <1>5, RequestNextChunkOK, Zenon
<1> QED
  BY <1>6, <1>7, Zenon

\* start_sync
LEMMA StartSyncOK ==
    ASSUME NEW h \in Nat \ {0}, NEW w \in World(h), NEW c \in Conn, NEW target \in Int
    PROVE  StartSync(w, c, target) \in World(h)
<1> DEFINE m == Max({w.sync.known, target})
           v == [w EXCEPT !.sync.known = m]
<1>1. m \in Int
  <2>1. PICK a \in Int : a = w.sync.known
    BY Fields
  <2>2. Max({a, target}) \in {a, target}
    BY MaxOfTwo, Zenon
  <2> QED
    BY <2>1, <2>2
<1>2. v \in World(h)
  <2> HIDE DEF m
  <2> QED
    BY <1>1, SetSync, Zenon
<1>3. w.chain.head = h
  BY Parts, Zenon
<1>4. RequestNextChunk(
          [v EXCEPT !.sync.stage = IF @ = "in_sync" THEN "lib_catchup" ELSE @,
                    !.sync.expected = Max({@, Lib(w.chain.head) + 1})], c) \in World(h)
  <2> HIDE DEF v
  <2> QED
    BY <1>2, <1>3, StartSyncTail, Zenon
<1> QED
  BY <1>2, <1>4, Zenon DEF StartSync

\* verify_catchup
LEMMA VerifyCatchupOK ==
    ASSUME NEW h \in Nat \ {0}, NEW w \in World(h), NEW c \in Conn, NEW num \in Int
    PROVE  VerifyCatchup(w, c, num) \in World(h)
<1> DEFINE u == [w EXCEPT !.conn[c].fork_head = 0]
           v == [w EXCEPT !.sync.stage = "head_catchup"]
<1>1. 0 \in Int /\ "head_catchup" \in Stages
  BY DEF Stages
<1>2. u \in World(h) /\ v \in World(h)
  BY <1>1, SetConn, SetSync, Zenon
<1>3. [u EXCEPT !.peer[c].syncing = FALSE] \in World(h)
  <2> HIDE DEF u
  <2> QED
    BY <1>2, Bools, SetPeer, Zenon
<1>4. PeerBranch([v EXCEPT !.conn[c].fork_head = num], c) \in World(h)
  <2> HIDE DEF v
  <2>1. [v EXCEPT !.conn[c].fork_head = num] \in World(h)
    BY <1>2, SetConn, Zenon
  <2>2. h \in Int
    OBVIOUS
  <2> QED
    BY <2>1, <2>2, PeerBranchOK, Zenon
<1> QED
  BY <1>3, <1>4, Zenon DEF VerifyCatchup

\* sync_reassign_fetch
LEMMA SyncReassignFetchOK ==
    ASSUME NEW h \in Nat \ {0}, NEW w \in World(h), NEW c \in Conn,
           NEW k \in 0 .. Len(w.peer[c].wire)
    PROVE  SyncReassignFetch(w, c, k) \in World(h)
<1> DEFINE u == [w EXCEPT !.conn[c].armed = FALSE]
           v == [u EXCEPT !.sync.last = 0]
<1>1. u \in World(h)
  BY Bools, SetConn, Zenon
<1>2. v \in World(h)
  <2>1. 0 \in Int
    OBVIOUS
  <2> HIDE DEF u
  <2> QED
    BY <1>1, <2>1, SetSync, Zenon
<1>3. v.peer[c].wire = w.peer[c].wire
  BY DEF World
<1>4. RequestNextChunk(PeerCancel(v, c, k), None) \in World(h)
  <2> HIDE DEF v
  <2>1. PeerCancel(v, c, k) \in World(h)
    BY <1>2, <1>3, PeerCancelOK, Zenon
  <2>2. None \in 0 .. NumConn
    BY NetAssumption DEF None
  <2> QED
    BY <2>1, <2>2, RequestNextChunkOK, Zenon
<1> QED
  BY <1>4, Zenon DEF SyncReassignFetch

\* recv_handshake
LEMMA RecvHandshakeOK ==
    ASSUME NEW h \in Nat \ {0}, NEW w \in World(h), NEW c \in Conn, NEW num \in Int
    PROVE  RecvHandshake(w, c, num) \in World(h)
<1> DEFINE v == SyncResetLibNum(w, c)
           b == Lib(w.chain.head) > num
           u == [v EXCEPT !.conn[c].syncing = b]
<1>1. v \in World(h)
  BY SyncResetLibNumOK, Zenon
<1>2. b \in Bool
  BY DEF Bool
<1>3. u \in World(h)
  <2> HIDE DEF v, b
  <2> QED
    BY <1>1, <1>2, SetConn, Zenon
<1>4. VerifyCatchup(u, c, num) \in World(h)
  <2> HIDE DEF u
  <2> QED
    BY <1>3, VerifyCatchupOK, Zenon
<1> QED
  BY <1>3, <1>4, Zenon DEF RecvHandshake

\* sync_update_expected, for a block that this node has.
LEMMA SyncUpdateExpectedOK ==
    ASSUME NEW h \in Nat \ {0}, NEW w \in World(h), NEW num \in UpTo(h), NEW applied
    PROVE  SyncUpdateExpected(w, num, applied) \in World(h)
<1>1. num + 1 \in UpTo(h + 1)
  BY DEF UpTo
<1>2. [w EXCEPT !.sync.expected = num + 1] \in World(h)
  BY <1>1, SetSync, Zenon
<1> QED
  BY <1>2, Zenon DEF SyncUpdateExpected

\* sync_recv_block
LEMMA SyncRecvBlockOK ==
    ASSUME NEW h \in Nat \ {0}, NEW w \in World(h), NEW c \in Conn, NEW num
    PROVE  SyncRecvBlock(w, c, num) \in World(h)
<1> DEFINE u == [w EXCEPT !.sync.source = None]
           f == IF Settled(w, num) # {} THEN 0 ELSE u.conn[c].fork_head
           v == [u EXCEPT !.conn[c].fork_head = f]
           A == w.sync.stage = "head_catchup"
           B == w.sync.stage = "lib_catchup"
<1>1. None \in 0 .. NumConn /\ 0 \in Int /\ "in_sync" \in Stages
  BY NetAssumption DEF None, Stages
<1>2. u \in World(h)
  BY <1>1, SetSync, Zenon
<1>3. f \in Int
  <2> HIDE DEF u
  <2> QED
    BY <1>1, <1>2, ConnFields, Zenon
<1>4. v \in World(h)
  <2> HIDE DEF u, f
  <2> QED
    BY <1>2, <1>3, SetConn, Zenon
<1>5. SendHandshakes([v EXCEPT !.sync.stage = "in_sync"]) \in World(h)
  <2> HIDE DEF v
  <2> QED
    BY <1>1, <1>4, SetSync, SendHandshakesOK, Zenon
<1>6. SendHandshakes([w EXCEPT !.sync.stage = "in_sync"]) \in World(h)
  BY <1>1, SetSync, SendHandshakesOK, Zenon
<1>7. RequestNextChunk(w, None) \in World(h)
  BY <1>1, RequestNextChunkOK, Zenon
<1>8. [w EXCEPT !.conn[c].armed = TRUE] \in World(h)
  BY Bools, SetConn, Zenon
<1>9. ~(A /\ B)
  OBVIOUS
<1>10. CASE A
  BY <1>4, <1>5, <1>9, <1>10, Zenon DEF SyncRecvBlock
<1>11. CASE B /\ num = w.sync.known
  BY <1>6, <1>9, <1>11, Zenon DEF SyncRecvBlock
<1>12. CASE B /\ num # w.sync.known /\ num = w.sync.last
  BY <1>7, <1>9, <1>12, Zenon DEF SyncRecvBlock
<1>13. CASE B /\ num # w.sync.known /\ num # w.sync.last
  BY <1>8, <1>9, <1>13, Zenon DEF SyncRecvBlock
<1>14. CASE ~A /\ ~B
  BY <1>14, Zenon DEF SyncRecvBlock
<1> HIDE DEF A, B
<1> QED
  BY <1>10, <1>11, <1>12, <1>13, <1>14, Zenon

\* _close
LEMMA ClosedOK ==
    ASSUME NEW h \in Nat \ {0}, NEW w \in World(h), NEW c \in Conn
    PROVE  Closed(w, c) \in World(h)
<1> DEFINE a == [w.conn[c] EXCEPT !.open = FALSE, !.connecting = FALSE,
                                  !.syncing = FALSE, !.rejected = 0, !.lib = 0, !.sent = 0]
           u == [w EXCEPT !.conn[c] = a]
           p == [u.peer[c] EXCEPT !.requested = {}, !.sent = 0, !.syncing = FALSE, !.wire = <<>>]
           t == [u EXCEPT !.peer[c] = p]
           v == SyncResetLibNum(t, c)
<1>1. a \in ConnAt(h)
  <2>1. w.conn[c] \in ConnAt(h) /\ FALSE \in Bool /\ 0 \in Int
    BY Parts DEF Bool
  <2> QED
    BY <2>1 DEF ConnAt
<1>2. u \in World(h)
  <2> HIDE DEF a
  <2>1. [w.conn EXCEPT ![c] = a] \in [Conn -> ConnAt(h)]
    BY <1>1, Parts, SetOne, Zenon
  <2> QED
    BY <2>1, SetPart, Zenon
<1>3. p \in PeerState
  <2> HIDE DEF u
  <2>1. u.peer[c] \in PeerState /\ FALSE \in Bool /\ 0 \in Int
    BY <1>2, Parts DEF Bool
  <2>2. << >> \in Seq(Messages) /\ {} \in Requests
    BY RequestsOf
  <2> QED
    BY <2>1, <2>2 DEF PeerState
<1>4. t \in World(h)
  <2> HIDE DEF p, u
  <2>1. [u.peer EXCEPT ![c] = p] \in [Conn -> PeerState]
    BY <1>2, <1>3, Parts, SetOne, Zenon
  <2> QED
    BY <1>2, <2>1, SetPart, Zenon
<1>5. v \in World(h)
  <2> HIDE DEF t
  <2> QED
    BY <1>4, SyncResetLibNumOK, Zenon
<1>6. [v EXCEPT !.conn[c].armed = FALSE] \in World(h)
  <2> HIDE DEF v
  <2> QED
    BY <1>5, Bools, SetConn, Zenon
<1> QED
  BY <1>6, Zenon DEF Closed

\* The task a strand goes on with.
LEMMA GoOnOK ==
    ASSUME NEW h, NEW w \in World(h), NEW c \in Conn, NEW t \in Tasks(h)
    PROVE  GoOn(w, c, t) \in World(h)
<1>1. w.conn[c].strand \in Seq(Tasks(h)) /\ <<t>> \in Seq(Tasks(h))
  BY ConnFields
<1>2. <<t>> \o w.conn[c].strand \in Seq(Tasks(h))
  BY <1>1, ConcatProperties
<1> QED
  BY <1>2, SetConn, Zenon DEF GoOn

-----------------------------------------------------------------------------
\* The inductive invariant: what every strand, wire, queue and request holds,
\* and that sync_next_expected_num is at most the block after our head.
Inv == chain.head \in Nat \ {0} /\ world \in World(chain.head)

\* A step that leads to a world with the property preserves the invariant.
LEMMA BecomesOK ==
    ASSUME NEW h \in Nat \ {0}, NEW w \in World(h), Becomes(w)
    PROVE  Inv'
<1>1. w.chain \in ChainAt(h) /\ w.chain.head = h /\ w.sync \in SyncAt(h)
      /\ w.conn \in [Conn -> ConnAt(h)] /\ w.peer \in [Conn -> PeerState]
  BY Parts, Zenon
<1>2. chain' \in ChainAt(h) /\ chain'.head = h /\ sync' \in SyncAt(h)
      /\ conn' \in [Conn -> ConnAt(h)] /\ peer' \in [Conn -> PeerState]
  BY <1>1, Zenon DEF Becomes
<1>3. world' \in World(h)
  BY <1>2 DEF world, World
<1> QED
  BY <1>2, <1>3, Zenon DEF Inv

\* The world of a state in which the invariant holds.
LEMMA Here ==
    ASSUME Inv
    PROVE  /\ chain.head \in Nat \ {0} /\ chain.head \in Int /\ world \in World(chain.head)
           /\ world.chain = chain /\ world.sync = sync /\ world.conn = conn /\ world.peer = peer
<1>1. chain.head \in Nat \ {0} /\ world \in World(chain.head)
  BY DEF Inv
<1>2. world.chain = chain /\ world.sync = sync /\ world.conn = conn /\ world.peer = peer
  BY DEF world
<1>3. chain.head \in Int
  BY <1>1
<1> QED
  BY <1>1, <1>2, <1>3

\* The fields of its connections.
LEMMA ConnHere ==
    ASSUME Inv, NEW c \in Conn
    PROVE  /\ conn[c].lib \in Int /\ conn[c].sent \in Int /\ conn[c].fork_head \in Int
           /\ conn[c].rejected \in Int /\ conn[c].strand \in Seq(Tasks(chain.head))
           /\ peer[c].head \in Int /\ peer[c].sent \in Int /\ peer[c].requested \in Requests
           /\ peer[c].wire \in Seq(Messages)
<1> DEFINE h == chain.head
<1>1. world \in World(h) /\ world.conn = conn /\ world.peer = peer
  BY Here, Zenon
<1> HIDE DEF h
<1>2. /\ world.conn[c].lib \in Int /\ world.conn[c].sent \in Int /\ world.conn[c].fork_head \in Int
      /\ world.conn[c].rejected \in Int /\ world.conn[c].strand \in Seq(Tasks(h))
      /\ world.peer[c].head \in Int /\ world.peer[c].sent \in Int
      /\ world.peer[c].requested \in Requests /\ world.peer[c].wire \in Seq(Messages)
  BY <1>1, ConnFields, Zenon
<1> QED
  BY <1>1, <1>2, Zenon DEF h

\* The first task of a strand, and the world without it.
LEMMA PoppedOK ==
    ASSUME Inv, NEW c \in Conn, conn[c].strand # << >>
    PROVE  Head(conn[c].strand) \in Tasks(chain.head) /\ Popped(c) \in World(chain.head)
<1>1. PICK s \in Seq(Tasks(chain.head)) : s = conn[c].strand
  BY ConnHere, Zenon
<1>2. Head(s) \in Tasks(chain.head) /\ Tail(s) \in Seq(Tasks(chain.head))
  BY <1>1, HeadTailProperties
<1>3. world.conn[c].strand = s /\ world \in World(chain.head)
  BY <1>1, Here, Zenon
<1>4. [world EXCEPT !.conn[c].strand = Tail(world.conn[c].strand)] \in World(chain.head)
  BY <1>2, <1>3, SetConn, Zenon
<1> QED
  BY <1>1, <1>2, <1>4, Zenon DEF Popped

\* The first message of a wire, and the world without it.
LEMMA WireOK ==
    ASSUME Inv, NEW c \in Conn, peer[c].wire # << >>
    PROVE  /\ Head(peer[c].wire).num \in Int /\ Head(peer[c].wire).type \in Kinds
           /\ [world EXCEPT !.peer[c].wire = Tail(@)] \in World(chain.head)
<1>1. PICK s \in Seq(Messages) : s = peer[c].wire
  BY ConnHere, Zenon
<1>2. Head(s) \in Messages /\ Tail(s) \in Seq(Messages)
  BY <1>1, HeadTailProperties
<1>3. Head(s).num \in Int /\ Head(s).type \in Kinds
  BY <1>2 DEF Messages
<1>4. world.peer[c].wire = s /\ world \in World(chain.head)
  BY <1>1, Here, Zenon
<1>5. [world EXCEPT !.peer[c].wire = Tail(world.peer[c].wire)] \in World(chain.head)
  BY <1>2, <1>4, SetPeer, Zenon
<1> QED
  BY <1>1, <1>3, <1>5, Zenon

\* What a task says.
LEMMA TaskFields ==
    ASSUME NEW h, NEW t \in Tasks(h)
    PROVE  /\ t.op = "accepted_block" => t.num \in UpTo(h)
           /\ t.op = "known_block" => t.num \in UpTo(h)
           /\ t.op = "request" => t.start \in Int /\ t.end \in Int
  BY DEF Tasks

-----------------------------------------------------------------------------
(* Every action preserves the invariant. *)

\* connect and start_session: a connection opens, and nothing else changes.
LEMMA ConnectOK ==
    ASSUME Inv, NEW c \in Conn, Connect(c)
    PROVE  Inv'
<1> DEFINE h == chain.head
           v == [world EXCEPT !.conn[c].open = TRUE]
           w == [v EXCEPT !.conn[c].connecting = TRUE]
           u == [w EXCEPT !.peer[c].sent = peer[c].head]
           m == <<[type |-> "handshake", num |-> peer[c].head]>>
<1>1. h \in Nat \ {0} /\ world \in World(h)
  BY Here, Zenon
<1>2. peer[c].head \in Int
  BY ConnHere, Zenon
<1>3. v \in World(h)
  <2> HIDE DEF h
  <2> QED
    BY <1>1, Bools, SetConn, Zenon
<1>4. w \in World(h)
  <2> HIDE DEF h, v
  <2> QED
    BY <1>3, Bools, SetConn, Zenon
<1>5. u \in World(h)
  <2> HIDE DEF h, w
  <2> QED
    BY <1>2, <1>4, SetPeer, Zenon
<1>6. m \in Seq(Messages)
  BY <1>2, MessagesOf, Zenon
<1>7. Send(u, c, m) \in World(h) /\ Post(w, c, Handshake(FALSE)) \in World(h)
  <2> HIDE DEF h, u, w, m
  <2> QED
    BY <1>4, <1>5, <1>6, SendOK, HandshakeOK, Zenon
<1>8. Becomes(IF c \in Inbound THEN Send(u, c, m) ELSE Post(w, c, Handshake(FALSE)))
  BY Zenon DEF Connect
<1> HIDE DEF h, u, w, m
<1> QED
  BY <1>1, <1>7, <1>8, BecomesOK, Zenon

\* _close, when the socket fails.
LEMMA LoseOK ==
    ASSUME Inv, NEW c \in Conn, Lose(c)
    PROVE  Inv'
<1> DEFINE h == chain.head
<1>1. h \in Nat \ {0} /\ world \in World(h)
  BY Here, Zenon
<1>2. Becomes(Closed(world, c))
  BY Zenon DEF Lose
<1> HIDE DEF h
<1> QED
  BY <1>1, <1>2, ClosedOK, BecomesOK, Zenon

\* handle_message(handshake_message)
LEMMA ReceiveHandshakeOK ==
    ASSUME Inv, NEW c \in Conn, ReceiveHandshake(c)
    PROVE  Inv'
<1> DEFINE h   == chain.head
           num == Head(peer[c].wire).num
           a   == [world EXCEPT !.peer[c].wire = Tail(@)]
           b   == [a EXCEPT !.conn[c].connecting = FALSE]
           w   == [b EXCEPT !.conn[c].lib = Lib(num)]
           v   == IF conn[c].sent = 0 THEN Post(w, c, Handshake(FALSE)) ELSE w
<1>1. h \in Nat \ {0}
  BY Here, Zenon
<1>2. peer[c].wire # << >>
  BY Zenon DEF ReceiveHandshake
<1>3. num \in Int /\ a \in World(h)
  BY <1>2, WireOK, Zenon
<1>4. b \in World(h)
  <2> HIDE DEF a, h
  <2> QED
    BY <1>3, Bools, SetConn, Zenon
<1>5. w \in World(h)
  <2> HIDE DEF b, h, num
  <2> QED
    BY <1>3, <1>4, LibBelow, SetConn, Zenon
<1>6. v \in World(h)
  <2> HIDE DEF w, h
  <2> QED
    BY <1>5, HandshakeOK, Zenon
<1>7. Becomes(RecvHandshake(v, c, num))
  BY Zenon DEF ReceiveHandshake
<1> HIDE DEF v, h, num
<1>8. RecvHandshake(v, c, num) \in World(h)
  BY <1>1, <1>3, <1>6, RecvHandshakeOK, Zenon
<1> QED
  BY <1>1, <1>7, <1>8, BecomesOK, Zenon

\* handle_message(notice_message): start_sync takes the block after the root,
\* which is not beyond the block after the head.
LEMMA ReceiveNoticeOK ==
    ASSUME Inv, NEW c \in Conn, ReceiveNotice(c)
    PROVE  Inv'
<1> DEFINE h == chain.head
           m == Head(peer[c].wire)
           v == [world EXCEPT !.peer[c].wire = Tail(@)]
           w == [v EXCEPT !.conn[c].connecting = FALSE]
           u == [w EXCEPT !.conn[c].lib = Lib(m.num)]
           x == StartSync(SyncResetLibNum(u, c), c, Lib(m.num))
<1>1. h \in Nat \ {0}
  BY Here, Zenon
<1>2. peer[c].wire # << >> /\ m.type \in {"catch_up", "last_irr_catch_up", "go_away"}
  BY Zenon DEF ReceiveNotice
<1>3. m.num \in Int /\ v \in World(h)
  BY <1>2, WireOK, Zenon
<1>4. Lib(m.num) \in Int
  BY <1>3, LibBelow, Zenon
<1>5. w \in World(h)
  <2> HIDE DEF v, h
  <2> QED
    BY <1>3, Bools, SetConn, Zenon
<1>6. u \in World(h)
  <2> HIDE DEF w, h, m
  <2> QED
    BY <1>4, <1>5, SetConn, Zenon
<1>7. x \in World(h)
  <2> HIDE DEF u, h, m
  <2>1. SyncResetLibNum(u, c) \in World(h)
    BY <1>1, <1>6, SyncResetLibNumOK, Zenon
  <2> QED
    BY <1>1, <1>4, <2>1, StartSyncOK, Zenon
<1>8. /\ Post(v, c, [op |-> "close"]) \in World(h) /\ Post(w, c, Handshake(FALSE)) \in World(h)
      /\ VerifyCatchup(w, c, m.num) \in World(h)
  <2> HIDE DEF v, w, h, m
  <2> QED
    BY <1>1, <1>3, <1>5, HandshakeOK, VerifyCatchupOK, Zenon
<1>9. Becomes(CASE m.type = "go_away" -> Post(v, c, [op |-> "close"])
                [] m.type = "last_irr_catch_up" -> x
                [] m.type = "catch_up" /\ HaveBlock(m.num) -> Post(w, c, Handshake(FALSE))
                [] m.type = "catch_up" /\ ~HaveBlock(m.num) -> VerifyCatchup(w, c, m.num))
  BY Zenon DEF ReceiveNotice
<1> HIDE DEF v, w, h, m, x
<1>10. \E s \in World(h) : Becomes(s)
  <2>1. CASE m.type = "go_away"
    BY <1>8, <1>9, <2>1, Zenon
  <2>2. CASE m.type = "last_irr_catch_up"
    BY <1>7, <1>9, <2>2, Zenon
  <2>3. CASE m.type = "catch_up" /\ HaveBlock(m.num)
    BY <1>8, <1>9, <2>3, Zenon
  <2>4. CASE m.type = "catch_up" /\ ~HaveBlock(m.num)
    BY <1>8, <1>9, <2>4, Zenon
  <2> QED
    BY <1>2, <2>1, <2>2, <2>3, <2>4, Zenon
<1> QED
  BY <1>1, <1>10, BecomesOK, Zenon

\* process_next_block_message: a block that have_block knows is one we have.
LEMMA ReceiveBlockOK ==
    ASSUME Inv, NEW c \in Conn, ReceiveBlock(c)
    PROVE  Inv'
<1> DEFINE h   == chain.head
           num == Head(peer[c].wire).num
           w   == [world EXCEPT !.peer[c].wire = Tail(@)]
           e   == SyncUpdateExpected(w, num, FALSE)
           u   == [e EXCEPT !.conn[c].rejected = 0]
           t   == [op |-> "recv_block", num |-> num, cancel |-> TRUE]
           q   == [from |-> c, num |-> num]
           f   == [w EXCEPT !.chain.queue = Append(@, q)]
           P(k) == [PeerCancel(w, c, k) EXCEPT !.conn[c].armed = FALSE]
<1>1. h \in Nat \ {0} /\ 0 \in Int
  BY Here
<1>2. peer[c].wire # << >>
  BY Zenon DEF ReceiveBlock
<1>3. num \in Int /\ w \in World(h)
  BY <1>2, WireOK, Zenon
<1>4. HaveBlock(num) => GoOn(u, c, t) \in World(h)
  <2> SUFFICES ASSUME HaveBlock(num)
               PROVE  GoOn(u, c, t) \in World(h)
    OBVIOUS
  <2>1. num \in UpTo(h)
    BY <1>3 DEF HaveBlock, UpTo
  <2>2. e \in World(h)
    <3> HIDE DEF w, h, num
    <3> QED
      BY <1>1, <1>3, <2>1, SyncUpdateExpectedOK, Zenon
  <2>3. u \in World(h)
    <3> HIDE DEF e, h
    <3> QED
      BY <1>1, <2>2, SetConn, Zenon
  <2>4. t \in Tasks(h)
    <3> HIDE DEF h, num
    <3> QED
      BY <1>3, Bools, TasksOf, Zenon
  <2> HIDE DEF u, h, t
  <2> QED
    BY <2>3, <2>4, GoOnOK, Zenon
<1>5. f \in World(h)
  <2>1. q \in Entries
    BY <1>3 DEF Entries
  <2> HIDE DEF w, h, q
  <2>2. h \in Int
    BY <1>1
  <2>3. w.chain.queue \in Seq(Entries)
    BY <1>3, <2>2, Fields, Zenon
  <2>4. Append(w.chain.queue, q) \in Seq(Entries)
    BY <2>1, <2>3, AppendProperties
  <2> QED
    BY <1>3, <2>4, SetChain, Zenon
<1>6. Post(w, c, [op |-> "close"]) \in World(h)
  <2> HIDE DEF w, h
  <2> QED
    BY <1>3, HandshakeOK, Zenon
<1>7. \A k \in 0 .. Len(w.peer[c].wire) : Post(P(k), c, Handshake(FALSE)) \in World(h)
  <2> HIDE DEF w, h
  <2> TAKE k \in 0 .. Len(w.peer[c].wire)
  <2> DEFINE d == PeerCancel(w, c, k)
  <2>1. d \in World(h)
    BY <1>3, PeerCancelOK, Zenon
  <2>2. P(k) \in World(h)
    <3> HIDE DEF d
    <3>1. [d EXCEPT !.conn[c].armed = FALSE] \in World(h)
      BY <2>1, Bools, SetConn, Zenon
    <3> QED
      BY <3>1, Zenon DEF d
  <2> HIDE DEF P
  <2> QED
    BY <2>2, HandshakeOK, Zenon
<1>8. \/ HaveBlock(num) /\ Becomes(GoOn(u, c, t))
      \/ Becomes(f)
      \/ Becomes(Post(w, c, [op |-> "close"]))
      \/ \E k \in 0 .. Len(w.peer[c].wire) : Becomes(Post(P(k), c, Handshake(FALSE)))
  BY Zenon DEF ReceiveBlock
<1> HIDE DEF h, num, w, u, t, f, P
<1>9. \E s \in World(h) : Becomes(s)
  BY <1>4, <1>5, <1>6, <1>7, <1>8, Zenon
<1> QED
  BY <1>1, <1>9, BecomesOK, Zenon

\* The chain grows: what held of the blocks up to the head holds still.
LEMMA GrowsOK ==
    ASSUME NEW h \in Nat \ {0}, NEW w \in World(h)
    PROVE  [w EXCEPT !.chain.head = h + 1] \in World(h + 1)
<1>1. UpTo(h) \subseteq UpTo(h + 1) /\ UpTo(h + 1) \subseteq UpTo(h + 1 + 1)
  BY DEF UpTo
<1>2. Tasks(h) \subseteq Tasks(h + 1)
  BY <1>1 DEF Tasks
<1>3. Seq(Tasks(h)) \subseteq Seq(Tasks(h + 1))
  BY <1>2
<1>4. ConnAt(h) \subseteq ConnAt(h + 1)
  <2>1. PICK A : A = Seq(Tasks(h))
    OBVIOUS
  <2>2. PICK B : B = Seq(Tasks(h + 1))
    OBVIOUS
  <2>3. A \subseteq B
    BY <1>3, <2>1, <2>2
  <2> QED
    BY <2>1, <2>2, <2>3 DEF ConnAt
<1>5. SyncAt(h) \subseteq SyncAt(h + 1)
  <2>1. PICK A : A = UpTo(h + 1)
    OBVIOUS
  <2>2. PICK B : B = UpTo(h + 1 + 1)
    OBVIOUS
  <2>3. PICK D : D = 0 .. NumConn
    OBVIOUS
  <2>4. A \subseteq B
    BY <1>1, <2>1, <2>2
  <2> QED
    BY <2>1, <2>2, <2>3, <2>4 DEF SyncAt
<1>6. w.chain \in ChainAt(h) /\ w.sync \in SyncAt(h)
      /\ w.conn \in [Conn -> ConnAt(h)] /\ w.peer \in [Conn -> PeerState]
  BY Parts, Zenon
<1>7. w.sync \in SyncAt(h + 1) /\ w.conn \in [Conn -> ConnAt(h + 1)]
  BY <1>4, <1>5, <1>6
<1>8. [w.chain EXCEPT !.head = h + 1] \in ChainAt(h + 1)
  BY <1>6 DEF ChainAt, Only
<1>9. w = [chain |-> w.chain, sync |-> w.sync, conn |-> w.conn, peer |-> w.peer]
  BY DEF World
<1>10. [w EXCEPT !.chain = [w.chain EXCEPT !.head = h + 1]]
         = [chain |-> [w.chain EXCEPT !.head = h + 1], sync |-> w.sync, conn |-> w.conn,
            peer |-> w.peer]
  BY <1>9
<1>11. [chain |-> [w.chain EXCEPT !.head = h + 1], sync |-> w.sync, conn |-> w.conn,
        peer |-> w.peer] \in World(h + 1)
  BY <1>6, <1>7, <1>8, Zenon DEF World
<1> QED
  BY <1>10, <1>11, Zenon

\* process_signed_block: the block posted as accepted is the new head, the one
\* posted as known is not beyond it.
LEMMA ProcessSignedBlockOK ==
    ASSUME Inv, ProcessSignedBlock
    PROVE  Inv'
<1> DEFINE h == chain.head
           m == Head(chain.queue)
           w == [world EXCEPT !.chain.queue = Tail(@)]
           g == [w EXCEPT !.chain.head = m.num]
           a == [op |-> "known_block", num |-> m.num]
           b == [op |-> "accepted_block", num |-> m.num]
           r == [op |-> "rejected_block"]
           o == conn[m.from].open
<1>1. h \in Nat \ {0} /\ h \in Int /\ world \in World(h) /\ world.chain = chain
  BY Here, Zenon
<1>2. chain.queue # << >>
  BY Zenon DEF ProcessSignedBlock
<1>3. PICK s \in Seq(Entries) : s = chain.queue
  <2> HIDE DEF h
  <2> QED
    BY <1>1, Fields, Zenon
<1>4. Head(s) \in Entries /\ Tail(s) \in Seq(Entries)
  BY <1>2, <1>3, HeadTailProperties
<1>5. m.from \in Conn /\ m.num \in Int
  BY <1>3, <1>4 DEF Entries
<1>6. w \in World(h)
  <2>1. world.chain.queue = s
    BY <1>1, <1>3, Zenon
  <2> HIDE DEF h
  <2>2. [world EXCEPT !.chain.queue = Tail(world.chain.queue)] \in World(h)
    BY <1>1, <1>4, <2>1, SetChain, Zenon
  <2> QED
    BY <2>2, Zenon
<1>7. m.num <= h => Post(w, m.from, a) \in World(h)
  <2> SUFFICES ASSUME m.num <= h
               PROVE  Post(w, m.from, a) \in World(h)
    OBVIOUS
  <2>1. m.num \in UpTo(h)
    BY <1>5 DEF UpTo
  <2>2. a \in Tasks(h)
    <3> HIDE DEF h, m
    <3> QED
      BY <2>1, TasksOf, Zenon
  <2> HIDE DEF h, m, w, a
  <2> QED
    BY <1>5, <1>6, <2>2, PostOK, Zenon
<1>8. m.num = h + 1 => Post(g, m.from, b) \in World(h + 1)
  <2> SUFFICES ASSUME m.num = h + 1
               PROVE  Post(g, m.from, b) \in World(h + 1)
    OBVIOUS
  <2>1. m.num \in UpTo(h + 1)
    BY <1>5 DEF UpTo
  <2>2. b \in Tasks(h + 1)
    <3> HIDE DEF h, m
    <3> QED
      BY <2>1, TasksOf, Zenon
  <2>3. g \in World(h + 1)
    <3> HIDE DEF h, m, w
    <3> QED
      BY <1>1, <1>6, GrowsOK, Zenon
  <2> HIDE DEF h, m, g, b
  <2> QED
    BY <1>5, <2>2, <2>3, PostOK, Zenon
<1>9. Post(w, m.from, r) \in World(h)
  <2> HIDE DEF h, m, w
  <2> QED
    BY <1>5, <1>6, TasksOf, PostOK, Zenon
<1>10. Becomes(CASE ~o -> w
                 [] o /\ m.num <= h -> Post(w, m.from, a)
                 [] o /\ m.num = h + 1 -> Post(g, m.from, b)
                 [] OTHER -> Post(w, m.from, r))
  BY Zenon DEF ProcessSignedBlock
<1>11. h + 1 \in Nat \ {0} /\ ~(m.num <= h /\ m.num = h + 1)
  BY <1>1, <1>5
<1> HIDE DEF h, m, w, g, a, b, r, o
<1>12. CASE ~o
  <2>1. Becomes(w)
    BY <1>10, <1>12, Zenon
  <2> QED
    BY <1>1, <1>6, <2>1, BecomesOK, Zenon
<1>13. CASE o /\ m.num <= h
  <2>1. Becomes(Post(w, m.from, a))
    BY <1>10, <1>11, <1>13, Zenon
  <2> QED
    BY <1>1, <1>7, <1>13, <2>1, BecomesOK, Zenon
<1>14. CASE o /\ m.num = h + 1
  <2>1. Becomes(Post(g, m.from, b))
    BY <1>10, <1>11, <1>14, Zenon
  <2> QED
    BY <1>8, <1>11, <1>14, <2>1, BecomesOK, Zenon
<1>15. CASE o /\ ~(m.num <= h) /\ m.num # h + 1
  <2>1. Becomes(Post(w, m.from, r))
    BY <1>10, <1>15, Zenon
  <2> QED
    BY <1>1, <1>9, <2>1, BecomesOK, Zenon
<1> QED
  BY <1>12, <1>13, <1>14, <1>15, Zenon

\* expire_blocks
LEMMA ExpireBlocksOK ==
    ASSUME Inv, ExpireBlocks
    PROVE  Inv'
<1> DEFINE h == chain.head
           l == Lib(chain.head)
           w == [world EXCEPT !.chain.expired = l]
<1>1. h \in Nat \ {0} /\ h \in Int /\ world \in World(h) /\ l \in Int
  BY Here, LibBelow, Zenon
<1>2. w \in World(h)
  <2> HIDE DEF h, l
  <2> QED
    BY <1>1, SetChain, Zenon
<1>3. chain' = [chain EXCEPT !.expired = l] /\ UNCHANGED <<sync, conn, peer>>
  BY DEF ExpireBlocks
<1>4. Becomes(w)
  <2> HIDE DEF l
  <2> QED
    BY <1>3 DEF Becomes, world
<1> HIDE DEF h, w
<1> QED
  BY <1>1, <1>2, <1>4, BecomesOK, Zenon

\* send_handshake
LEMMA SendHandshakeOK ==
    ASSUME Inv, NEW c \in Conn, SendHandshake(c)
    PROVE  Inv'
<1> DEFINE h == chain.head
           w == Popped(c)
           v == [w EXCEPT !.conn[c].sent = h]
<1>1. h \in Nat \ {0} /\ h \in Int
  BY Here, Zenon
<1>2. w \in World(h)
  BY PoppedOK, Zenon DEF SendHandshake, Task
<1>3. v \in World(h)
  <2> HIDE DEF h, w
  <2> QED
    BY <1>1, <1>2, SetConn, Zenon
<1>4. PeerHandshake(v, c) \in World(h) /\ Post(v, c, [op |-> "close"]) \in World(h)
  <2> HIDE DEF h, v
  <2> QED
    BY <1>1, <1>3, PeerHandshakeOK, HandshakeOK, Zenon
<1>5. Becomes(w) \/ Becomes(PeerHandshake(v, c)) \/ Becomes(Post(v, c, [op |-> "close"]))
  BY Zenon DEF SendHandshake
<1> HIDE DEF h, w, v
<1> QED
  BY <1>1, <1>2, <1>4, <1>5, BecomesOK, Zenon

\* request_sync_blocks
LEMMA RequestSyncBlocksOK ==
    ASSUME Inv, NEW c \in Conn, RequestSyncBlocks(c)
    PROVE  Inv'
<1> DEFINE h == chain.head
           t == Head(conn[c].strand)
           v == Popped(c)
           w == [v EXCEPT !.conn[c].armed = TRUE]
<1>1. h \in Nat \ {0}
  BY Here, Zenon
<1>2. v \in World(h) /\ t \in Tasks(h) /\ t.op = "request"
  BY PoppedOK, Zenon DEF RequestSyncBlocks, Task
<1>3. t.start \in Int /\ t.end \in Int
  BY <1>2, TaskFields, Zenon
<1>4. w \in World(h)
  <2> HIDE DEF h, v
  <2> QED
    BY <1>2, Bools, SetConn, Zenon
<1>5. /\ PeerSyncRequest(w, c, t.start, t.end) \in World(h)
      /\ Post(w, c, [op |-> "close"]) \in World(h)
  <2> HIDE DEF h, t, w
  <2> QED
    BY <1>3, <1>4, PeerSyncRequestOK, HandshakeOK, Zenon
<1>6. Becomes(PeerSyncRequest(w, c, t.start, t.end)) \/ Becomes(Post(w, c, [op |-> "close"]))
  BY Zenon DEF RequestSyncBlocks
<1> HIDE DEF h, w, t
<1> QED
  BY <1>1, <1>5, <1>6, BecomesOK, Zenon

\* sync_update_expected for a block that has been applied.
LEMMA AcceptedBlockOK ==
    ASSUME Inv, NEW c \in Conn, AcceptedBlock(c)
    PROVE  Inv'
<1> DEFINE h   == chain.head
           num == Head(conn[c].strand).num
           e   == SyncUpdateExpected(Popped(c), num, TRUE)
           v   == [e EXCEPT !.conn[c].armed = FALSE]
           w   == [v EXCEPT !.conn[c].rejected = 0]
           t   == [op |-> "recv_block", num |-> num, cancel |-> FALSE]
<1>1. h \in Nat \ {0} /\ 0 \in Int
  BY Here
<1>2. /\ Popped(c) \in World(h) /\ Head(conn[c].strand) \in Tasks(h)
      /\ Head(conn[c].strand).op = "accepted_block"
  BY PoppedOK, Zenon DEF AcceptedBlock, Task
<1>3. num \in UpTo(h)
  BY <1>2, TaskFields, Zenon
<1>4. e \in World(h)
  <2> HIDE DEF h, num
  <2> QED
    BY <1>1, <1>2, <1>3, SyncUpdateExpectedOK, Zenon
<1>5. v \in World(h)
  <2> HIDE DEF h, e
  <2> QED
    BY <1>4, Bools, SetConn, Zenon
<1>6. w \in World(h)
  <2> HIDE DEF h, v
  <2> QED
    BY <1>1, <1>5, SetConn, Zenon
<1>7. t \in Tasks(h)
  <2>1. num \in Int
    BY <1>3 DEF UpTo
  <2> HIDE DEF h, num
  <2> QED
    BY <2>1, Bools, TasksOf, Zenon
<1>8. Becomes(GoOn(w, c, t))
  BY Zenon DEF AcceptedBlock
<1> HIDE DEF h, w, t
<1> QED
  BY <1>1, <1>6, <1>7, <1>8, GoOnOK, BecomesOK, Zenon

\* sync_update_expected for a block that was known.
LEMMA KnownBlockOK ==
    ASSUME Inv, NEW c \in Conn, KnownBlock(c)
    PROVE  Inv'
<1> DEFINE h   == chain.head
           num == Head(conn[c].strand).num
           e   == SyncUpdateExpected(Popped(c), num, FALSE)
           w   == [e EXCEPT !.conn[c].rejected = 0]
           t   == [op |-> "recv_block", num |-> num, cancel |-> FALSE]
<1>1. h \in Nat \ {0} /\ 0 \in Int
  BY Here
<1>2. /\ Popped(c) \in World(h) /\ Head(conn[c].strand) \in Tasks(h)
      /\ Head(conn[c].strand).op = "known_block"
  BY PoppedOK, Zenon DEF KnownBlock, Task
<1>3. num \in UpTo(h)
  BY <1>2, TaskFields, Zenon
<1>4. e \in World(h)
  <2> HIDE DEF h, num
  <2> QED
    BY <1>1, <1>2, <1>3, SyncUpdateExpectedOK, Zenon
<1>5. w \in World(h)
  <2> HIDE DEF h, e
  <2> QED
    BY <1>1, <1>4, SetConn, Zenon
<1>6. t \in Tasks(h)
  <2>1. num \in Int
    BY <1>3 DEF UpTo
  <2> HIDE DEF h, num
  <2> QED
    BY <2>1, Bools, TasksOf, Zenon
<1>7. Becomes(GoOn(w, c, t))
  BY Zenon DEF KnownBlock
<1> HIDE DEF h, w, t
<1> QED
  BY <1>1, <1>5, <1>6, <1>7, GoOnOK, BecomesOK, Zenon

\* The rest of sync_recv_block.
LEMMA RecvBlockOK ==
    ASSUME Inv, NEW c \in Conn, RecvBlock(c)
    PROVE  Inv'
<1> DEFINE h == chain.head
           t == Head(conn[c].strand)
           w == SyncRecvBlock(Popped(c), c, t.num)
<1>1. h \in Nat \ {0}
  BY Here, Zenon
<1>2. Popped(c) \in World(h)
  BY PoppedOK, Zenon DEF RecvBlock, Task
<1>3. w \in World(h)
  <2> HIDE DEF h, t
  <2> QED
    BY <1>1, <1>2, SyncRecvBlockOK, Zenon
<1>4. Becomes([w EXCEPT !.conn[c].armed = FALSE]) \/ Becomes(w)
  BY Zenon DEF RecvBlock
<1> HIDE DEF h, w
<1>5. [w EXCEPT !.conn[c].armed = FALSE] \in World(h)
  BY <1>3, Bools, SetConn, Zenon
<1> QED
  BY <1>1, <1>3, <1>4, <1>5, BecomesOK, Zenon

\* rejected_block
LEMMA RejectedBlockOK ==
    ASSUME Inv, NEW c \in Conn, RejectedBlock(c)
    PROVE  Inv'
<1> DEFINE h    == chain.head
           p    == Popped(c)
           w(n) == [p EXCEPT !.conn[c].rejected = n]
           v(n) == [w(n) EXCEPT !.sync.last = 0]
           u(n) == [v(n) EXCEPT !.sync.source = None]
<1>1. h \in Nat \ {0} /\ 0 \in Int /\ None \in 0 .. NumConn
  BY Here, NetAssumption DEF None
<1>2. p \in World(h)
  BY PoppedOK, Zenon DEF RejectedBlock, Task
<1>3. PICK n \in {conn[c].rejected, conn[c].rejected + 1} \ {0} :
        \/ Becomes(Post(u(n), c, [op |-> "close"]))
        \/ Becomes(Post(w(n), c, Handshake(TRUE)))
  BY Zenon DEF RejectedBlock
<1>4. n \in Int
  <2>1. conn[c].rejected \in Int
    BY ConnHere, Zenon
  <2> QED
    BY <1>3, <2>1
<1>5. w(n) \in World(h)
  <2> HIDE DEF h, p
  <2> QED
    BY <1>2, <1>4, SetConn, Zenon
<1>6. v(n) \in World(h)
  <2> HIDE DEF h, w
  <2> QED
    BY <1>1, <1>5, SetSync, Zenon
<1>7. u(n) \in World(h)
  <2> HIDE DEF h, v
  <2> QED
    BY <1>1, <1>6, SetSync, Zenon
<1> HIDE DEF h, w, u
<1>8. Post(u(n), c, [op |-> "close"]) \in World(h) /\ Post(w(n), c, Handshake(TRUE)) \in World(h)
  BY <1>5, <1>7, HandshakeOK, Zenon
<1> QED
  BY <1>1, <1>3, <1>8, BecomesOK, Zenon

\* close
LEMMA CloseOK ==
    ASSUME Inv, NEW c \in Conn, Close(c)
    PROVE  Inv'
<1> DEFINE h == chain.head
<1>1. h \in Nat \ {0}
  BY Here, Zenon
<1>2. Popped(c) \in World(h)
  BY PoppedOK, Zenon DEF Close, Task
<1>3. Becomes(Closed(Popped(c), c))
  BY Zenon DEF Close
<1> HIDE DEF h
<1> QED
  BY <1>1, <1>2, <1>3, ClosedOK, BecomesOK, Zenon

\* The timer of a connection expires.
LEMMA TimerExpiresOK ==
    ASSUME Inv, NEW c \in Conn, TimerExpires(c)
    PROVE  Inv'
<1> DEFINE h == chain.head
           w == [world EXCEPT !.conn[c].armed = FALSE]
<1>1. h \in Nat \ {0} /\ world \in World(h)
  BY Here, Zenon
<1>2. w \in World(h)
  <2> HIDE DEF h
  <2> QED
    BY <1>1, Bools, SetConn, Zenon
<1>3. Becomes(Post(w, c, [op |-> "timeout"]))
  BY Zenon DEF TimerExpires
<1> HIDE DEF h, w
<1> QED
  BY <1>1, <1>2, <1>3, TasksOf, PostOK, BecomesOK, Zenon

\* sync_timeout: sync_reassign_fetch
LEMMA SyncTimeoutOK ==
    ASSUME Inv, NEW c \in Conn, SyncTimeout(c)
    PROVE  Inv'
<1> DEFINE h == chain.head
<1>1. h \in Nat \ {0}
  BY Here, Zenon
<1>2. Popped(c) \in World(h)
  BY PoppedOK, Zenon DEF SyncTimeout, Task
<1>3. Popped(c).peer[c].wire = peer[c].wire
  BY DEF Popped, world
<1>4. PICK k \in 0 .. Len(peer[c].wire) : Becomes(SyncReassignFetch(Popped(c), c, k))
  BY Zenon DEF SyncTimeout
<1> HIDE DEF h
<1>5. SyncReassignFetch(Popped(c), c, k) \in World(h)
  BY <1>1, <1>2, <1>3, <1>4, SyncReassignFetchOK, Zenon
<1> QED
  BY <1>1, <1>4, <1>5, BecomesOK, Zenon

\* enqueue_sync_block, at the peer.
LEMMA PeerSendsBlockOK ==
    ASSUME Inv, NEW c \in Conn, PeerSendsBlock(c)
    PROVE  Inv'
<1> DEFINE h    == chain.head
           Q(r) == IF r.last + 1 = r.end THEN {} ELSE {[r EXCEPT !.last = r.last + 1]}
           w(r) == [world EXCEPT !.peer[c].requested = Q(r)]
           u(r) == [w(r) EXCEPT !.peer[c].sent = peer[c].head]
           b(r) == <<[type |-> "block", num |-> r.last + 1]>>
           m    == <<[type |-> "handshake", num |-> peer[c].head]>>
           A(r) == r.last + 1 <= peer[c].head
           B(r) == r.last + 1 > peer[c].head
           D    == peer[c].sent # peer[c].head
<1>1. h \in Nat \ {0} /\ world \in World(h)
  BY Here, Zenon
<1>2. peer[c].requested \in Requests /\ peer[c].head \in Int
  BY ConnHere, Zenon
<1>3. PICK r \in peer[c].requested :
        Becomes(CASE A(r) -> Send(w(r), c, b(r))
                  [] B(r) /\ D -> Send(u(r), c, m)
                  [] OTHER -> w(r))
  BY Zenon DEF PeerSendsBlock
<1>4. r \in Request
  BY <1>2 DEF Requests
<1>5. r.last \in Int /\ r.end \in Int /\ r.last + 1 \in Int
  BY <1>4 DEF Request
<1>6. Q(r) \in Requests
  <2>1. [r EXCEPT !.last = r.last + 1] \in Request
    BY <1>4, <1>5 DEF Request
  <2>2. {[r EXCEPT !.last = r.last + 1]} \in Requests
    BY <2>1 DEF Requests
  <2> QED
    BY <2>2, RequestsOf, Zenon
<1>7. w(r) \in World(h)
  <2> HIDE DEF h, Q
  <2> QED
    BY <1>1, <1>6, SetPeer, Zenon
<1>8. u(r) \in World(h)
  <2> HIDE DEF h, w
  <2> QED
    BY <1>2, <1>7, SetPeer, Zenon
<1>9. b(r) \in Seq(Messages) /\ m \in Seq(Messages)
  BY <1>2, <1>5, MessagesOf, Zenon
<1>10. ~(A(r) /\ B(r))
  BY <1>2, <1>5
<1> HIDE DEF h, w, u, b, m, A, B, D
<1>11. Send(w(r), c, b(r)) \in World(h) /\ Send(u(r), c, m) \in World(h)
  BY <1>7, <1>8, <1>9, SendOK, Zenon
<1>12. \E s \in World(h) : Becomes(s)
  <2>1. CASE A(r)
    BY <1>3, <1>10, <1>11, <2>1, Zenon
  <2>2. CASE B(r) /\ D
    BY <1>3, <1>10, <1>11, <2>2, Zenon
  <2>3. CASE ~A(r) /\ ~(B(r) /\ D)
    BY <1>3, <1>7, <2>3, Zenon
  <2> QED
    BY <2>1, <2>2, <2>3, Zenon
<1> QED
  BY <1>1, <1>12, BecomesOK, Zenon

\* The peer's chain grows.
LEMMA PeerGrowsOK ==
    ASSUME Inv, NEW c \in Conn, PeerGrows(c)
    PROVE  Inv'
<1> DEFINE h == chain.head
           n == world.peer[c].head + 1
           w == [world EXCEPT !.peer[c].head = n]
           m == <<[type |-> "block", num |-> peer[c].head + 1]>>
<1>1. h \in Nat \ {0} /\ world \in World(h) /\ world.peer = peer
  BY Here, Zenon
<1>2. peer[c].head \in Int
  BY ConnHere, Zenon
<1>3. n \in Int /\ peer[c].head + 1 \in Int
  BY <1>1, <1>2
<1>4. w \in World(h)
  <2> HIDE DEF h, n
  <2> QED
    BY <1>1, <1>3, SetPeer, Zenon
<1>5. m \in Seq(Messages)
  BY <1>3, MessagesOf, Zenon
<1>6. Becomes(Send(w, c, m)) \/ Becomes(w)
  BY Zenon DEF PeerGrows
<1> HIDE DEF h, w, m
<1> QED
  BY <1>1, <1>4, <1>5, <1>6, SendOK, BecomesOK, Zenon

\* The node starts with the invariant.
LEMMA InitOK ==
    ASSUME Init
    PROVE  Inv
<1> DEFINE h == StartHead
<1>1. PICK start \in Starts :
        /\ chain = [head |-> StartHead, queue |-> <<>>, expired |-> StartHead,
                    expires |-> start.expires]
        /\ peer = [c \in Conn |->
                    [head |-> start.heads[c], sent |-> 0, syncing |-> FALSE, requested |-> {},
                     wire |-> <<>>]]
  BY Zenon DEF Init
<1>2. /\ sync = [known |-> 0, last |-> 0, expected |-> 1, source |-> None, stage |-> "in_sync"]
      /\ conn = [c \in Conn |->
                  [open |-> FALSE, connecting |-> FALSE, syncing |-> FALSE, armed |-> FALSE,
                   lib |-> 0, sent |-> 0, fork_head |-> 0, rejected |-> 0, strand |-> <<>>]]
  BY Zenon DEF Init
<1>3. h \in Nat \ {0} /\ h \in Int /\ MaxNum \in Nat /\ NumConn \in Nat
  BY NetAssumption
<1>4. start.expires \in Bool /\ \A c \in Conn : start.heads[c] \in Int
  <2>1. Starts \subseteq [heads : [Conn -> 0..MaxNum], expires : BOOLEAN]
    BY NetAssumption
  <2>2. start \in [heads : [Conn -> 0..MaxNum], expires : BOOLEAN]
    BY <2>1
  <2>3. start.expires \in BOOLEAN /\ start.heads \in [Conn -> 0..MaxNum]
    BY <2>2
  <2>4. \A c \in Conn : start.heads[c] \in Int
    BY <1>3, <2>3
  <2> QED
    BY <2>3, <2>4 DEF Bool
<1>5. << >> \in Seq(Entries) /\ << >> \in Seq(Messages) /\ << >> \in Seq(Tasks(h))
  OBVIOUS
<1>6. chain \in ChainAt(h) /\ chain.head = h
  <2>1. PICK e \in Bool : e = start.expires
    BY <1>4
  <2>2. h \in Only(h)
    BY DEF Only
  <2> QED
    BY <1>1, <1>3, <1>5, <2>1, <2>2 DEF ChainAt
<1>7. sync \in SyncAt(h)
  <2>1. 1 \in UpTo(h + 1) /\ 0 \in 0 .. NumConn /\ "in_sync" \in Stages
    BY <1>3 DEF UpTo, Stages
  <2> QED
    BY <1>2, <2>1 DEF SyncAt, None
<1>8. conn \in [Conn -> ConnAt(h)]
  <2>1. [open |-> FALSE, connecting |-> FALSE, syncing |-> FALSE, armed |-> FALSE,
         lib |-> 0, sent |-> 0, fork_head |-> 0, rejected |-> 0, strand |-> <<>>] \in ConnAt(h)
    <3>1. PICK f \in Bool : f = FALSE
      BY Bools, Zenon
    <3>2. PICK e \in Seq(Tasks(h)) : e = << >>
      BY <1>5, Zenon
    <3>3. [open |-> f, connecting |-> f, syncing |-> f, armed |-> f, lib |-> 0, sent |-> 0,
           fork_head |-> 0, rejected |-> 0, strand |-> e] \in ConnAt(h)
      BY DEF ConnAt
    <3> QED
      BY <3>1, <3>2, <3>3, Zenon
  <2> QED
    BY <1>2, <2>1, Zenon
<1>9. peer \in [Conn -> PeerState]
  <2>1. \A n \in Int : [head |-> n, sent |-> 0, syncing |-> FALSE, requested |-> {},
                        wire |-> <<>>] \in PeerState
    <3>1. PICK f \in Bool : f = FALSE
      BY Bools, Zenon
    <3>2. PICK e \in Seq(Messages) : e = << >>
      BY <1>5, Zenon
    <3>3. PICK q \in Requests : q = {}
      BY RequestsOf, Zenon
    <3>4. \A n \in Int : [head |-> n, sent |-> 0, syncing |-> f, requested |-> q, wire |-> e]
                            \in PeerState
      BY DEF PeerState
    <3> QED
      BY <3>1, <3>2, <3>3, <3>4, Zenon
  <2> QED
    BY <1>1, <1>4, <2>1, Zenon
<1>10. world \in World(h)
  <2> HIDE DEF h
  <2> QED
    BY <1>6, <1>7, <1>8, <1>9 DEF world, World
<1> QED
  BY <1>3, <1>6, <1>10 DEF Inv

\* No block is skipped: the chunk that request_next_chunk asks for never begins
\* beyond the block after our head, whichever strand's block, late or sent
\* twice, has moved sync_next_expected_num (sync_update_expected, start_sync).
THEOREM SyncNothingSkipped == Spec => []NothingSkipped
<1>1. Init => Inv
  BY InitOK
<1>2. Inv /\ [Next]_vars => Inv'
  <2> SUFFICES ASSUME Inv, [Next]_vars
               PROVE  Inv'
    OBVIOUS
  <2>1. CASE Next
    <3>1. ASSUME NEW c \in Conn,
                 \/ Connect(c) \/ Lose(c) \/ Receive(c) \/ RunTask(c)
                 \/ TimerExpires(c) \/ PeerSendsBlock(c) \/ PeerGrows(c)
          PROVE  Inv'
      <4>1. Receive(c) => Inv'
        BY ReceiveHandshakeOK, ReceiveNoticeOK, ReceiveBlockOK, Zenon DEF Receive
      <4>2. RunTask(c) => Inv'
        BY SendHandshakeOK, RequestSyncBlocksOK, AcceptedBlockOK, KnownBlockOK, RecvBlockOK,
           RejectedBlockOK, CloseOK, SyncTimeoutOK, Zenon DEF RunTask
      <4> QED
        BY <3>1, <4>1, <4>2, ConnectOK, LoseOK, TimerExpiresOK, PeerSendsBlockOK, PeerGrowsOK,
           Zenon
    <3> QED
      BY <2>1, <3>1, ProcessSignedBlockOK, ExpireBlocksOK, Zenon DEF Next
  <2>2. CASE UNCHANGED vars
    BY <2>2 DEF vars, Inv, world
  <2> QED
    BY <2>1, <2>2
<1>3. Inv => NothingSkipped
  <2> SUFFICES ASSUME Inv
               PROVE  NothingSkipped
    OBVIOUS
  <2> DEFINE h == chain.head
  <2>1. h \in Int /\ world \in World(h) /\ world.sync = sync
    BY Here, Zenon
  <2>2. world.sync.expected \in UpTo(h + 1)
    <3> HIDE DEF h
    <3> QED
      BY <2>1, Fields, Zenon
  <2> QED
    BY <2>1, <2>2 DEF UpTo, NothingSkipped
<1> QED
  BY <1>1, <1>2, <1>3, PTL DEF Spec
=============================================================================
