-------------------------- MODULE BlockVaultProofs --------------------------
(***************************************************************************)
(* What the block vault promises, proved for any number of nodes, slots,   *)
(* blocks, snapshots and faults.                                           *)
(***************************************************************************)
EXTENDS BlockVault, NaturalSets, SequenceTheorems

\* The chains that can be signed: no header makes more irreversible than the
\* blocks before it.
Header == [slot : Nat, by : Node \cup {"others"}, lib : Nat]
Chain  == {b \in Seq(Header) : \A i \in 1 .. Len(b) : b[i].lib <= i}

NodeType ==
    [call : {"idle", "waiting", "accepted", "down"}, made : Chain,
     known : SUBSET Chain, root : Chain, head : Chain,
     num : Nat, slot : Nat, rejected : Nat, resync : {"off", "armed", "cancelled"},
     queue : Seq(Chain)]

Entry == [block : Chain, snaps : SUBSET Chain, final : SUBSET Chain]
Row   == [num : Nat, slot : Nat, block : Chain]

NodesType ==
    /\ blocks \subseteq Chain
    /\ node \in [Node -> NodeType]

TablesType ==
    /\ rows \subseteq Row /\ IsFiniteSet(rows)
    /\ snaps \subseteq Chain
    /\ accepted \in Seq(Entry)

\* The vault remembers every block it has accepted, by a row with its watermark
\* or a higher one, or by a snapshot that has pruned such a row.
Remembered(a) ==
    \/ \E r \in rows : r.num >= Num(a) /\ r.slot >= Slot(a)
    \/ \E s \in snaps : Num(s) >= Num(a) \/ Slot(s) >= Slot(a)

AcceptedRemembered == \A i \in DOMAIN accepted : Remembered(accepted[i].block)

\* What the vault has, or will be told of, has been signed.
RowsSigned  == \A r \in rows : r.block \in blocks
QueueSigned == \A n \in Node : \A i \in DOMAIN node[n].queue : node[n].queue[i] \in blocks

\* All blocks that are signed, or waiting for the vault, agree on what is
\* irreversible.
SignedAgree == \A c, d \in blocks \cup Made : Agree(c, d)

NodesInv == NodesType /\ QueueSigned /\ SignedAgree
TablesInv == /\ TablesType /\ RowsSigned /\ AcceptedRemembered
             /\ ProductionOrdered /\ ExtendsFinal

VaultInv == NodesInv /\ TablesInv

-----------------------------------------------------------------------------
\* The first k headers of a chain are a chain.
LEMMA ChainPrefix ==
    ASSUME NEW b \in Chain, NEW k \in Int, k <= Len(b)
    PROVE  /\ SubSeq(b, 1, k) \in Chain
           /\ Len(SubSeq(b, 1, k)) = IF 1 <= k THEN k ELSE 0
           /\ \A i \in 1 .. k : SubSeq(b, 1, k)[i] = b[i]
<1>1. b \in Seq(Header) /\ \A i \in 1 .. Len(b) : b[i].lib <= i
  BY DEF Chain
<1>2. \A i \in 1 .. k : b[i] \in Header
  BY <1>1, ElementOfSeq
<1>3. /\ SubSeq(b, 1, k) \in Seq(Header)
      /\ Len(SubSeq(b, 1, k)) = IF 1 <= k THEN k ELSE 0
      /\ \A i \in 1 .. k : SubSeq(b, 1, k)[i] = b[i]
  <2> HIDE DEF Header
  <2>1. /\ SubSeq(b, 1, k) \in Seq(Header)
        /\ Len(SubSeq(b, 1, k)) = IF 1 <= k THEN k - 1 + 1 ELSE 0
        /\ \A i \in 1 .. k - 1 + 1 : SubSeq(b, 1, k)[i] = b[1 + i - 1]
    BY <1>2, SubSeqProperties
  <2> QED
    BY <2>1
<1>4. \A i \in 1 .. Len(SubSeq(b, 1, k)) : SubSeq(b, 1, k)[i].lib <= i
  <2> TAKE i \in 1 .. Len(SubSeq(b, 1, k))
  <2>1. i \in 1 .. k /\ i \in 1 .. Len(b)
    BY <1>1, <1>3
  <2> QED
    BY <1>1, <1>3, <2>1
<1> QED
  BY <1>3, <1>4 DEF Chain

\* The numbers of a block.
LEMMA ChainNumbers ==
    ASSUME NEW b \in Chain
    PROVE  /\ Num(b) \in Nat /\ Slot(b) \in Nat /\ Lib(b) \in Nat
           /\ Len(b) \in Nat /\ Num(b) = Len(b) + 1 /\ Lib(b) <= Len(b)
<1>1. b \in Seq(Header) /\ \A i \in 1 .. Len(b) : b[i].lib <= i
  BY DEF Chain
<1>2. Len(b) \in Nat /\ Num(b) = Len(b) + 1
  BY <1>1 DEF Num
<1>3. CASE b = Genesis
  BY <1>2, <1>3 DEF Slot, Lib
<1>4. CASE b # Genesis
  <2>1. Len(b) \in 1 .. Len(b)
    BY <1>1, <1>4, EmptySeq DEF Genesis
  <2>2. b[Len(b)] \in Header /\ b[Len(b)].lib <= Len(b)
    BY <1>1, <2>1, ElementOfSeq
  <2> QED
    BY <1>2, <2>2, <1>4 DEF Slot, Lib, Last, Header
<1> QED
  BY <1>3, <1>4

\* The genesis block is a chain.
LEMMA GenesisChain == Genesis \in Chain
<1>1. << >> \in Seq(Header) /\ Len(<< >>) = 0
  BY EmptySeq
<1> QED
  BY <1>1 DEF Genesis, Chain

\* What a block makes irreversible is a part of its branch.
LEMMA FinalChain ==
    ASSUME NEW b \in Chain
    PROVE  /\ Final(b) \in Chain
           /\ Len(Final(b)) = IF 2 <= Lib(b) THEN Lib(b) - 1 ELSE 0
           /\ OnBranch(Final(b), b)
<1>1. Lib(b) \in Nat /\ Len(b) \in Nat /\ Lib(b) <= Len(b)
  BY ChainNumbers
<1>2. Lib(b) - 1 \in Int /\ Lib(b) - 1 <= Len(b)
  BY <1>1
<1>3. /\ Final(b) \in Chain
      /\ Len(Final(b)) = IF 1 <= Lib(b) - 1 THEN Lib(b) - 1 ELSE 0
  BY <1>2, ChainPrefix DEF Final
<1>4. CASE 1 <= Lib(b) - 1
  BY <1>1, <1>3, <1>4 DEF OnBranch, Final
<1>5. CASE ~(1 <= Lib(b) - 1)
  <2>1. Lib(b) - 1 < 1 /\ Len(Final(b)) = 0
    BY <1>1, <1>3, <1>5
  <2>2. SubSeq(b, 1, Lib(b) - 1) = << >> /\ SubSeq(b, 1, 0) = << >>
    BY <2>1, <1>2, SubSeqEmpty
  <2> QED
    BY <1>1, <1>3, <1>5, <2>1, <2>2 DEF OnBranch, Final
<1> QED
  BY <1>4, <1>5

\* A prefix of a prefix is a prefix.
LEMMA OnBranchTransitive ==
    ASSUME NEW a \in Chain, NEW b \in Chain, NEW c \in Chain, OnBranch(a, b), OnBranch(b, c)
    PROVE  OnBranch(a, c)
<1>1. Len(a) \in Nat /\ Len(b) \in Nat /\ Len(c) \in Nat
  BY ChainNumbers
<1>2. Len(a) <= Len(b) /\ Len(b) <= Len(c)
  BY DEF OnBranch
<1>3. \A i \in 1 .. Len(a) : a[i] = b[i]
  BY <1>1, <1>2, ChainPrefix DEF OnBranch
<1>4. \A i \in 1 .. Len(b) : b[i] = c[i]
  BY <1>1, <1>2, ChainPrefix DEF OnBranch
<1> DEFINE d == SubSeq(c, 1, Len(a))
<1>5. d \in Chain /\ Len(d) = Len(a) /\ \A i \in 1 .. Len(a) : d[i] = c[i]
  BY <1>1, <1>2, ChainPrefix
<1>6. a \in Seq(Header) /\ d \in Seq(Header)
  BY <1>5 DEF Chain
<1> HIDE DEF d
<1>7. a = d
  BY <1>1, <1>2, <1>3, <1>4, <1>5, <1>6, SeqEqual
<1> QED
  BY <1>1, <1>2, <1>7 DEF OnBranch, d
-----------------------------------------------------------------------------
\* A node with a root of b only.
LEMMA NodeOnType ==
    ASSUME NEW b \in Chain
    PROVE  NodeOn(b) \in NodeType
<1>1. << >> \in Seq(Chain)
  BY EmptySeq
<1> QED
  BY <1>1, GenesisChain DEF NodeOn, NodeType

\* What is left of a node that stops.
LEMMA DownType ==
    ASSUME NEW nd \in NodeType
    PROVE  /\ Down(nd) \in NodeType
           /\ Down(nd).call = "down" /\ Down(nd).queue = << >>
           /\ Down(nd).root = nd.root
<1>1. NodeOn(nd.root) \in NodeType /\ nd.root \in Chain
  BY NodeOnType DEF NodeType
<1> QED
  BY <1>1 DEF Down, NodeOn, NodeType

\* The nodes that differ from nd only in what push_block changes.
Alike(nd) ==
    {d \in NodeType : /\ d.call = nd.call /\ d.made = nd.made
                      /\ d.queue = nd.queue /\ d.resync = nd.resync
                      /\ d.rejected = nd.rejected}

\* push_block leaves the vault's client and the block being made alone.
LEMMA PushedType ==
    ASSUME NEW nd \in NodeType, NEW b \in Chain
    PROVE  Pushed(nd, b) \in Alike(nd)
<1> DEFINE head  == IF Better(b, nd.head) THEN b ELSE nd.head
           root  == IF Num(Final(head)) > Num(nd.root) THEN Final(head) ELSE nd.root
           known == {c \in nd.known \cup {b} : OnBranch(root, c)}
           d     == [nd EXCEPT !.head = head, !.root = root, !.known = known]
<1>1. head \in Chain
  BY DEF NodeType
<1>2. root \in Chain
  <2> HIDE DEF head
  <2> QED
    BY <1>1, FinalChain DEF NodeType
<1>3. known \in SUBSET Chain
  <2> HIDE DEF root
  <2> QED
    BY DEF NodeType
<1>4. d \in Alike(nd)
  <2> HIDE DEF head, root, known
  <2> QED
    BY <1>1, <1>2, <1>3 DEF NodeType, Alike
<1>5. Pushed(nd, b) = NewWatermark(d, b)
  BY DEF Pushed
<1> HIDE DEF d
<1>6. d.num \in Nat /\ d.slot \in Nat /\ Num(b) \in Nat /\ Slot(b) \in Nat
  BY <1>4, ChainNumbers DEF NodeType, Alike
<1>7. Max({d.num, Num(b)}) \in Nat /\ Max({d.slot, Slot(b)}) \in Nat
  <2>1. \A x, y \in Nat : Max({x, y}) \in Nat
    BY MaxOfTwo
  <2> QED
    BY <2>1, <1>6
<1>8. NewWatermark(d, b) \in Alike(nd)
  BY <1>4, <1>7 DEF NewWatermark, NodeType, Alike
<1> QED
  BY <1>5, <1>8

\* Nor do the blocks a node loads from the vault, in whatever order: the
\* recursion that pushes one after the other is well defined.
LEMMA LoadedType ==
    ASSUME NEW nd \in NodeType, NEW order \in Seq(Chain)
    PROVE  Loaded(nd, order) \in Alike(nd)
<1> DEFINE Step(f, i)  == IF i = 0 THEN nd ELSE OnSyncBlock(f[i - 1], order[i])
           IsLoad(f, n) == f = [i \in 0 .. n |-> Step(f, i)]
           Exists(n)    == \E f : IsLoad(f, n) /\ f \in [0 .. n -> Alike(nd)]
           Upto         == {n \in Nat : n <= Len(order) => Exists(n)}
<1>1. nd \in Alike(nd)
  BY DEF Alike
<1>2. Len(order) \in Nat /\ \A i \in 1 .. Len(order) : order[i] \in Chain
  BY ElementOfSeq, LenProperties
<1>3. ASSUME NEW d \in Alike(nd), NEW i \in 1 .. Len(order)
      PROVE  OnSyncBlock(d, order[i]) \in Alike(nd)
  <2>1. d \in NodeType /\ order[i] \in Chain
    BY <1>2 DEF Alike
  <2>2. Pushed(d, order[i]) \in Alike(d)
    BY <2>1, PushedType
  <2>3. Alike(d) \subseteq Alike(nd)
    BY DEF Alike
  <2> QED
    BY <2>2, <2>3 DEF OnSyncBlock
<1>4. 0 \in Upto
  <2> DEFINE f == [i \in 0 .. 0 |-> nd]
  <2>1. f \in [0 .. 0 -> Alike(nd)]
    BY <1>1
  <2>2. IsLoad(f, 0)
    BY SMT
  <2> QED
    BY <2>1, <2>2
<1>5. ASSUME NEW n \in Nat, n \in Upto
      PROVE  n + 1 \in Upto
  <2> SUFFICES ASSUME n + 1 <= Len(order)
               PROVE  Exists(n + 1)
    <3> HIDE DEF Exists
    <3> QED
      OBVIOUS
  <2>1. PICK f : IsLoad(f, n) /\ f \in [0 .. n -> Alike(nd)]
    BY <1>2, <1>5
  <2> DEFINE last == OnSyncBlock(f[n], order[n + 1])
             g    == [i \in 0 .. n + 1 |-> IF i = n + 1 THEN last ELSE f[i]]
  <2>2. last \in Alike(nd)
    <3>1. f[n] \in Alike(nd) /\ n + 1 \in 1 .. Len(order)
      BY <2>1, <1>2
    <3> QED
      BY <3>1, <1>3
  <2>3. g \in [0 .. n + 1 -> Alike(nd)]
    <3> HIDE DEF last
    <3> QED
      BY <2>1, <2>2
  <2>4. \A i \in 0 .. n + 1 : g[i] = Step(g, i)
    <3> TAKE i \in 0 .. n + 1
    <3>1. CASE i = n + 1
      <4>1. g[i] = last /\ g[i - 1] = f[n] /\ order[i] = order[n + 1] /\ i # 0
        <5> HIDE DEF last
        <5> QED
          BY <3>1
      <4> HIDE DEF g
      <4> QED
        BY <4>1
    <3>2. CASE i # n + 1
      <4>1. i \in 0 .. n
        BY <3>2
      <4>2. g[i] = f[i] /\ (i # 0 => g[i - 1] = f[i - 1])
        <5> HIDE DEF last
        <5> QED
          BY <3>2
      <4>3. f[i] = Step(f, i)
        BY <4>1, <2>1
      <4> HIDE DEF g
      <4> QED
        BY <4>2, <4>3
    <3> QED
      BY <3>1, <3>2
  <2>5. IsLoad(g, n + 1)
    <3> HIDE DEF Step, last
    <3>1. g = [i \in 0 .. n + 1 |-> g[i]]
      BY <2>3
    <3> HIDE DEF g
    <3> QED
      BY <3>1, <2>4
  <2> QED
    BY <2>3, <2>5
<1>6. Nat \subseteq Upto
  <2> HIDE DEF Upto
  <2> QED
    BY <1>4, <1>5, InductiveSet
<1>7. PICK f : IsLoad(f, Len(order)) /\ f \in [0 .. Len(order) -> Alike(nd)]
  BY <1>6, <1>2
<1> DEFINE after == CHOOSE g : g = [i \in 0 .. Len(order) |->
                                      IF i = 0 THEN nd ELSE OnSyncBlock(g[i - 1], order[i])]
<1>8. IsLoad(after, Len(order))
  BY <1>7
<1>9. \A i \in 0 .. Len(order) : after[i] \in Alike(nd)
  <2> DEFINE T == {n \in Nat : n <= Len(order) => after[n] \in Alike(nd)}
  <2> HIDE DEF after
  <2>1. 0 \in T
    BY <1>1, <1>2, <1>8
  <2>2. ASSUME NEW n \in Nat, n \in T
        PROVE  n + 1 \in T
    <3> SUFFICES ASSUME n + 1 <= Len(order)
                 PROVE  after[n + 1] \in Alike(nd)
      OBVIOUS
    <3>1. after[n] \in Alike(nd) /\ n + 1 \in 1 .. Len(order)
      BY <1>2, <2>2
    <3>2. after[n + 1] = OnSyncBlock(after[n], order[n + 1])
      BY <1>8, <3>1
    <3> QED
      BY <3>1, <3>2, <1>3
  <2>3. Nat \subseteq T
    <3> HIDE DEF T
    <3> QED
      BY <2>1, <2>2, InductiveSet
  <2> QED
    BY <2>3, <1>2
<1>10. Loaded(nd, order) = after[Len(order)]
  BY DEF Loaded
<1> HIDE DEF after
<1> QED
  BY <1>9, <1>10, <1>2

\* What sync sends are sequences of blocks that the vault has.
LEMMA OrderType ==
    ASSUME NEW R, R \subseteq Row, IsFiniteSet(R)
    PROVE  SetToSeqs(Blocks(R)) \subseteq Seq(Chain)
<1>1. IsFiniteSet(Blocks(R))
  <2> DEFINE f == [r \in R |-> r.block]
  <2>1. f = [r \in R |-> f[r]] /\ Blocks(R) = {f[r] : r \in R}
    BY DEF Blocks
  <2> HIDE DEF f
  <2> QED
    BY <2>1, FiniteImage
<1>2. Cardinality(Blocks(R)) \in Nat /\ Blocks(R) \subseteq Chain
  BY <1>1, FS_CardinalityType DEF Blocks, Row
<1> SUFFICES ASSUME NEW f \in SetToSeqs(Blocks(R))
             PROVE  f \in Seq(Chain)
  OBVIOUS
<1>3. f \in [1 .. Cardinality(Blocks(R)) -> Chain]
  BY <1>2 DEF SetToSeqs
<1> QED
  BY <1>2, <1>3, IsASeq

\* For the given block, or for a node that has nothing.
LEMMA SyncType ==
    ASSUME TablesType
    PROVE  /\ AnyOrder \subseteq Seq(Chain)
           /\ \A b : InOrder(b) \subseteq Seq(Chain)
<1>1. AnyOrder \subseteq Seq(Chain)
  BY OrderType DEF AnyOrder, TablesType
<1>2. ASSUME NEW b
      PROVE  InOrder(b) \subseteq Seq(Chain)
  <2>1. RowsSince(b) \subseteq rows
    BY DEF RowsSince
  <2>2. RowsSince(b) \subseteq Row /\ IsFiniteSet(RowsSince(b))
    BY <2>1, FS_Subset DEF TablesType
  <2>3. ByNum(Blocks(RowsSince(b))) \subseteq SetToSeqs(Blocks(RowsSince(b)))
    BY DEF ByNum
  <2>4. << >> \in Seq(Chain)
    BY EmptySeq
  <2> QED
    BY <2>2, <2>3, <2>4, OrderType DEF InOrder
<1> QED
  BY <1>1, <1>2

\* The row of an external block.
LEMMA ExternalRowType ==
    ASSUME TablesType, NEW b \in Chain
    PROVE  ExternalRow(b) \in Row
<1> DEFINE M == {0} \cup {r.num : r \in rows}
           S == {0} \cup {r.slot : r \in rows}
<1>1. M \in SUBSET Nat /\ M # {} /\ S \in SUBSET Nat /\ S # {}
  BY DEF TablesType, Row
<1>2. IsFiniteSet({r.num : r \in rows}) /\ IsFiniteSet({r.slot : r \in rows})
  <2>1. IsFiniteSet(rows)
    BY DEF TablesType
  <2>2. IsFiniteSet({r.num : r \in rows})
    <3> DEFINE f == [r \in rows |-> r.num]
    <3>1. f = [r \in rows |-> f[r]] /\ {r.num : r \in rows} = {f[r] : r \in rows}
      OBVIOUS
    <3> HIDE DEF f
    <3>2. IsFiniteSet({f[r] : r \in rows})
      BY <3>1, <2>1, FiniteImage
    <3> QED
      BY <3>1, <3>2
  <2>3. IsFiniteSet({r.slot : r \in rows})
    <3> DEFINE f == [r \in rows |-> r.slot]
    <3>1. f = [r \in rows |-> f[r]] /\ {r.slot : r \in rows} = {f[r] : r \in rows}
      OBVIOUS
    <3> HIDE DEF f
    <3>2. IsFiniteSet({f[r] : r \in rows})
      BY <3>1, <2>1, FiniteImage
    <3> QED
      BY <3>1, <3>2
  <2> QED
    BY <2>2, <2>3
<1>3. IsFiniteSet(M) /\ IsFiniteSet(S)
  BY <1>2, FS_Singleton, FS_Union
<1>4. Max(M) \in Nat /\ Max(S) \in Nat
  <2> HIDE DEF M, S
  <2> QED
    BY <1>1, <1>3, MaxOfFinite
<1> QED
  BY <1>4 DEF ExternalRow, Row

-----------------------------------------------------------------------------
\* The first state.
LEMMA VaultInit == Init => VaultInv
<1> SUFFICES ASSUME Init
             PROVE  VaultInv
  OBVIOUS
<1>1. /\ blocks = {Genesis} /\ node = [n \in Node |-> NodeOn(Genesis)]
      /\ rows = {} /\ snaps = {} /\ accepted = << >>
  BY DEF Init
<1>2. accepted \in Seq(Entry)
  BY <1>1, EmptySeq
<1>3. NodesType /\ TablesType
  BY <1>1, <1>2, GenesisChain, NodeOnType, FS_EmptySet DEF NodesType, TablesType
<1>4. DOMAIN accepted = {}
  BY <1>1
<1>5. AcceptedRemembered /\ ProductionOrdered /\ ExtendsFinal
  BY <1>4 DEF AcceptedRemembered, ProductionOrdered, ExtendsFinal
<1>6. RowsSigned /\ QueueSigned
  BY <1>1 DEF RowsSigned, QueueSigned, NodeOn
<1>7. Made = {}
  BY <1>1 DEF Made, NodeOn
<1>8. Agree(Genesis, Genesis)
  <2>1. Final(Genesis) \in Chain
    BY GenesisChain, FinalChain
  <2>2. Final(Genesis) \in Seq(Header)
    BY <2>1 DEF Chain
  <2>3. Len(Final(Genesis)) \in Nat
    BY <2>1, ChainNumbers
  <2> QED
    BY <2>2, <2>3, SubSeqFull DEF Agree, OnBranch
<1>9. SignedAgree
  BY <1>1, <1>7, <1>8 DEF SignedAgree
<1> QED
  BY <1>3, <1>5, <1>6, <1>9 DEF VaultInv, NodesInv, TablesInv

\* A step of one node, after which it is nd, and which may sign the blocks C.
LEMMA NodeStep ==
    ASSUME NodesInv, NEW n \in Node, NEW nd \in NodeType,
           node' = [node EXCEPT ![n] = nd],
           NEW C \in SUBSET Chain, \A c \in C, d \in blocks \cup Made \cup C : Agree(c, d),
           blocks \subseteq blocks', blocks' \subseteq blocks \cup Made \cup C,
           nd.call = "waiting" => nd.made \in Made \cup C,
           \A i \in DOMAIN nd.queue : nd.queue[i] \in blocks'
    PROVE  NodesInv'
<1>1. node \in [Node -> NodeType] /\ blocks \subseteq Chain
  BY DEF NodesInv, NodesType
<1>2. node' \in [Node -> NodeType] /\ node'[n] = nd
      /\ \A m \in Node \ {n} : node'[m] = node[m]
  BY <1>1
<1>3. Made \subseteq Chain
  BY <1>1 DEF Made, NodeType
<1>4. NodesType'
  BY <1>1, <1>2, <1>3 DEF NodesType
<1>5. QueueSigned'
  BY <1>2 DEF NodesInv, QueueSigned
<1>6. Made' \subseteq Made \cup C
  <2> SUFFICES ASSUME NEW m \in Node, node'[m].call = "waiting"
               PROVE  node'[m].made \in Made \cup C
    BY DEF Made
  <2>1. CASE m = n
    BY <2>1, <1>2
  <2>2. CASE m # n
    BY <2>2, <1>2 DEF Made
  <2> QED
    BY <2>1, <2>2
<1>7. \A c, d \in blocks \cup Made \cup C : Agree(c, d)
  <2>1. \A c, d \in blocks \cup Made : Agree(c, d)
    BY DEF NodesInv, SignedAgree
  <2>2. \A c, d : Agree(c, d) <=> Agree(d, c)
    BY DEF Agree
  <2> QED
    BY <2>1, <2>2
<1>8. SignedAgree'
  <2> SUFFICES ASSUME NEW c \in (blocks \cup Made)', NEW d \in (blocks \cup Made)'
               PROVE  Agree(c, d)
    BY DEF SignedAgree, Agree, OnBranch, Final, Lib, Genesis
  <2>1. c \in blocks \cup Made \cup C /\ d \in blocks \cup Made \cup C
    BY <1>6
  <2> QED
    BY <2>1, <1>7
<1> QED
  BY <1>4, <1>5, <1>8 DEF NodesInv

\* A step that leaves the tables alone.
LEMMA TablesKeep ==
    ASSUME TablesInv, UNCHANGED <<rows, snaps, accepted>>, blocks \subseteq blocks'
    PROVE  TablesInv'
<1>1. rows' = rows /\ snaps' = snaps /\ accepted' = accepted
  OBVIOUS
<1>2. RowsSigned'
  BY <1>1 DEF TablesInv, RowsSigned
<1>3. TablesType'
  BY <1>1 DEF TablesInv, TablesType
<1>4. AcceptedRemembered'
  BY <1>1 DEF TablesInv, AcceptedRemembered, Remembered
<1>5. ProductionOrdered' /\ ExtendsFinal'
  BY <1>1 DEF TablesInv, ProductionOrdered, ExtendsFinal
<1> QED
  BY <1>2, <1>3, <1>4, <1>5 DEF TablesInv

\* The blocks the vault has accepted.
LEMMA AcceptedType ==
    ASSUME TablesInv, NEW i \in DOMAIN accepted
    PROVE  accepted[i].block \in Chain
<1>1. accepted \in Seq(Entry)
  BY DEF TablesInv, TablesType
<1>2. i \in 1 .. Len(accepted)
  BY <1>1, LenProperties
<1>3. accepted[i] \in Entry
  BY <1>1, <1>2, ElementOfSeq
<1> QED
  BY <1>3 DEF Entry

\* insert_snapshot prunes a row only if the snapshot is at or above it, and
\* replaces only snapshots below its own.
LEMMA SnapshotKeeps ==
    ASSUME TablesInv, accepted' = accepted, blocks \subseteq blocks',
           NEW nd, NEW root, nd.known \subseteq Chain, SnapshotsPromoted(nd, root)
    PROVE  TablesInv'
<1>1. CASE UNCHANGED <<rows, snaps, proposals>>
  BY <1>1, TablesKeep
<1>2. ASSUME NEW s \in nd.known, ProposeSnapshot(s)
      PROVE  TablesInv'
  <2>1. s \in Chain
    OBVIOUS
  <2>2. SnapshotAllowed(s) /\ rows' = RowsAfter(s) /\ snaps' = SnapsAfter(s)
    BY <1>2 DEF ProposeSnapshot
  <2>3. rows' \subseteq rows /\ snaps' \subseteq snaps \cup {s}
    BY <2>2 DEF RowsAfter, SnapsAfter
  <2>4. TablesType'
    BY <2>1, <2>3, FS_Subset DEF TablesInv, TablesType
  <2>5. RowsSigned'
    BY <2>3 DEF TablesInv, RowsSigned
  <2>6. ProductionOrdered' /\ ExtendsFinal'
    BY DEF TablesInv, ProductionOrdered, ExtendsFinal
  <2>7. s \in snaps'
    <3>1. Num(s) \in Nat /\ Slot(s) \in Nat
      BY <2>1, ChainNumbers
    <3>2. ~(Num(s) < Num(s)) /\ ~(Slot(s) < Slot(s))
      BY <3>1
    <3> QED
      BY <2>2, <3>2 DEF SnapsAfter
  <2>8. ASSUME NEW i \in DOMAIN accepted
        PROVE  Remembered(accepted[i].block)'
    <3> DEFINE a == accepted[i].block
    <3>1. a \in Chain
      BY AcceptedType
    <3>2. Remembered(a)
      BY DEF TablesInv, AcceptedRemembered
    <3> HIDE DEF a
    <3>3. Num(a) \in Nat /\ Slot(a) \in Nat /\ Num(s) \in Nat /\ Slot(s) \in Nat
      BY <2>1, <3>1, ChainNumbers
    <3>4. CASE \E r \in rows : r.num >= Num(a) /\ r.slot >= Slot(a)
      <4>1. PICK r \in rows : r.num >= Num(a) /\ r.slot >= Slot(a)
        BY <3>4
      <4>2. r.num \in Nat /\ r.slot \in Nat
        BY DEF TablesInv, TablesType, Row
      <4>3. CASE r \in rows'
        BY <4>1, <4>3 DEF Remembered, a
      <4>4. CASE r \notin rows'
        <5>1. r.num <= Num(s) \/ r.slot <= Slot(s)
          BY <4>4, <2>2 DEF RowsAfter
        <5>2. CASE r.num <= Num(s)
          BY <5>2, <4>1, <4>2, <3>3, <2>7 DEF Remembered, a
        <5>3. CASE r.slot <= Slot(s)
          BY <5>3, <4>1, <4>2, <3>3, <2>7 DEF Remembered, a
        <5> QED
          BY <5>1, <5>2, <5>3
      <4> QED
        BY <4>3, <4>4
    <3>5. CASE \E t \in snaps : Num(t) >= Num(a) \/ Slot(t) >= Slot(a)
      <4>1. PICK t \in snaps : Num(t) >= Num(a) \/ Slot(t) >= Slot(a)
        BY <3>5
      <4>2. t \in Chain
        BY DEF TablesInv, TablesType
      <4>3. Num(t) \in Nat /\ Slot(t) \in Nat
        BY <4>2, ChainNumbers
      <4>4. ~(Num(t) >= Num(s)) /\ ~(Slot(t) >= Slot(s))
        BY <2>2 DEF SnapshotAllowed
      <4>5. Num(s) >= Num(a) \/ Slot(s) >= Slot(a)
        BY <4>1, <4>3, <4>4, <3>3
      <4> QED
        BY <4>5, <2>7 DEF Remembered, a
    <3> QED
      BY <3>2, <3>4, <3>5 DEF Remembered
  <2>9. AcceptedRemembered'
    BY <2>8 DEF AcceptedRemembered
  <2> QED
    BY <2>4, <2>5, <2>6, <2>9 DEF TablesInv
<1> QED
  BY <1>1, <1>2 DEF SnapshotsPromoted

\* Two blocks that agree, the first with a lower or the same lib: the second
\* continues what is irreversible for the first.
LEMMA AgreeExtends ==
    ASSUME NEW c \in Chain, NEW d \in Chain, Agree(c, d), Lib(c) <= Lib(d)
    PROVE  OnBranch(Final(c), d)
<1>1. /\ Final(c) \in Chain /\ Final(d) \in Chain /\ OnBranch(Final(d), d)
      /\ Lib(c) \in Nat /\ Lib(d) \in Nat
  BY FinalChain, ChainNumbers
<1>2. Len(Final(c)) = (IF 2 <= Lib(c) THEN Lib(c) - 1 ELSE 0)
      /\ Len(Final(d)) = (IF 2 <= Lib(d) THEN Lib(d) - 1 ELSE 0)
  BY FinalChain
<1>3. Len(Final(c)) <= Len(Final(d)) /\ Len(Final(c)) \in Nat /\ Len(Final(d)) \in Nat
  BY <1>1, <1>2
<1>4. OnBranch(Final(c), Final(d))
  <2>1. CASE OnBranch(Final(d), Final(c))
    <3>1. Len(Final(d)) = Len(Final(c)) /\ Final(d) = SubSeq(Final(c), 1, Len(Final(d)))
      BY <2>1, <1>3 DEF OnBranch
    <3>2. Final(c) \in Seq(Header)
      BY <1>1 DEF Chain
    <3>3. Final(d) = Final(c)
      BY <3>1, <3>2, SubSeqFull
    <3> QED
      BY <2>1, <3>3
  <2> QED
    BY <2>1 DEF Agree
<1> QED
  BY <1>1, <1>4, OnBranchTransitive

\* insert_constructed_block: the new block's watermark is above all rows, and
\* its lib not below theirs.
LEMMA ConstructedKeeps ==
    ASSUME VaultInv, NEW n \in Node, NEW answer \in BOOLEAN, ConstructedAccepted(n, answer)
    PROVE  TablesInv'
<1> DEFINE c   == node[n].made
           row == [num |-> Num(c), slot |-> Slot(c), block |-> c]
           e   == [block |-> c, snaps |-> snaps, final |-> {Final(r.block) : r \in rows}]
<1>1. /\ node[n].call = "waiting" /\ ConstructedAllowed(c)
      /\ blocks' = blocks \cup {c} /\ rows' = rows \cup {row}
      /\ accepted' = Append(accepted, e) /\ snaps' = snaps
  BY DEF ConstructedAccepted
<1>2. c \in Made /\ c \in Chain
  BY <1>1 DEF Made, VaultInv, NodesInv, NodesType, NodeType
<1>3. TablesInv /\ NodesInv /\ TablesType /\ accepted \in Seq(Entry)
  BY DEF VaultInv, TablesInv, TablesType
<1>4. \A r \in rows : r \in Row /\ r.num \in Nat /\ r.slot \in Nat /\ r.block \in Chain
  BY <1>3 DEF TablesType, Row
<1>5. Num(c) \in Nat /\ Slot(c) \in Nat
  BY <1>2, ChainNumbers
<1>6. row \in Row /\ row \in rows' /\ row.num = Num(c) /\ row.slot = Slot(c)
  BY <1>1, <1>2, <1>5 DEF Row
<1>7. e \in Entry
  BY <1>2, <1>3, <1>4, FinalChain DEF Entry, TablesType
<1>8. /\ e.block = c /\ e.snaps = snaps
      /\ e.final = {Final(r.block) : r \in rows}
  OBVIOUS
<1> HIDE DEF row, e
<1>9. /\ accepted' \in Seq(Entry) /\ Len(accepted) \in Nat
      /\ DOMAIN accepted = 1 .. Len(accepted) /\ DOMAIN accepted' = 1 .. Len(accepted) + 1
      /\ \A i \in DOMAIN accepted : accepted'[i] = accepted[i]
      /\ accepted'[Len(accepted) + 1] = e
  BY <1>1, <1>3, <1>7, AppendProperties, LenProperties
<1>10. TablesType'
  <2>1. IsFiniteSet(rows')
    BY <1>1, <1>3, FS_AddElement DEF TablesType
  <2>2. rows' \subseteq Row
    BY <1>1, <1>3, <1>6 DEF TablesType
  <2> QED
    BY <2>1, <2>2, <1>1, <1>3, <1>9 DEF TablesType
<1>11. RowsSigned'
  BY <1>1, <1>3 DEF RowsSigned, TablesInv, row
<1>12. AcceptedRemembered'
  <2> SUFFICES ASSUME NEW i \in DOMAIN accepted'
               PROVE  Remembered(accepted[i].block)'
    BY DEF AcceptedRemembered
  <2>1. CASE i \in DOMAIN accepted
    <3>1. Remembered(accepted[i].block) /\ accepted'[i] = accepted[i]
      BY <2>1, <1>3, <1>9 DEF TablesInv, AcceptedRemembered
    <3> QED
      BY <3>1, <1>1 DEF Remembered
  <2>2. CASE i = Len(accepted) + 1
    <3>1. accepted'[i].block = c
      BY <2>2, <1>9, <1>8
    <3>2. row.num >= Num(c) /\ row.slot >= Slot(c)
      BY <1>5, <1>6
    <3> QED
      BY <3>1, <3>2, <1>6 DEF Remembered
  <2> QED
    BY <2>1, <2>2, <1>9
<1>13. ProductionOrdered'
  <2> SUFFICES ASSUME NEW j \in DOMAIN accepted', NEW i \in 1 .. j - 1
               PROVE  \/ /\ Num(accepted'[j].block) > Num(accepted'[i].block)
                         /\ Slot(accepted'[j].block) > Slot(accepted'[i].block)
                      \/ \E s \in accepted'[j].snaps : \/ Num(s) >= Num(accepted'[i].block)
                                                       \/ Slot(s) >= Slot(accepted'[i].block)
    BY DEF ProductionOrdered
  <2>1. i \in DOMAIN accepted /\ accepted'[i] = accepted[i]
    BY <1>9
  <2>2. CASE j \in DOMAIN accepted
    BY <2>1, <2>2, <1>3, <1>9 DEF TablesInv, ProductionOrdered
  <2>3. CASE j = Len(accepted) + 1
    <3> DEFINE a == accepted[i].block
    <3>1. accepted'[j].block = c /\ accepted'[j].snaps = snaps
      BY <2>3, <1>8, <1>9
    <3>2. Remembered(a)
      BY <2>1, <1>3 DEF TablesInv, AcceptedRemembered
    <3>3. a \in Chain
      BY <2>1, <1>3, AcceptedType
    <3> HIDE DEF a
    <3>4. Num(a) \in Nat /\ Slot(a) \in Nat
      BY <3>3, ChainNumbers
    <3>5. CASE \E r \in rows : r.num >= Num(a) /\ r.slot >= Slot(a)
      <4>1. PICK r \in rows : r.num >= Num(a) /\ r.slot >= Slot(a)
        BY <3>5
      <4>2. ~(r.num >= Num(c)) /\ ~(r.slot >= Slot(c)) /\ r.num \in Nat /\ r.slot \in Nat
        BY <1>1, <1>4 DEF ConstructedAllowed
      <4>3. Num(c) > Num(a)
        BY <4>1, <4>2, <3>4, <1>5
      <4>4. Slot(c) > Slot(a)
        BY <4>1, <4>2, <3>4, <1>5
      <4> QED
        BY <4>3, <4>4, <3>1, <2>1 DEF a
    <3>6. CASE \E s \in snaps : Num(s) >= Num(a) \/ Slot(s) >= Slot(a)
      BY <3>6, <3>1, <2>1 DEF a
    <3> QED
      BY <3>2, <3>5, <3>6 DEF Remembered
  <2> QED
    BY <2>2, <2>3, <1>9
<1>14. ExtendsFinal'
  <2> SUFFICES ASSUME NEW j \in DOMAIN accepted', NEW f \in accepted'[j].final
               PROVE  OnBranch(f, accepted'[j].block)
    BY DEF ExtendsFinal, OnBranch
  <2>1. CASE j \in DOMAIN accepted
    BY <2>1, <1>3, <1>9 DEF TablesInv, ExtendsFinal
  <2>2. CASE j = Len(accepted) + 1
    <3>1. accepted'[j].block = c /\ f \in {Final(r.block) : r \in rows}
      BY <2>2, <1>8, <1>9
    <3>2. PICK r \in rows : f = Final(r.block)
      BY <3>1
    <3>3. r.block \in blocks /\ r.block \in Chain
      BY <1>3, <1>4 DEF TablesInv, RowsSigned
    <3>4. Agree(r.block, c)
      BY <3>3, <1>2, <1>3 DEF NodesInv, SignedAgree
    <3>5. ~(Lib(r.block) > Lib(c)) /\ Lib(r.block) \in Nat /\ Lib(c) \in Nat
      BY <3>3, <1>1, <1>2, ChainNumbers DEF ConstructedAllowed
    <3>6. Lib(r.block) <= Lib(c)
      BY <3>5
    <3> QED
      BY <3>1, <3>2, <3>3, <3>4, <3>6, <1>2, AgreeExtends
  <2> QED
    BY <2>1, <2>2, <1>9
<1> QED
  BY <1>10, <1>11, <1>12, <1>13, <1>14 DEF TablesInv

\* insert_external_block only adds a row.
LEMMA ExternalKeeps ==
    ASSUME VaultInv, NEW b \in blocks, rows' \in {rows, rows \cup {ExternalRow(b)}},
           UNCHANGED <<blocks, snaps, accepted>>
    PROVE  TablesInv'
<1>1. TablesInv /\ TablesType /\ b \in Chain
  BY DEF VaultInv, TablesInv, NodesInv, NodesType
<1>2. ExternalRow(b) \in Row /\ ExternalRow(b).block = b
  BY <1>1, ExternalRowType DEF ExternalRow
<1>3. TablesType'
  BY <1>1, <1>2, FS_AddElement DEF TablesType
<1>4. RowsSigned'
  BY <1>1, <1>2 DEF TablesInv, RowsSigned
<1>5. AcceptedRemembered'
  BY <1>1 DEF TablesInv, AcceptedRemembered, Remembered
<1>6. ProductionOrdered' /\ ExtendsFinal'
  BY <1>1 DEF TablesInv, ProductionOrdered, ExtendsFinal
<1> QED
  BY <1>3, <1>4, <1>5, <1>6 DEF TablesInv

-----------------------------------------------------------------------------
\* A block that may be signed on top of a chain is a chain, and agrees with
\* itself.
LEMMA ChildChain ==
    ASSUME NEW b \in Chain, NEW s \in Nat, NEW by \in Node \cup {"others"}, NEW l \in Nat,
           MayBe(Child(b, s, by, l))
    PROVE  Child(b, s, by, l) \in Chain
<1> DEFINE h == [slot |-> s, by |-> by, lib |-> l]
           c == Child(b, s, by, l)
<1>1. b \in Seq(Header) /\ h \in Header /\ h.lib = l /\ c = Append(b, h)
  BY DEF Chain, Header, Child
<1> HIDE DEF h, c
<1>2. /\ c \in Seq(Header) /\ c # << >> /\ Len(c) = Len(b) + 1 /\ Len(b) \in Nat
      /\ \A i \in 1 .. Len(b) : c[i] = b[i]
      /\ c[Len(b) + 1] = h
  BY <1>1, AppendProperties, LenProperties
<1>3. Lib(c) = l /\ Num(c) = Len(b) + 2
  BY <1>1, <1>2 DEF Lib, Genesis, Last, Num
<1>4. l <= Len(b) + 1
  BY <1>2, <1>3 DEF MayBe, c
<1>5. ASSUME NEW i \in 1 .. Len(c)
      PROVE  c[i].lib <= i
  <2>1. CASE i \in 1 .. Len(b)
    BY <2>1, <1>2 DEF Chain
  <2>2. CASE i = Len(b) + 1
    BY <2>2, <1>1, <1>2, <1>4
  <2> QED
    BY <2>1, <2>2, <1>2
<1>6. c \in Chain
  BY <1>2, <1>5 DEF Chain
<1> QED
  BY <1>6 DEF c

\* A block agrees with itself.
LEMMA AgreeReflexive ==
    ASSUME NEW c \in Chain
    PROVE  Agree(c, c)
<1>1. Final(c) \in Chain /\ Len(Final(c)) \in Nat
  BY FinalChain, ChainNumbers
<1>2. Final(c) \in Seq(Header)
  BY <1>1 DEF Chain
<1> QED
  BY <1>1, <1>2, SubSeqFull DEF Agree, OnBranch

\* async_propose_constructed_block
LEMMA ProposeKeeps ==
    ASSUME VaultInv, NEW n \in Node, NEW s \in OwnSlots, NEW l \in Libs, Propose(n, s, l)
    PROVE  VaultInv'
<1> DEFINE c  == Child(node[n].head, s, n, l)
           nd == [node[n] EXCEPT !.call = "waiting", !.made = c]
<1>1. /\ MayBe(c) /\ UNCHANGED <<blocks, rows, snaps, accepted>>
      /\ node' = [node EXCEPT ![n].call = "waiting", ![n].made = c]
  BY DEF Propose
<1>2. node[n] \in NodeType /\ NodesInv /\ TablesInv /\ node \in [Node -> NodeType]
  BY DEF VaultInv, NodesInv, NodesType
<1>3. node[n].head \in Chain /\ s \in Nat /\ l \in Nat
  BY <1>2, VaultAssumption DEF NodeType
<1>4. c \in Chain
  BY <1>1, <1>3, ChildChain
<1>5. Agree(c, c)
  BY <1>4, AgreeReflexive
<1> HIDE DEF c
<1>6. node' = [node EXCEPT ![n] = nd]
  BY <1>1, <1>2
<1>7. nd \in NodeType /\ nd.made = c /\ nd.queue = node[n].queue
  BY <1>2, <1>4 DEF NodeType
<1> HIDE DEF nd
<1>8. \A d \in blocks \cup Made \cup {c} : Agree(c, d)
  BY <1>1, <1>5 DEF MayBe
<1>9. \A i \in DOMAIN nd.queue : nd.queue[i] \in blocks'
  BY <1>1, <1>2, <1>7 DEF NodesInv, QueueSigned
<1>10. NodesInv'
  <2> DEFINE C == {c}
  <2>1. /\ C \in SUBSET Chain /\ \A x \in C, d \in blocks \cup Made \cup C : Agree(x, d)
        /\ blocks \subseteq blocks' /\ blocks' \subseteq blocks \cup Made \cup C
        /\ nd.made \in Made \cup C
    BY <1>1, <1>4, <1>7, <1>8
  <2> HIDE DEF C
  <2> QED
    BY <2>1, <1>2, <1>6, <1>7, <1>9, NodeStep
<1>11. TablesInv'
  BY <1>1, <1>2, TablesKeep
<1> QED
  BY <1>10, <1>11 DEF VaultInv

\* A step of a node that signs nothing.
LEMMA QuietStep ==
    ASSUME NodesInv, NEW n \in Node, NEW nd \in NodeType,
           node' = [node EXCEPT ![n] = nd],
           blocks \subseteq blocks', blocks' \subseteq blocks \cup Made,
           nd.call = "waiting" => nd.made \in Made,
           \A i \in DOMAIN nd.queue : nd.queue[i] \in blocks'
    PROVE  NodesInv'
<1> DEFINE C == {}
<1>1. /\ C \in SUBSET Chain /\ \A x \in C, d \in blocks \cup Made \cup C : Agree(x, d)
      /\ blocks' \subseteq blocks \cup Made \cup C
      /\ (nd.call = "waiting" => nd.made \in Made \cup C)
  OBVIOUS
<1> HIDE DEF C
<1> QED
  BY <1>1, NodeStep

\* produce_block with the answer FALSE.
LEMMA RejectedType ==
    ASSUME NEW nd \in NodeType
    PROVE  Rejected(nd) \in NodeType /\ Rejected(nd).call = "idle"
           /\ Rejected(nd).queue = nd.queue
<1>1. Num(nd.made) \in Nat
  BY ChainNumbers DEF NodeType
<1> QED
  BY <1>1, GenesisChain DEF Rejected, NodeType

\* The vault's answers.
LEMMA AnswerKeeps ==
    ASSUME VaultInv, NEW n \in Node,
           \/ \E answer \in BOOLEAN : ConstructedAccepted(n, answer)
           \/ ConstructedRefused(n)
    PROVE  VaultInv'
<1>1. node[n] \in NodeType /\ NodesInv /\ TablesInv /\ node \in [Node -> NodeType]
  BY DEF VaultInv, NodesInv, NodesType
<1>2. \A i \in DOMAIN node[n].queue : node[n].queue[i] \in blocks
  BY <1>1 DEF NodesInv, QueueSigned
<1>3. ASSUME NEW answer \in BOOLEAN, ConstructedAccepted(n, answer)
      PROVE  VaultInv'
  <2> DEFINE nd == IF answer THEN [node[n] EXCEPT !.call = "accepted"] ELSE Rejected(node[n])
  <2>1. /\ node[n].call = "waiting" /\ blocks' = blocks \cup {node[n].made}
        /\ node' = [node EXCEPT ![n] = nd]
    BY <1>3 DEF ConstructedAccepted
  <2>2. nd \in NodeType /\ nd.call # "waiting" /\ nd.queue = node[n].queue
    BY <1>1, RejectedType DEF NodeType
  <2>3. node[n].made \in Made
    BY <2>1 DEF Made
  <2> HIDE DEF nd
  <2>4. blocks \subseteq blocks' /\ blocks' \subseteq blocks \cup Made
    BY <2>1, <2>3
  <2>5. \A i \in DOMAIN nd.queue : nd.queue[i] \in blocks'
    BY <1>2, <2>2, <2>4
  <2>6. NodesInv'
    BY <1>1, <2>1, <2>2, <2>4, <2>5, QuietStep
  <2>7. TablesInv'
    BY <1>3, ConstructedKeeps
  <2> QED
    BY <2>6, <2>7 DEF VaultInv
<1>4. CASE ConstructedRefused(n)
  <2>1. /\ node' = [node EXCEPT ![n] = Rejected(node[n])]
        /\ UNCHANGED <<blocks, rows, snaps, accepted>>
    BY <1>4 DEF ConstructedRefused
  <2>2. /\ Rejected(node[n]) \in NodeType /\ Rejected(node[n]).call # "waiting"
        /\ Rejected(node[n]).queue = node[n].queue
    BY <1>1, RejectedType
  <2>3. NodesInv'
    BY <1>1, <1>2, <2>1, <2>2, QuietStep
  <2>4. TablesInv'
    BY <2>1, <1>1, TablesKeep
  <2> QED
    BY <2>3, <2>4 DEF VaultInv
<1> QED
  BY <1>3, <1>4

\* produce_block with the answer TRUE.
LEMMA CommitKeeps ==
    ASSUME VaultInv, NEW n \in Node, Commit(n)
    PROVE  VaultInv'
<1> DEFINE new == Pushed(node[n], node[n].made)
           nd  == [new EXCEPT !.call = "idle", !.made = Genesis]
<1>1. /\ node' = [node EXCEPT ![n] = nd] /\ SnapshotsPromoted(node[n], new.root)
      /\ UNCHANGED <<blocks, accepted>>
  BY DEF Commit
<1>2. node[n] \in NodeType /\ NodesInv /\ TablesInv
  BY DEF VaultInv, NodesInv, NodesType
<1>3. node[n].made \in Chain /\ node[n].known \subseteq Chain
  BY <1>2 DEF NodeType
<1>4. new \in Alike(node[n])
  BY <1>2, <1>3, PushedType
<1> HIDE DEF new
<1>5. new \in NodeType /\ new.root \in Chain /\ new.queue = node[n].queue
  BY <1>4 DEF Alike, NodeType
<1>6. nd \in NodeType /\ nd.call = "idle" /\ nd.queue = node[n].queue
  BY <1>5, GenesisChain DEF NodeType
<1> HIDE DEF nd
<1>7. \A i \in DOMAIN nd.queue : nd.queue[i] \in blocks'
  BY <1>1, <1>2, <1>6 DEF NodesInv, QueueSigned
<1>8. NodesInv'
  BY <1>1, <1>2, <1>6, <1>7, QuietStep
<1>9. TablesInv'
  BY <1>1, <1>2, <1>3, <1>5, SnapshotKeeps
<1> QED
  BY <1>8, <1>9 DEF VaultInv

\* on_incoming_block
LEMMA ReceiveKeeps ==
    ASSUME VaultInv, NEW n \in Node,
           NEW b \in blocks \cup UNION {OthersBlocks(c) : c \in node[n].known},
           NEW cancel \in BOOLEAN, Receive(n, b, cancel)
    PROVE  VaultInv'
<1> DEFINE new == Pushed(node[n], b)
           nd  == [new EXCEPT !.queue  = Append(node[n].queue, b),
                              !.resync = IF cancel THEN "cancelled" ELSE node[n].resync]
<1>1. /\ node[n].call = "idle" /\ node' = [node EXCEPT ![n] = nd]
      /\ SnapshotsPromoted(node[n], new.root)
      /\ blocks' = blocks \cup {b} /\ accepted' = accepted
  BY DEF Receive
<1>2. /\ node[n] \in NodeType /\ NodesInv /\ TablesInv /\ blocks \subseteq Chain
      /\ node[n].known \subseteq Chain /\ node[n].root \in Chain
      /\ node[n].queue \in Seq(Chain)
  BY DEF VaultInv, NodesInv, NodesType, NodeType
<1>3. b \in Chain /\ \A d \in blocks \cup Made : Agree(b, d)
  <2>1. CASE b \in blocks
    BY <2>1, <1>2 DEF NodesInv, SignedAgree
  <2>2. ASSUME NEW p \in node[n].known, b \in OthersBlocks(p)
        PROVE  b \in Chain /\ \A d \in blocks \cup Made : Agree(b, d)
    <3>1. p \in Chain
      BY <1>2
    <3>2. PICK s \in Slot(p) + 1 .. MaxSlot, l \in Libs : b = Child(p, s, "others", l)
      BY <2>2 DEF OthersBlocks
    <3>3. MayBe(b)
      BY <2>2 DEF OthersBlocks
    <3>4. s \in Nat /\ l \in Nat
      BY <3>1, <3>2, ChainNumbers, VaultAssumption
    <3>5. b \in Chain
      BY <3>1, <3>2, <3>3, <3>4, ChildChain
    <3> QED
      BY <3>3, <3>5 DEF MayBe
  <2> QED
    BY <2>1, <2>2
<1>4. Agree(b, b)
  BY <1>3, AgreeReflexive
<1>5. new \in Alike(node[n])
  BY <1>2, <1>3, PushedType
<1> HIDE DEF new
<1>6. new \in NodeType /\ new.root \in Chain /\ new.call = "idle"
  BY <1>1, <1>5 DEF Alike, NodeType
<1>7. Append(node[n].queue, b) \in Seq(Chain)
  BY <1>2, <1>3, AppendProperties
<1>8. nd \in NodeType /\ nd.call = "idle" /\ nd.queue = Append(node[n].queue, b)
  BY <1>2, <1>6, <1>7 DEF NodeType
<1> HIDE DEF nd
<1>9. \A i \in DOMAIN nd.queue : nd.queue[i] \in blocks'
  <2> DEFINE q == node[n].queue
  <2>1. \A i \in DOMAIN q : q[i] \in blocks
    BY <1>2 DEF NodesInv, QueueSigned
  <2>2. /\ DOMAIN Append(q, b) = 1 .. Len(q) + 1 /\ DOMAIN q = 1 .. Len(q)
        /\ Len(q) \in Nat /\ Append(q, b)[Len(q) + 1] = b
        /\ \A i \in 1 .. Len(q) : Append(q, b)[i] = q[i]
    BY <1>2, <1>3, <1>7, AppendProperties, LenProperties
  <2> HIDE DEF q
  <2>3. \A i \in 1 .. Len(q) + 1 : i \in 1 .. Len(q) \/ i = Len(q) + 1
    BY <2>2
  <2> QED
    BY <2>1, <2>2, <2>3, <1>1, <1>8 DEF q
<1>10. NodesInv'
  <2> DEFINE C == {b}
  <2>1. /\ C \in SUBSET Chain /\ \A x \in C, d \in blocks \cup Made \cup C : Agree(x, d)
        /\ blocks \subseteq blocks' /\ blocks' \subseteq blocks \cup Made \cup C
    BY <1>1, <1>3, <1>4
  <2> HIDE DEF C
  <2> QED
    BY <2>1, <1>1, <1>2, <1>8, <1>9, NodeStep
<1>11. TablesInv'
  BY <1>1, <1>2, <1>6, SnapshotKeeps
<1> QED
  BY <1>10, <1>11 DEF VaultInv

\* The client's thread appends an external block, or drops it.
LEMMA AppendExternalKeeps ==
    ASSUME VaultInv, NEW n \in Node, NEW ok \in BOOLEAN, AppendExternal(n, ok)
    PROVE  VaultInv'
<1> DEFINE q  == node[n].queue
           nd == [node[n] EXCEPT !.queue = Tail(q)]
<1>1. /\ q # << >> /\ node' = [node EXCEPT ![n].queue = Tail(q)]
      /\ rows' \in {rows, rows \cup {ExternalRow(Head(q))}}
      /\ UNCHANGED <<blocks, snaps, accepted>>
  BY DEF AppendExternal
<1>2. /\ node[n] \in NodeType /\ NodesInv /\ node \in [Node -> NodeType]
      /\ q \in Seq(Chain) /\ \A i \in DOMAIN q : q[i] \in blocks
  BY DEF VaultInv, NodesInv, NodesType, NodeType, QueueSigned
<1> HIDE DEF q
<1>3. /\ Tail(q) \in Seq(Chain) /\ Len(q) \in Nat /\ Len(q) # 0 /\ Head(q) = q[1]
      /\ DOMAIN q = 1 .. Len(q) /\ DOMAIN Tail(q) = 1 .. Len(q) - 1
      /\ \A i \in 1 .. Len(q) - 1 : Tail(q)[i] = q[i + 1]
  BY <1>1, <1>2, HeadTailProperties, LenProperties, EmptySeq
<1>4. Head(q) \in blocks
  BY <1>2, <1>3
<1>5. node' = [node EXCEPT ![n] = nd]
  BY <1>1, <1>2
<1>6. nd \in NodeType /\ nd.queue = Tail(q) /\ nd.call = node[n].call /\ nd.made = node[n].made
  BY <1>2, <1>3 DEF NodeType
<1> HIDE DEF nd
<1>7. \A i \in DOMAIN nd.queue : nd.queue[i] \in blocks'
  BY <1>1, <1>2, <1>3, <1>6
<1>8. nd.call = "waiting" => nd.made \in Made
  BY <1>6 DEF Made
<1>9. NodesInv'
  BY <1>1, <1>2, <1>5, <1>6, <1>7, <1>8, QuietStep
<1>10. TablesInv'
  BY <1>1, <1>4, ExternalKeeps
<1> QED
  BY <1>9, <1>10 DEF VaultInv

\* Steps of a node that load blocks, or wait, and leave the vault alone.
LEMMA LoadKeeps ==
    ASSUME VaultInv, NEW n \in Node, NEW nd \in NodeType, nd.call # "waiting",
           nd.queue \in {<< >>, node[n].queue}, node' = [node EXCEPT ![n] = nd],
           UNCHANGED <<blocks, rows, snaps, accepted>>
    PROVE  VaultInv'
<1>1. NodesInv /\ TablesInv
  BY DEF VaultInv
<1>2. \A i \in DOMAIN nd.queue : nd.queue[i] \in blocks'
  <2>1. CASE nd.queue = << >>
    BY <2>1
  <2>2. CASE nd.queue = node[n].queue
    BY <2>2, <1>1 DEF NodesInv, QueueSigned
  <2> QED
    BY <2>1, <2>2
<1>3. NodesInv'
  BY <1>1, <1>2, QuietStep
<1>4. TablesInv'
  BY <1>1, TablesKeep
<1> QED
  BY <1>3, <1>4 DEF VaultInv

\* The resync timer's handler.
LEMMA ResyncKeeps ==
    ASSUME VaultInv, NEW n \in Node,
           Resync(n) \/ ResyncMeetsSnapshot(n) \/ ResyncCancelled(n)
    PROVE  VaultInv'
<1>1. node[n] \in NodeType /\ TablesType /\ node \in [Node -> NodeType]
  BY DEF VaultInv, NodesInv, NodesType, TablesInv
<1>2. CASE Resync(n)
  <2>1. /\ node[n].call = "idle" /\ UNCHANGED <<blocks, rows, snaps, accepted>>
        /\ \E q \in InOrder(node[n].root) \cup AnyOrder :
             node' = [node EXCEPT ![n] = Resynced(node[n], q)]
    BY <1>2 DEF Resync
  <2>2. PICK q \in Seq(Chain) : node' = [node EXCEPT ![n] = Resynced(node[n], q)]
    BY <2>1, <1>1, SyncType
  <2> DEFINE old == [node[n] EXCEPT !.resync = "off"]
  <2>3. old \in NodeType /\ old.call = "idle" /\ old.queue = node[n].queue
    BY <1>1, <2>1 DEF NodeType
  <2>4. Resynced(node[n], q) = Loaded(old, q)
    BY DEF Resynced
  <2> HIDE DEF old
  <2>5. Loaded(old, q) \in Alike(old)
    BY <2>3, LoadedType
  <2>6. /\ Resynced(node[n], q) \in NodeType /\ Resynced(node[n], q).call = "idle"
        /\ Resynced(node[n], q).queue = node[n].queue
    BY <2>3, <2>4, <2>5 DEF Alike
  <2> QED
    BY <2>1, <2>2, <2>6, LoadKeeps
<1>3. CASE ResyncMeetsSnapshot(n)
  <2>1. /\ node' = [node EXCEPT ![n] = Down(node[n])]
        /\ UNCHANGED <<blocks, rows, snaps, accepted>>
    BY <1>3 DEF ResyncMeetsSnapshot
  <2>2. Down(node[n]) \in NodeType /\ Down(node[n]).call = "down" /\ Down(node[n]).queue = << >>
    BY <1>1, DownType
  <2> QED
    BY <2>1, <2>2, LoadKeeps
<1>4. CASE ResyncCancelled(n)
  <2> DEFINE nd == [node[n] EXCEPT !.resync = "off"]
  <2>1. /\ node[n].call = "idle" /\ node' = [node EXCEPT ![n].resync = "off"]
        /\ UNCHANGED <<blocks, rows, snaps, accepted>>
    BY <1>4 DEF ResyncCancelled
  <2>2. nd \in NodeType /\ nd.call = "idle" /\ nd.queue = node[n].queue
    BY <1>1, <2>1 DEF NodeType
  <2>3. node' = [node EXCEPT ![n] = nd]
    BY <2>1, <1>1
  <2> HIDE DEF nd
  <2> QED
    BY <2>1, <2>2, <2>3, LoadKeeps
<1> QED
  BY <1>2, <1>3, <1>4

\* blockvault_sync_strategy::do_sync, with and without a block log.
LEMMA StartKeeps ==
    ASSUME VaultInv, NEW n \in Node, Start(n) \/ StartAfresh(n)
    PROVE  VaultInv'
<1>1. node[n] \in NodeType /\ TablesType /\ node[n].root \in Chain /\ snaps \subseteq Chain
  BY DEF VaultInv, NodesInv, NodesType, TablesInv, TablesType, NodeType
<1>2. ASSUME NEW nd \in NodeType, nd.queue = << >>,
             NEW orders \in SUBSET Seq(Chain), StartFrom(n, nd, orders)
      PROVE  VaultInv'
  <2>1. PICK q \in orders : node' = [node EXCEPT ![n] = Started(nd, q)]
    BY <1>2 DEF StartFrom
  <2> DEFINE old  == [nd EXCEPT !.call = "idle"]
             load == Loaded(old, q)
  <2>2. old \in NodeType /\ old.call = "idle" /\ old.queue = << >>
    BY <1>2 DEF NodeType
  <2> HIDE DEF old
  <2>3. load \in Alike(old)
    BY <2>1, <2>2, LoadedType
  <2>4. Started(nd, q) = [load EXCEPT !.num = 0, !.slot = 0]
    BY DEF Started, old
  <2> HIDE DEF load
  <2>5. load \in NodeType /\ load.call = "idle" /\ load.queue = << >>
    BY <2>2, <2>3 DEF Alike
  <2>6. /\ Started(nd, q) \in NodeType /\ Started(nd, q).call = "idle"
        /\ Started(nd, q).queue = << >>
    <3> DEFINE e == [load EXCEPT !.num = 0, !.slot = 0]
    <3>1. e \in NodeType /\ e.call = load.call /\ e.queue = load.queue
      <4>1. load \in NodeType
        BY <2>5
      <4> QED
        BY <4>1 DEF NodeType
    <3> HIDE DEF e
    <3> QED
      BY <3>1, <2>4, <2>5 DEF e
  <2>7. UNCHANGED <<blocks, rows, snaps, accepted>>
    BY <1>2 DEF StartFrom
  <2> QED
    BY <2>1, <2>6, <2>7, LoadKeeps
<1>3. /\ Down(node[n]) \in NodeType /\ Down(node[n]).queue = << >>
      /\ Down(node[n]).root = node[n].root
  BY <1>1, DownType
<1>4. \A b \in Chain : NodeOn(b) \in NodeType /\ NodeOn(b).queue = << >>
  <2>1. \A b : NodeOn(b).queue = << >>
    BY DEF NodeOn
  <2> QED
    BY <2>1, NodeOnType
<1>5. AnyOrder \in SUBSET Seq(Chain) /\ \A b : InOrder(b) \in SUBSET Seq(Chain)
  BY <1>1, SyncType
<1>6. CASE Start(n)
  <2>1. \/ StartFrom(n, Down(node[n]), InOrder(node[n].root))
        \/ StartFrom(n, Down(node[n]), AnyOrder)
        \/ StartFrom(n, NodeOn(node[n].root), AnyOrder)
    BY <1>3, <1>6 DEF Start
  <2> QED
    BY <2>1, <1>1, <1>2, <1>3, <1>4, <1>5
<1>7. CASE StartAfresh(n)
  <2>1. PICK b \in Chain : StartFrom(n, NodeOn(b), AnyOrder)
    BY <1>1, <1>7, GenesisChain DEF StartAfresh
  <2> QED
    BY <2>1, <1>2, <1>4, <1>5
<1> QED
  BY <1>6, <1>7

-----------------------------------------------------------------------------
\* The invariant is inductive.
LEMMA VaultStep == VaultInv /\ [Next]_vars => VaultInv'
<1> SUFFICES ASSUME VaultInv, [Next]_vars
             PROVE  VaultInv'
  OBVIOUS
<1>1. ASSUME NEW n \in Node, NEW s \in OwnSlots, NEW l \in Libs, Propose(n, s, l)
      PROVE  VaultInv'
  BY <1>1, ProposeKeeps
<1>2. ASSUME NEW n \in Node,
             \/ \E answer \in BOOLEAN : ConstructedAccepted(n, answer)
             \/ ConstructedRefused(n)
      PROVE  VaultInv'
  BY <1>2, AnswerKeeps
<1>3. ASSUME NEW n \in Node, Commit(n)
      PROVE  VaultInv'
  BY <1>3, CommitKeeps
<1>4. ASSUME NEW n \in Node, NEW ok \in BOOLEAN, AppendExternal(n, ok)
      PROVE  VaultInv'
  BY <1>4, AppendExternalKeeps
<1>5. ASSUME NEW n \in Node,
             NEW b \in blocks \cup UNION {OthersBlocks(c) : c \in node[n].known},
             NEW cancel \in BOOLEAN, Receive(n, b, cancel)
      PROVE  VaultInv'
  BY <1>5, ReceiveKeeps
<1>6. ASSUME NEW n \in Node, Resync(n) \/ ResyncMeetsSnapshot(n) \/ ResyncCancelled(n)
      PROVE  VaultInv'
  BY <1>6, ResyncKeeps
<1>7. ASSUME NEW n \in Node, Start(n) \/ StartAfresh(n)
      PROVE  VaultInv'
  BY <1>7, StartKeeps
<1>8. CASE UNCHANGED vars
  <2>1. /\ UNCHANGED <<rows, snaps, accepted>> /\ blocks' = blocks /\ node' = node
    BY <1>8 DEF vars
  <2>2. TablesInv'
    BY <2>1, TablesKeep DEF VaultInv
  <2>3. Made' = Made
    BY <2>1 DEF Made
  <2>4. NodesInv'
    BY <2>1, <2>3 DEF VaultInv, NodesInv, NodesType, QueueSigned, SignedAgree
  <2> QED
    BY <2>2, <2>4 DEF VaultInv
<1> QED
  BY <1>1, <1>2, <1>3, <1>4, <1>5, <1>6, <1>7, <1>8 DEF Next

\* However many nodes produce under one producer's name, and whatever is lost or
\* restarted, postgres_backend accepts blocks of rising number and slot only,
\* but for those a snapshot has pruned.
THEOREM BlockVaultProductionOrdered == Spec => []ProductionOrdered
<1>1. VaultInv => ProductionOrdered
  BY DEF VaultInv, TablesInv
<1> QED
  BY <1>1, VaultInit, VaultStep, PTL DEF Spec

\* A block that insert_constructed_block accepts continues all that was
\* irreversible for a block in the vault.
THEOREM BlockVaultExtendsFinal == Spec => []ExtendsFinal
<1>1. VaultInv => ExtendsFinal
  BY DEF VaultInv, TablesInv
<1> QED
  BY <1>1, VaultInit, VaultStep, PTL DEF Spec
=============================================================================
