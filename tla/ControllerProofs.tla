-------------------------- MODULE ControllerProofs --------------------------
(***************************************************************************)
(* Proofs about the fork database and the controller that owns it, for     *)
(* every block tree, set of invalid blocks and fault.  First, of           *)
(* ForkDatabase alone: its head is the best validated block, no entry is   *)
(* ever orphaned, and a database that was closed reopens as it was.  Then, *)
(* of Controller:                                                          *)
(*   - its thread changes the fork database only by the fork database's    *)
(*     operations, so what is proved of it holds inside a running node;    *)
(*   - its members keep their types;                                       *)
(*   - log, root, committed state and head stay on one branch, so that the *)
(*     node implements IrreversibleChain;                                  *)
(*   - a fork switch finds its branches as it captured them, to its end;   *)
(*   - the undo stack and the reversible blocks are those of the head, and *)
(*     a restart resumes at the head;                                      *)
(*   - when the cached fee rate does not decide whether a block can be     *)
(*     executed, the node is on the best branch, a reversal succeeds and   *)
(*     only blocks that cannot be executed are dropped;                    *)
(*   - when every block can be executed, it comes up after every stop.     *)
(***************************************************************************)
EXTENDS Controller, NaturalSets, SequenceTheorems

-----------------------------------------------------------------------------
(* Facts about the tree of blocks. *)

\* A block is among its ancestors, and these are blocks.
LEMMA AncestorsSelf ==
    ASSUME NEW b \in Block
    PROVE  b \in Ancestors[b] /\ Ancestors[b] \subseteq Block
BY DEF Ancestors

\* The ancestors of a block are closed under Prev.
LEMMA AncestorsClosed ==
    ASSUME NEW b \in Block, NEW a \in Ancestors[b], a # Genesis
    PROVE  Prev[a] \in Ancestors[b]
BY PrevAssumption DEF Ancestors, PrevClosed

\* A set closed under Prev that holds a block holds its ancestors.
LEMMA AncestorsLeast ==
    ASSUME NEW b \in Block, NEW S \in SUBSET Block, b \in S,
           \A c \in S \ {Genesis} : Prev[c] \in S
    PROVE  Ancestors[b] \subseteq S
BY DEF Ancestors, PrevClosed

\* Following previous once: the ancestors of a block are itself and the
\* ancestors of its predecessor.
LEMMA AncestorsPrev ==
    ASSUME NEW b \in Block \ {Genesis}
    PROVE  Ancestors[b] = {b} \cup Ancestors[Prev[b]]
<1> DEFINE S == {b} \cup Ancestors[Prev[b]]
<1>1. Prev[b] \in Block
  BY PrevAssumption
<1>2. Ancestors[b] \subseteq S
  <2>1. S \in SUBSET Block /\ b \in S
    BY <1>1, AncestorsSelf
  <2>2. ASSUME NEW c \in S \ {Genesis}
        PROVE  Prev[c] \in S
    BY <1>1, <2>2, AncestorsSelf, AncestorsClosed
  <2> HIDE DEF S
  <2> QED
    BY <2>1, <2>2, AncestorsLeast
<1>3. Ancestors[Prev[b]] \subseteq Ancestors[b]
  <2>1. Prev[b] \in Ancestors[b]
    BY AncestorsSelf, AncestorsClosed
  <2>2. Ancestors[b] \in SUBSET Block
    BY AncestorsSelf
  <2>3. \A c \in Ancestors[b] \ {Genesis} : Prev[c] \in Ancestors[b]
    BY AncestorsClosed
  <2> QED
    BY <1>1, <2>1, <2>2, <2>3, AncestorsLeast
<1> QED
  BY <1>2, <1>3, AncestorsSelf

\* A block is strictly preferred to each of its proper ancestors: its number
\* is greater and its last irreversible block number is not smaller.
LEMMA PreferredToAncestors ==
    ASSUME NEW b \in Block, NEW a \in Ancestors[b], a # b
    PROVE  FirstPreferred(b, a)
<1> DEFINE S == {c \in Block : c = b \/ FirstPreferred(b, c)}
<1>1. b \in S /\ S \in SUBSET Block
  OBVIOUS
<1>2. ASSUME NEW c \in S \ {Genesis}
      PROVE  Prev[c] \in S
  BY <1>2, PrevAssumption, BlockNumAssumption, DposLibAssumption,
     LibMonotoneAssumption DEF FirstPreferred
<1>3. Ancestors[b] \subseteq S
  BY <1>1, <1>2, AncestorsLeast
<1> QED
  BY <1>3

\* A block is never strictly preferred to itself.
LEMMA PreferredIrreflexive ==
    ASSUME NEW b \in Block
    PROVE  ~FirstPreferred(b, b)
BY BlockNumAssumption, DposLibAssumption DEF FirstPreferred

\* The ancestors of an ancestor.
LEMMA AncestorsTransitive ==
    ASSUME NEW b \in Block, NEW a \in Ancestors[b]
    PROVE  a \in Block /\ Ancestors[a] \subseteq Ancestors[b]
<1>1. a \in Block /\ Ancestors[b] \in SUBSET Block
  BY AncestorsSelf
<1>2. \A c \in Ancestors[b] \ {Genesis} : Prev[c] \in Ancestors[b]
  BY AncestorsClosed
<1> QED
  BY <1>1, <1>2, AncestorsLeast

\* A proper ancestor has a smaller number.
LEMMA AncestorNum ==
    ASSUME NEW b \in Block, NEW a \in Ancestors[b]
    PROVE  a = b \/ BlockNum[a] < BlockNum[b]
<1> DEFINE S == {c \in Block : c = b \/ BlockNum[c] < BlockNum[b]}
<1>1. S \in SUBSET Block /\ b \in S
  OBVIOUS
<1>2. ASSUME NEW c \in S \ {Genesis}
      PROVE  Prev[c] \in S
  BY <1>2, PrevAssumption, BlockNumAssumption
<1>3. Ancestors[b] \subseteq S
  <2> HIDE DEF S
  <2> QED
    BY <1>1, <1>2, AncestorsLeast
<1> QED
  BY <1>3

\* The genesis block has no other ancestor.
LEMMA AncestorsOfGenesis == Ancestors[Genesis] = {Genesis}
<1>1. {Genesis} \in SUBSET Block /\ \A c \in {Genesis} \ {Genesis} : Prev[c] \in {Genesis}
  BY BlockAssumption
<1>2. Ancestors[Genesis] \subseteq {Genesis}
  BY <1>1, BlockAssumption, AncestorsLeast
<1> QED
  BY <1>2, BlockAssumption, AncestorsSelf

\* A branch is a line: of two of its blocks one is built on the other.
LEMMA AncestorsLinear ==
    ASSUME NEW b \in Block, NEW a \in Ancestors[b], NEW c \in Ancestors[b]
    PROVE  a \in Ancestors[c] \/ c \in Ancestors[a]
<1> DEFINE S == {x \in Ancestors[b] : a \in Ancestors[x] \/ x \in Ancestors[a]}
<1>1. S \in SUBSET Block /\ b \in S /\ a \in Block
  BY AncestorsSelf
<1>2. ASSUME NEW x \in S \ {Genesis}
      PROVE  Prev[x] \in S
  <2>1. x \in Block \ {Genesis} /\ Prev[x] \in Ancestors[b]
    BY AncestorsSelf, AncestorsClosed
  <2>2. CASE x \in Ancestors[a]
    BY <1>1, <2>1, <2>2, AncestorsClosed
  <2>3. CASE x \notin Ancestors[a]
    <3>1. x # a /\ a \in Ancestors[x]
      BY <1>1, <2>3, AncestorsSelf
    <3>2. a \in Ancestors[Prev[x]]
      BY <2>1, <3>1, AncestorsPrev
    <3> QED
      BY <2>1, <3>2
  <2> QED
    BY <2>2, <2>3
<1>3. Ancestors[b] \subseteq S
  <2> HIDE DEF S
  <2> QED
    BY <1>1, <1>2, AncestorsLeast
<1> QED
  BY <1>3

\* Every block of a branch but its tip has a successor on it.
LEMMA ChildOnBranch ==
    ASSUME NEW b \in Block, NEW a \in Ancestors[b], a # b
    PROVE  \E d \in Ancestors[b] \ {Genesis} : Prev[d] = a
<1> DEFINE S == {x \in Ancestors[b] : x = b \/ \E d \in Ancestors[b] \ {Genesis} : Prev[d] = x}
<1>1. S \in SUBSET Block /\ b \in S
  BY AncestorsSelf
<1>2. ASSUME NEW x \in S \ {Genesis}
      PROVE  Prev[x] \in S
  BY <1>2, AncestorsClosed
<1>3. Ancestors[b] \subseteq S
  <2> HIDE DEF S
  <2> QED
    BY <1>1, <1>2, AncestorsLeast
<1> QED
  BY <1>3

\* In an index linked to r, everything between r and a block is in the index.
LEMMA BranchInIndex ==
    ASSUME NEW r \in Block, NEW ix \in SUBSET (Block \ {Genesis}),
           LinkedTo(r, ix), NEW c \in ix
    PROVE  Ancestors[c] \ Ancestors[r] \subseteq ix
<1> DEFINE S == ix \cup Ancestors[r]
<1>1. S \in SUBSET Block /\ c \in S
  BY AncestorsSelf
<1>2. ASSUME NEW d \in S \ {Genesis}
      PROVE  Prev[d] \in S
  <2>1. CASE d \in ix
    BY <2>1, AncestorsSelf DEF LinkedTo
  <2>2. CASE d \in Ancestors[r]
    BY <1>2, <2>2, AncestorsClosed
  <2> QED
    BY <2>1, <2>2
<1> QED
  BY <1>1, <1>2, AncestorsLeast

\* A first block of a set has no block of the set preferred to it.
LEMMA FirstIsBest ==
    ASSUME NEW S \in SUBSET Block, NEW b \in S, IsFirst(b, S)
    PROVE  \A c \in S : ~FirstPreferred(c, b)
BY BlockAssumption, BlockNumAssumption, DposLibAssumption
   DEF IsFirst, IndexBefore, FirstPreferred, SamePreference

\* What remove() erases is closed: a block left in the index is not built on
\* an erased one.
LEMMA RemoveClosed ==
    ASSUME NEW id \in Block, NEW ix \in SUBSET (Block \ {Genesis}),
           NEW b \in ix, b \notin RemoveQueue(id, ix)
    PROVE  Prev[b] \notin RemoveQueue(id, ix)
<1> SUFFICES ASSUME Prev[b] \in RemoveQueue(id, ix)
             PROVE  b \in RemoveQueue(id, ix)
  OBVIOUS
<1>1. Prev[b] \in Block
  BY PrevAssumption
<1>2. Ancestors[b] = {b} \cup Ancestors[Prev[b]]
  BY AncestorsPrev
<1>3. id \in Ancestors[Prev[b]] /\ Ancestors[Prev[b]] \ Ancestors[id] \subseteq ix
  BY <1>1, AncestorsSelf DEF RemoveQueue
<1> QED
  BY <1>2, <1>3 DEF RemoveQueue

-----------------------------------------------------------------------------
(* The inductive invariant. *)

\* A written file is what its database was: typed, linked, with a best head.
SavedConsistent ==
    \A f \in saved :
        /\ f.root = root /\ f.head = head
        /\ f.index \subseteq Block \ {Genesis}
        /\ f.validated \subseteq f.index
        /\ LinkedTo(f.root, f.index)
        /\ BestValidated(f.root, f.head, f.validated)

FdbInv == FdbTypeOK /\ Linked /\ HeadIsBestValidated /\ SavedConsistent

\* The state after startup's reset() to the genesis block satisfies FdbInv.
LEMMA FdbInitInv == FdbInit => FdbInv
BY BlockAssumption DEF FdbInit, FdbInv, FdbTypeOK, Linked, LinkedTo, HeadIsBestValidated,
   BestValidated, SavedConsistent

\* add() keeps FdbInv.
LEMMA AddInv ==
    ASSUME FdbInv, NEW b \in Block, Add(b)
    PROVE  FdbInv'
<1> USE DEF FdbInv
<1>1. FdbTypeOK'
  BY DEF FdbTypeOK, Add
<1>2. Linked'
  <2>1. b \in Block \ {Genesis} /\ Prev[b] \in Block
    BY PrevAssumption DEF Add
  <2>2. root \in Ancestors[Prev[b]]
    BY <2>1, AncestorsSelf DEF Add, Known, Linked, LinkedTo
  <2>3. root \in Ancestors[b]
    BY <2>1, <2>2, AncestorsPrev
  <2>4. b # root
    <3> SUFFICES ASSUME b = root
                 PROVE  FALSE
      OBVIOUS
    <3>1. b # Prev[b]
      BY <2>1, BlockNumAssumption
    <3>2. FirstPreferred(Prev[b], b)
      BY <2>1, <2>2, <3>1, PreferredToAncestors
    <3>3. FirstPreferred(b, Prev[b])
      BY <2>1, <3>1, AncestorsSelf, AncestorsClosed, PreferredToAncestors
    <3> QED
      BY <2>1, <3>2, <3>3, BlockNumAssumption, DposLibAssumption DEF FirstPreferred
  <2> QED
    BY <2>3, <2>4 DEF Add, Known, Linked, LinkedTo
<1>3. HeadIsBestValidated'
  <2>1. CASE validated = {}
    BY <2>1 DEF Add, IsOpen, HeadIsBestValidated, BestValidated
  <2>2. CASE validated # {}
    <3>1. PICK h \in validated : IsFirst(h, validated) /\ head' = h
      BY <2>2 DEF Add
    <3>2. \A c \in validated : ~FirstPreferred(c, h)
      BY <3>1, FirstIsBest DEF FdbTypeOK
    <3> QED
      BY <2>2, <3>1, <3>2 DEF Add, HeadIsBestValidated, BestValidated
  <2> QED
    BY <2>1, <2>2
<1>4. SavedConsistent'
  BY DEF Add, IsOpen, SavedConsistent
<1> QED
  BY <1>1, <1>2, <1>3, <1>4

\* mark_valid() keeps FdbInv.
LEMMA MarkValidInv ==
    ASSUME FdbInv, NEW b \in Block, MarkValid(b)
    PROVE  FdbInv'
<1> USE DEF FdbInv
<1>1. PICK c \in validated' :
         /\ IsFirst(c, validated')
         /\ head' = IF FirstPreferred(c, head) THEN c ELSE head
  BY DEF MarkValid
<1>2. validated' \in SUBSET Block /\ head \in Block /\ c \in Block
  BY DEF FdbTypeOK, MarkValid
<1>3. FdbTypeOK'
  BY <1>1, <1>2 DEF FdbTypeOK, MarkValid
<1>4. Linked'
  BY DEF Linked, MarkValid
<1>5. HeadIsBestValidated'
  <2>1. \A v \in validated' : ~FirstPreferred(v, c)
    BY <1>1, <1>2, FirstIsBest
  <2>2. head' \in validated'
    <3>1. CASE validated = {}
      <4>1. c = b /\ head = root
        BY <3>1, <1>1 DEF MarkValid, HeadIsBestValidated, BestValidated
      <4>2. FirstPreferred(c, head)
        BY <4>1, PreferredToAncestors DEF MarkValid, Linked, LinkedTo
      <4> QED
        BY <4>2, <1>1
    <3>2. CASE validated # {}
      BY <3>2, <1>1 DEF MarkValid, HeadIsBestValidated, BestValidated
    <3> QED
      BY <3>1, <3>2
  <2>3. \A v \in validated' : ~FirstPreferred(v, head')
    BY <1>1, <1>2, <2>1, BlockNumAssumption, DposLibAssumption DEF FirstPreferred
  <2> QED
    BY <2>2, <2>3 DEF HeadIsBestValidated, BestValidated
<1>6. SavedConsistent'
  BY DEF MarkValid, IsOpen, SavedConsistent
<1> QED
  BY <1>3, <1>4, <1>5, <1>6

\* remove() keeps FdbInv.
LEMMA RemoveInv ==
    ASSUME FdbInv, NEW b \in Block, Remove(b)
    PROVE  FdbInv'
<1> USE DEF FdbInv
<1>1. FdbTypeOK'
  BY DEF FdbTypeOK, Remove
<1>2. Linked'
  <2> SUFFICES ASSUME NEW c \in index, c \notin RemoveQueue(b, index)
               PROVE  Prev[c] \in (index \ RemoveQueue(b, index)) \cup {root}
    BY DEF Remove, Linked, LinkedTo
  <2>1. Prev[c] \notin RemoveQueue(b, index)
    BY RemoveClosed DEF FdbTypeOK
  <2> QED
    BY <2>1 DEF Linked, LinkedTo
<1>3. HeadIsBestValidated'
  BY DEF Remove, HeadIsBestValidated, BestValidated
<1>4. SavedConsistent'
  BY DEF Remove, IsOpen, SavedConsistent
<1> QED
  BY <1>1, <1>2, <1>3, <1>4

\* advance_root() to a block the head is built on keeps FdbInv.
LEMMA AdvanceRootInv ==
    ASSUME FdbInv, NEW b \in Block, AdvanceRoot(b)
    PROVE  FdbInv'
<1> USE DEF FdbInv
<1> DEFINE ix == index \ {b}
           swept == RemoveQueue(root, ix)
<1>1. b \in index /\ b \in validated /\ ix \in SUBSET (Block \ {Genesis}) /\ root \in Block
  BY DEF AdvanceRoot, FdbTypeOK
<1>2. FdbTypeOK'
  BY <1>1 DEF FdbTypeOK, AdvanceRoot
<1>3. \A c \in index' : b \in Ancestors[c] /\ c # b
  <2> SUFFICES ASSUME NEW c \in ix, c \notin swept
               PROVE  b \in Ancestors[c]
    BY DEF AdvanceRoot
  <2>1. Ancestors[c] \ Ancestors[root] \subseteq index
    BY <1>1, BranchInIndex DEF FdbTypeOK, Linked
  <2>2. root \in Ancestors[c]
    BY DEF Linked, LinkedTo
  <2>3. ~(Ancestors[c] \ Ancestors[root] \subseteq ix)
    BY <2>2 DEF RemoveQueue
  <2> QED
    BY <2>1, <2>3
<1>4. Linked'
  <2> SUFFICES ASSUME NEW c \in ix, c \notin swept
               PROVE  Prev[c] \in (ix \ swept) \cup {b}
    BY <1>3 DEF AdvanceRoot, Linked, LinkedTo
  <2>1. Prev[c] \notin swept
    BY <1>1, RemoveClosed
  <2>2. Prev[c] # root
    BY <2>1 DEF RemoveQueue
  <2> QED
    BY <2>1, <2>2 DEF Linked, LinkedTo
<1>5. HeadIsBestValidated'
  <2>1. head \in validated /\ \A v \in validated : ~FirstPreferred(v, head)
    BY <1>1 DEF AdvanceRoot, HeadIsBestValidated, BestValidated
  <2>2. CASE head = b
    <3>1. ASSUME NEW v \in validated'
          PROVE  FALSE
      <4>1. v \in index' /\ v \in validated /\ v \in Block
        BY <1>2, <3>1 DEF FdbTypeOK, AdvanceRoot
      <4> QED
        BY <2>1, <2>2, <4>1, <1>3, PreferredToAncestors
    <3> QED
      BY <2>2, <3>1 DEF AdvanceRoot, HeadIsBestValidated, BestValidated
  <2>3. CASE head # b
    BY <2>1, <2>3 DEF AdvanceRoot, HeadIsBestValidated, BestValidated
  <2> QED
    BY <2>2, <2>3
<1>6. SavedConsistent'
  BY DEF AdvanceRoot, IsOpen, SavedConsistent
<1> QED
  BY <1>2, <1>4, <1>5, <1>6

\* rollback_head_to_root(), reset(), close() and open() keep FdbInv.
LEMMA RestartInv ==
    ASSUME FdbInv,
           \/ RollbackHeadToRoot
           \/ \E b \in Block : Reset(b)
           \/ Close
           \/ Open
    PROVE  FdbInv'
<1> USE DEF FdbInv
<1>1. CASE RollbackHeadToRoot
  BY <1>1 DEF RollbackHeadToRoot, IsOpen, FdbTypeOK, Linked, HeadIsBestValidated,
     BestValidated, SavedConsistent
<1>2. CASE \E b \in Block : Reset(b)
  BY <1>2 DEF Reset, IsOpen, FdbTypeOK, Linked, LinkedTo, HeadIsBestValidated,
     BestValidated, SavedConsistent
<1>3. CASE Close
  <2>1. FdbTypeOK'
    BY <1>3 DEF Close, Contents, FdbTypeOK, DatFile
  <2>2. Linked' /\ HeadIsBestValidated'
    BY <1>3 DEF Close, IsOpen, Linked, LinkedTo, HeadIsBestValidated
  <2>3. SavedConsistent'
    BY <1>3 DEF Close, Contents, IsOpen, FdbTypeOK, Linked, HeadIsBestValidated,
       SavedConsistent
  <2> QED
    BY <2>1, <2>2, <2>3
<1>4. CASE Open
  <2>1. PICK f \in saved :
           /\ root' = f.root /\ head' = f.head
           /\ index' = f.index /\ validated' = f.validated
           /\ saved' = {}
    BY <1>4 DEF Open
  <2>2. FdbTypeOK'
    BY <2>1 DEF FdbTypeOK, SavedConsistent
  <2>3. Linked' /\ HeadIsBestValidated' /\ SavedConsistent'
    BY <2>1 DEF Linked, HeadIsBestValidated, SavedConsistent
  <2> QED
    BY <2>2, <2>3
<1> QED
  BY <1>1, <1>2, <1>3, <1>4

\* Every step of the fork database keeps FdbInv.
LEMMA FdbNextInv == FdbInv /\ [FdbNext]_fdbVars => FdbInv'
<1> SUFFICES ASSUME FdbInv, [FdbNext]_fdbVars
             PROVE  FdbInv'
  OBVIOUS
<1>1. CASE UNCHANGED fdbVars
  BY <1>1 DEF fdbVars, FdbInv, FdbTypeOK, Linked, HeadIsBestValidated, IsOpen, SavedConsistent
<1>2. CASE FdbNext
  BY <1>2, AddInv, MarkValidInv, RemoveInv, AdvanceRootInv, RestartInv DEF FdbNext
<1> QED
  BY <1>1, <1>2

\* The inductive invariant holds in every reachable state.
THEOREM FdbInvHolds == FdbSpec => []FdbInv
<1>1. FdbInit => FdbInv
  BY FdbInitInv
<1>2. FdbInv /\ [FdbNext]_fdbVars => FdbInv'
  BY FdbNextInv
<1> QED
  BY <1>1, <1>2, PTL DEF FdbSpec

\* Type correctness of the fork database.
THEOREM TypeCorrect == FdbSpec => []FdbTypeOK
BY FdbInvHolds, PTL DEF FdbInv

\* No sequence of add, mark_valid, remove, advance_root, rollback, reset, close
\* and open leaves an orphaned branch in the index.
THEOREM NeverOrphaned == FdbSpec => []Linked
BY FdbInvHolds, PTL DEF FdbInv

\* The head of the fork database is always a best validated block.
THEOREM HeadAlwaysBest == FdbSpec => []HeadIsBestValidated
BY FdbInvHolds, PTL DEF FdbInv

\* open() accepts every file close() can write.
THEOREM AlwaysReopens == FdbSpec => []ReopenSucceeds
<1>1. ASSUME NEW f \in DatFile,
             f.index \subseteq Block \ {Genesis}, f.validated \subseteq f.index,
             LinkedTo(f.root, f.index), BestValidated(f.root, f.head, f.validated)
      PROVE  OpenSucceeds(f)
  <2>1. ASSUME NEW b \in f.index
        PROVE  Prev[b] = f.root \/ (Prev[b] \in f.index /\ WrittenBefore(Prev[b], b, f.validated))
    <3>1. b \in Block \ {Genesis}
      BY <1>1
    <3>2. FirstPreferred(b, Prev[b])
      BY <3>1, PrevAssumption, BlockNumAssumption, DposLibAssumption,
         LibMonotoneAssumption DEF FirstPreferred
    <3> QED
      BY <1>1, <3>2 DEF LinkedTo, WrittenBefore
  <2>2. f.head \in f.index \cup {f.root}
    BY <1>1 DEF BestValidated
  <2>3. IF f.validated = {}
        THEN f.head = f.root
        ELSE \A c \in f.validated : IsFirst(c, f.validated) => ~FirstPreferred(c, f.head)
    BY <1>1 DEF BestValidated
  <2> QED
    BY <2>1, <2>2, <2>3 DEF OpenSucceeds
<1>2. FdbInv => ReopenSucceeds
  <2> SUFFICES ASSUME FdbInv
               PROVE  ReopenSucceeds
    OBVIOUS
  <2>1. IsOpen => OpenSucceeds(Contents)
    <3> SUFFICES ASSUME IsOpen
                 PROVE  OpenSucceeds(Contents)
      OBVIOUS
    <3> DEFINE f == Contents
    <3>1. f \in DatFile
      BY DEF FdbInv, FdbTypeOK, Contents, DatFile
    <3>2. /\ f.index = index /\ f.validated = validated
          /\ f.root = root /\ f.head = head
      BY DEF Contents
    <3>3. f.index \subseteq Block \ {Genesis} /\ f.validated \subseteq f.index
      BY <3>2 DEF FdbInv, FdbTypeOK
    <3>4. LinkedTo(f.root, f.index) /\ BestValidated(f.root, f.head, f.validated)
      BY <3>2 DEF FdbInv, Linked, HeadIsBestValidated
    <3> HIDE DEF f
    <3> QED
      BY <1>1, <3>1, <3>3, <3>4 DEF f
  <2>2. \A f \in saved : OpenSucceeds(f)
    BY <1>1 DEF FdbInv, FdbTypeOK, SavedConsistent
  <2> QED
    BY <2>1, <2>2 DEF ReopenSucceeds
<1> QED
  BY <1>2, FdbInvHolds, PTL

\* Only a rollback or a reset gives up the head for a less preferred block.
THEOREM HeadOnlyImproves == FdbSpec => HeadNeverWorsens
<1> DEFINE Better == FirstPreferred(head, head') => validated' = {} /\ head' = root'
<1>1. FdbInv /\ [FdbNext]_fdbVars => [Better]_fdbVars
  <2> SUFFICES ASSUME FdbInv, FdbNext
               PROVE  Better
    OBVIOUS
  <2>1. head \in Block /\ ~FirstPreferred(head, head)
    BY PreferredIrreflexive DEF FdbInv, FdbTypeOK
  <2>2. ASSUME NEW b \in Block, Add(b)
        PROVE  Better
    <3>1. CASE validated = {}
      BY <2>1, <2>2, <3>1 DEF Add
    <3>2. CASE validated # {}
      <4>1. PICK h \in validated : IsFirst(h, validated) /\ head' = h
        BY <2>2, <3>2 DEF Add
      <4>2. head \in validated
        BY <2>2, <3>2 DEF Add, FdbInv, HeadIsBestValidated, BestValidated
      <4> QED
        BY <4>1, <4>2, FirstIsBest DEF FdbInv, FdbTypeOK
    <3> QED
      BY <3>1, <3>2
  <2>3. ASSUME NEW b \in Block, MarkValid(b)
        PROVE  Better
    <3>1. PICK c \in validated' : head' = IF FirstPreferred(c, head) THEN c ELSE head
      BY <2>3 DEF MarkValid
    <3>2. c \in Block
      BY <2>3, <3>1 DEF MarkValid, FdbInv, FdbTypeOK
    <3> QED
      BY <2>1, <3>1, <3>2, BlockNumAssumption, DposLibAssumption DEF FirstPreferred
  <2>4. ASSUME NEW b \in Block, Remove(b) \/ AdvanceRoot(b)
        PROVE  Better
    BY <2>1, <2>4 DEF Remove, AdvanceRoot
  <2>5. ASSUME NEW b \in Block, RollbackHeadToRoot \/ Reset(b)
        PROVE  Better
    BY <2>5 DEF RollbackHeadToRoot, Reset
  <2>6. CASE Close \/ Open
    BY <2>1, <2>6 DEF Close, Open, FdbInv, SavedConsistent
  <2> QED
    BY <2>2, <2>3, <2>4, <2>5, <2>6, BlockAssumption DEF FdbNext
<1> QED
  BY <1>1, FdbInvHolds, PTL DEF FdbSpec, HeadNeverWorsens

-----------------------------------------------------------------------------
(* The pending head. *)

\* The numbers a finite set of blocks has under f have a greatest one.
LEMMA GreatestOf ==
    ASSUME NEW S \in SUBSET Block, S # {}, IsFiniteSet(S), NEW f \in [Block -> Nat]
    PROVE  \E b \in S : \A c \in S : f[c] <= f[b]
<1>1. PICK g : g = [b \in S |-> f[b]]
  OBVIOUS
<1>2. PICK T : T = {g[b] : b \in S}
  OBVIOUS
<1>3. IsFiniteSet(T)
  <2>1. g = [b \in S |-> g[b]]
    BY <1>1
  <2> QED
    BY <1>2, <2>1, FiniteImage
<1>4. T \in SUBSET Nat /\ T # {}
  BY <1>1, <1>2
<1>5. Max(T) \in T /\ \A x \in T : x <= Max(T)
  BY <1>3, <1>4, MaxOfFinite
<1>6. PICK b \in S : Max(T) = g[b]
  BY <1>2, <1>5
<1>7. \A c \in S : g[c] \in T
  BY <1>2
<1>8. \A c \in S : f[c] <= f[b]
  BY <1>1, <1>5, <1>6, <1>7
<1> QED
  BY <1>8

\* A finite set of blocks has a first one in the order of by_lib_block_num: the
\* greatest lib, then the greatest number, then the least id.
LEMMA FirstExists ==
    ASSUME NEW S \in SUBSET Block, S # {}, IsFiniteSet(S)
    PROVE  \E b \in S : IsFirst(b, S)
<1>1. PICK x \in S : \A c \in S : DposLib[c] <= DposLib[x]
  BY DposLibAssumption, GreatestOf
<1>2. PICK T : T = {c \in S : DposLib[c] = DposLib[x]}
  OBVIOUS
<1>3. T \in SUBSET Block /\ T # {} /\ IsFiniteSet(T)
  <2>1. T \in SUBSET S /\ x \in T
    BY <1>1, <1>2
  <2> QED
    BY <2>1, FS_Subset
<1>4. PICK y \in T : \A c \in T : BlockNum[c] <= BlockNum[y]
  BY <1>3, BlockNumAssumption, GreatestOf
<1>5. PICK U : U = {c \in T : BlockNum[c] = BlockNum[y]}
  OBVIOUS
<1>6. U \in SUBSET Nat /\ U # {}
  BY <1>3, <1>4, <1>5, BlockAssumption
<1>7. PICK b \in U : \A c \in U : b <= c
  BY <1>6, LeastNatural
<1>8. b \in S /\ DposLib[b] = DposLib[x] /\ BlockNum[b] = BlockNum[y] /\ b \in Nat
  BY <1>2, <1>5, <1>6, <1>7
<1>9. ASSUME NEW c \in S \ {b}
      PROVE  IndexBefore(b, c)
  <2>1. c \in Block /\ c \in Nat /\ b \in Block /\ x \in Block /\ y \in Block
    BY <1>3, <1>8, BlockAssumption
  <2>2. /\ DposLib[c] \in Nat /\ DposLib[b] \in Nat
        /\ BlockNum[c] \in Nat /\ BlockNum[b] \in Nat
    BY <2>1, BlockNumAssumption, DposLibAssumption
  <2>3. DposLib[c] <= DposLib[b]
    BY <1>1, <1>8
  <2>4. CASE c \notin T
    <3>1. DposLib[c] # DposLib[b]
      BY <1>2, <1>8, <2>4
    <3> QED
      BY <2>2, <2>3, <3>1 DEF IndexBefore, FirstPreferred
  <2>5. CASE c \in T /\ c \notin U
    <3>1. DposLib[c] = DposLib[b] /\ BlockNum[c] # BlockNum[b] /\ BlockNum[c] <= BlockNum[b]
      BY <1>2, <1>4, <1>5, <1>8, <2>5
    <3> QED
      BY <2>2, <3>1 DEF IndexBefore, FirstPreferred
  <2>6. CASE c \in U
    <3>1. DposLib[c] = DposLib[b] /\ BlockNum[c] = BlockNum[b] /\ b <= c /\ b # c
      BY <1>2, <1>5, <1>7, <1>8, <2>6
    <3>2. b < c
      BY <1>8, <2>1, <3>1
    <3> QED
      BY <3>1, <3>2 DEF IndexBefore, SamePreference
  <2> QED
    BY <2>4, <2>5, <2>6
<1> QED
  BY <1>8, <1>9 DEF IsFirst

\* The block at the begin of by_lib_block_num.
LEMMA BestOfFinite ==
    ASSUME NEW S \in SUBSET Block, S # {}, IsFiniteSet(S)
    PROVE  /\ BestOf(S) \in S /\ IsFirst(BestOf(S), S)
           /\ \A c \in S : ~FirstPreferred(c, BestOf(S))
<1>1. \E b \in S : IsFirst(b, S)
  BY FirstExists
<1>2. BestOf(S) \in S /\ IsFirst(BestOf(S), S)
  BY <1>1 DEF BestOf
<1> QED
  BY <1>2, FirstIsBest

\* The index is finite, in memory and in the file.
FdbFinite == IsFiniteSet(index) /\ \A f \in saved : IsFiniteSet(f.index)

\* Every operation keeps it finite.
LEMMA FiniteNext == FdbFinite /\ [FdbNext]_fdbVars => FdbFinite'
<1> SUFFICES ASSUME FdbFinite, [FdbNext]_fdbVars
             PROVE  FdbFinite'
  OBVIOUS
<1>1. ASSUME NEW b \in Block, Add(b)
      PROVE  FdbFinite'
  <2>1. IsFiniteSet(index \cup {b})
    BY FS_AddElement DEF FdbFinite
  <2> QED
    BY <1>1, <2>1 DEF Add, FdbFinite
<1>2. ASSUME NEW b \in Block, MarkValid(b) \/ Remove(b) \/ AdvanceRoot(b)
      PROVE  FdbFinite'
  <2>1. index' \in SUBSET index /\ saved' = saved
    BY <1>2 DEF MarkValid, Remove, AdvanceRoot
  <2> QED
    BY <2>1, FS_Subset DEF FdbFinite
<1>3. ASSUME NEW b \in Block, Reset(b)
      PROVE  FdbFinite'
  BY <1>3, FS_EmptySet DEF Reset, FdbFinite
<1>4. CASE RollbackHeadToRoot \/ UNCHANGED fdbVars
  BY <1>4 DEF RollbackHeadToRoot, fdbVars, FdbFinite
<1>5. CASE Close
  BY <1>5, FS_EmptySet DEF Close, Contents, FdbFinite
<1>6. CASE Open
  BY <1>6 DEF Open, FdbFinite
<1> QED
  BY <1>1, <1>2, <1>3, <1>4, <1>5, <1>6 DEF FdbNext

\* The index starts empty.
LEMMA FiniteInit == FdbInit => FdbFinite
BY FS_EmptySet DEF FdbInit, FdbFinite

\* What pending_head() returns: the head, or an unvalidated block preferred to it.
LEMMA PendingHeadFacts ==
    ASSUME FdbInv, FdbFinite, IsOpen
    PROVE  /\ Known(PendingHead) /\ PendingHead \in Block
           /\ PendingHead = head \/ (PendingHead \in index /\ FirstPreferred(PendingHead, head))
           /\ \A b \in index : ~FirstPreferred(b, PendingHead)
<1>1. PICK U, u, n : U = index \ validated /\ u = BestOf(U) /\ n = PendingHead
  OBVIOUS
<1>2. /\ index \in SUBSET Block /\ U \in SUBSET Block /\ head \in Block /\ root \in Block
      /\ validated \in SUBSET index /\ U \in SUBSET index
  BY <1>1 DEF FdbInv, FdbTypeOK
<1>3. BestValidated(root, head, validated)
  BY DEF FdbInv, HeadIsBestValidated
<1>4. U # {} => u \in U /\ \A c \in U : ~FirstPreferred(c, u)
  <2>1. IsFiniteSet(U)
    BY <1>2, FS_Subset DEF FdbFinite
  <2> QED
    BY <1>1, <1>2, <2>1, BestOfFinite
<1>5. head \in index \cup {root} /\ \A v \in validated : ~FirstPreferred(v, head)
  BY <1>2, <1>3 DEF BestValidated
<1>6. n = IF U # {} /\ FirstPreferred(u, head) THEN u ELSE head
  BY <1>1 DEF PendingHead
<1>7. CASE U # {} /\ FirstPreferred(u, head)
  <2>1. n = u /\ u \in index /\ u \in Block
    BY <1>2, <1>4, <1>6, <1>7
  <2>2. ASSUME NEW b \in index
        PROVE  ~FirstPreferred(b, u)
    <3>1. CASE b \in U
      BY <1>4, <1>7, <3>1
    <3>2. CASE b \in validated
      BY <1>2, <1>5, <1>7, <2>1, <3>2, BlockNumAssumption, DposLibAssumption DEF FirstPreferred
    <3> QED
      BY <1>1, <3>1, <3>2
  <2> QED
    BY <1>1, <1>7, <2>1, <2>2 DEF Known
<1>8. CASE ~(U # {} /\ FirstPreferred(u, head))
  <2>1. n = head
    BY <1>6, <1>8
  <2>2. ASSUME NEW b \in index
        PROVE  ~FirstPreferred(b, head)
    <3>1. CASE b \in U
      <4>1. u \in Block /\ b \in Block /\ ~FirstPreferred(u, head) /\ ~FirstPreferred(b, u)
        BY <1>2, <1>4, <1>8, <3>1
      <4> QED
        BY <1>2, <4>1, BlockNumAssumption, DposLibAssumption DEF FirstPreferred
    <3>2. CASE b \in validated
      BY <1>5, <3>2
    <3> QED
      BY <1>1, <3>1, <3>2
  <2> QED
    BY <1>1, <1>2, <1>5, <2>1, <2>2 DEF Known
<1> QED
  BY <1>7, <1>8

\* pending_head() is always a best block of the whole index.
THEOREM PendingHeadAlwaysBest == FdbSpec => []PendingHeadIsBest
<1>1. FdbInv /\ FdbFinite => PendingHeadIsBest
  BY PendingHeadFacts DEF PendingHeadIsBest
<1>2. FdbSpec => []FdbFinite
  BY FiniteInit, FiniteNext, PTL DEF FdbSpec
<1> QED
  BY <1>1, <1>2, FdbInvHolds, PTL

-----------------------------------------------------------------------------
(* The steps of a push and of a fork switch. *)

\* mark_valid on a block that may be validated already is a step or a stutter
\* of the fork database.
LEMMA MarkValidOnceFdb ==
    ASSUME FdbTypeOK, NEW b, MarkValidOnce(b)
    PROVE  [FdbNext]_fdbVars
BY DEF MarkValidOnce, MarkValid, FdbTypeOK, FdbNext

\* push_block, maybe_switch_forks and what it calls.
LEMMA SwitchFdb ==
    ASSUME FdbTypeOK,
           \/ \E b \in Block : PushBlock(b) \/ RejectBlock(b)
           \/ MaybeSwitchForks \/ PopBlock \/ ApplyBlock \/ ApplyBlockThrows
           \/ UnapplyBlock \/ ReversalOfEmptyBranch \/ ReapplyBlock
    PROVE  [FdbNext]_fdbVars
<1>1. ASSUME NEW b \in Block, PushBlock(b)
      PROVE  [FdbNext]_fdbVars
  BY <1>1 DEF PushBlock, FdbNext
<1>2. ASSUME NEW b \in Block, RejectBlock(b)
      PROVE  [FdbNext]_fdbVars
  BY <1>2 DEF RejectBlock, vars
<1>3. CASE MaybeSwitchForks \/ PopBlock \/ UnapplyBlock \/ ReversalOfEmptyBranch \/ ReapplyBlock
  BY <1>3 DEF MaybeSwitchForks, PopBlock, UnapplyBlock, ReversalOfEmptyBranch, ReapplyBlock
<1>4. CASE ApplyBlock
  BY <1>4, MarkValidOnceFdb DEF ApplyBlock
<1>5. CASE ApplyBlockThrows
  <2>1. UNCHANGED fdbVars \/ \E b \in index : Remove(b)
    BY <1>5 DEF ApplyBlockThrows, Remove
  <2> QED
    BY <2>1 DEF FdbTypeOK, FdbNext
<1> QED
  BY <1>1, <1>2, <1>3, <1>4, <1>5

\* log_irreversible.
LEMMA LogFdb ==
    ASSUME FdbTypeOK,
           LogIrreversible \/ AppendBlock \/ AppendApplyThrows \/ AppendThrows \/ AdvanceToLogHead
    PROVE  [FdbNext]_fdbVars
<1>1. CASE LogIrreversible \/ AppendApplyThrows
  BY <1>1 DEF LogIrreversible, AppendApplyThrows
<1>2. CASE AppendBlock
  <2>1. PICK b \in NextOn(first, LogHead) : MarkValidOnce(b) \/ UNCHANGED fdbVars
    BY <1>2 DEF AppendBlock
  <2> QED
    BY <2>1, MarkValidOnceFdb
<1>3. CASE AppendThrows
  <2>1. PICK b \in NextOn(first, LogHead) : MarkValidOnce(b) \/ UNCHANGED fdbVars
    BY <1>3 DEF AppendThrows
  <2> QED
    BY <2>1, MarkValidOnceFdb
<1>4. CASE AdvanceToLogHead
  <2>1. AdvanceRoot(LogHead) \/ UNCHANGED fdbVars
    BY <1>4 DEF AdvanceToLogHead
  <2>2. AdvanceRoot(LogHead) => LogHead \in Block
    BY DEF AdvanceRoot, FdbTypeOK
  <2> QED
    BY <2>1, <2>2 DEF FdbNext
<1> QED
  BY <1>1, <1>2, <1>3, <1>4

\* Producing a block, stopping and starting.
LEMMA ProduceFdb ==
    ASSUME FdbTypeOK,
           \/ StartBlock \/ AbortBlock \/ (\E b \in Produced : CommitBlock(b))
           \/ CommitMarkValid \/ CommitPush \/ Shutdown \/ Startup
           \/ StartupHead \/ StartupChecks \/ StartupBestBranch
    PROVE  [FdbNext]_fdbVars
<1>1. ASSUME NEW b \in Produced, CommitBlock(b)
      PROVE  [FdbNext]_fdbVars
  BY <1>1, NodeAssumption DEF CommitBlock, FdbNext
<1>2. CASE CommitMarkValid
  <2>1. PICK b \in made : MarkValid(b)
    BY <1>2 DEF CommitMarkValid
  <2>2. b \in Block
    BY <2>1 DEF MarkValid, FdbTypeOK
  <2> QED
    BY <2>1, <2>2 DEF FdbNext
<1>3. CASE StartBlock \/ AbortBlock \/ CommitPush \/ StartupChecks \/ StartupBestBranch
  BY <1>3 DEF StartBlock, AbortBlock, CommitPush, StartupChecks, StartupBestBranch
<1>4. CASE Shutdown \/ Startup \/ StartupHead
  BY <1>4 DEF Shutdown, Startup, StartupHead, FdbNext
<1> QED
  BY <1>1, <1>2, <1>3, <1>4

\* A crash, which loses the fork database, and the replay after it.
LEMMA ReplayFdb ==
    ASSUME FdbTypeOK,
           Crash \/ StartupGenesis \/ ReplayIrreversible \/ ReplayReversible \/ ReplayEnds
    PROVE  [FdbNext]_fdbVars
<1>1. CASE Crash
  BY <1>1, BlockAssumption DEF Crash, FdbNext
<1>2. CASE StartupGenesis \/ ReplayEnds
  BY <1>2 DEF StartupGenesis, ReplayEnds, FdbNext
<1>3. CASE ReplayIrreversible
  <2>1. PICK b \in Block : Reset(b) \/ UNCHANGED fdbVars
    BY <1>3 DEF ReplayIrreversible
  <2> QED
    BY <2>1 DEF FdbNext
<1>4. CASE ReplayReversible
  <2>1. PICK b \in Block : Add(b) \/ UNCHANGED fdbVars
    BY <1>4 DEF ReplayReversible
  <2> QED
    BY <2>1 DEF FdbNext
<1> QED
  BY <1>1, <1>2, <1>3, <1>4

\* Every step of the node is a step or a stutter of its fork database.
LEMMA StepIsFdbStep == FdbTypeOK /\ [Next]_vars => [FdbNext]_fdbVars
<1> SUFFICES ASSUME FdbTypeOK, [Next]_vars
             PROVE  [FdbNext]_fdbVars
  OBVIOUS
<1>1. CASE UNCHANGED vars
  BY <1>1 DEF vars
<1>2. CASE Next
  BY <1>2, SwitchFdb, LogFdb, ProduceFdb, ReplayFdb DEF Next, Step
<1> QED
  BY <1>1, <1>2

-----------------------------------------------------------------------------
\* In a running node the fork database's inductive invariant holds: no call of
\* the controller, whether it returns or throws, breaks it.
THEOREM NodeFdbInv == Spec => []FdbInv
<1>1. Init => FdbInv
  BY FdbInitInv DEF Init
<1>2. FdbInv /\ [Next]_vars => FdbInv'
  BY StepIsFdbStep, FdbNextInv DEF FdbInv
<1> QED
  BY <1>1, <1>2, PTL DEF Spec

\* What holds of the fork database's own specification holds in a node.
LEMMA NodeIsFdb == Spec => FdbSpec
<1>1. Init => FdbInit
  BY DEF Init
<1>2. FdbInv /\ [Next]_vars => [FdbNext]_fdbVars
  BY StepIsFdbStep DEF FdbInv
<1> QED
  BY <1>1, <1>2, NodeFdbInv, PTL DEF Spec, FdbSpec

\* A node stopped at any time between calls can open the fork_db.dat it has
\* written.
THEOREM NodeReopens == Spec => []ReopenSucceeds
BY NodeIsFdb, AlwaysReopens, PTL

-----------------------------------------------------------------------------
(***************************************************************************)
(* Type correctness.  The members that hold sequences keep their type only *)
(* because of what relates them: kv_db.commit drops a prefix of the undo   *)
(* stack whose length is the distance of two block numbers, init() keeps   *)
(* one, and both are within the stack only when the committed revision is  *)
(* the block log's head at that point of the call.                         *)
(***************************************************************************)
CallerSet == {"none", "push", "commit", "startup", "replay"}

PcSet ==
    {"idle", "switch", "pop", "apply", "unapply", "log", "append", "advance",
     "mark", "push", "down", "startup", "init", "best", "replaylog", "replay",
     "failed", "crashed"}

\* The types of the stores and of the head.
StateTypes ==
    /\ chead \in Block /\ base \in Block
    /\ undo \in Seq(Block)
    /\ blog \in Seq(Block) /\ blog # <<>>
    /\ rev \subseteq Block /\ IsFiniteSet(rev)
    /\ pending \in BOOLEAN /\ rate \in Rate /\ mode \in Modes
    /\ failures \in 0..MaxAppendFailures

\* The types of the call in progress.
CallTypes ==
    /\ first \subseteq Block /\ second \subseteq Block
    /\ made \subseteq Produced
    /\ thrown \in BOOLEAN
    /\ caller \in CallerSet
    /\ pc \in PcSet

\* The block log holds one block of every number from the genesis block's on.
LogInv ==
    /\ blog[1] = Genesis
    /\ \A i \in 1..Len(blog) : BlockNum[blog[i]] = BlockNum[Genesis] + i - 1

\* What each stage of a call or of a start relies on.
StageInv ==
    /\ pc # "down" => saved = {}
    /\ pc = "append" => first \subseteq index
    /\ Serving \/ (pc = "down" /\ saved # {}) => base = LogHead
    /\ pc \in {"startup", "init"} =>
         \/ caller = "startup" /\ base = LogHead
         \/ caller = "replay" /\ chead = Genesis /\ base = Genesis
    /\ pc = "replaylog" => caller = "replay"

BaseInv == FdbInv /\ FdbFinite /\ StateTypes /\ CallTypes /\ LogInv /\ StageInv

-----------------------------------------------------------------------------
(* Sequences, branches and block numbers. *)

\* The last element of a sequence of blocks.
LEMMA LastOfSeq ==
    ASSUME NEW s \in Seq(Block), s # <<>>
    PROVE  SeqExt!Last(s) = s[Len(s)] /\ SeqExt!Last(s) \in Block /\ Len(s) \in Nat \ {0}
BY DEF SeqExt!Last

\* Appending makes the block the last one.
LEMMA LastOfAppend ==
    ASSUME NEW s \in Seq(Block), NEW b \in Block
    PROVE  /\ SeqExt!Last(Append(s, b)) = b
           /\ Append(s, b) \in Seq(Block) /\ Append(s, b) # <<>>
BY DEF SeqExt!Last

\* Taking the last element away, unless there is none.
LEMMA FrontOfSeq ==
    ASSUME NEW s \in Seq(Block)
    PROVE  (IF s = <<>> THEN s ELSE SeqExt!Front(s)) \in Seq(Block)
BY DEF SeqExt!Front

\* A part of a sequence, from m on and up to n, within it.
LEMMA PartOfSeq ==
    ASSUME NEW s \in Seq(Block), NEW m \in Int, NEW n \in Int, m >= 1, n <= Len(s)
    PROVE  SubSeq(s, m, n) \in Seq(Block)
BY SubSeqProperties

\* fetch_branch returns blocks of the index.
LEMMA FetchBranchInIndex ==
    ASSUME NEW h \in Block, NEW n
    PROVE  FetchBranch(h, n) \subseteq index /\ FetchBranch(h, n) \subseteq Ancestors[h]
<1>1. \A a \in Ancestors[h] : a \in Block /\ BlockNum[a] \in Nat
  BY AncestorsSelf, BlockNumAssumption
<1> QED
  BY <1>1 DEF FetchBranch

\* The last block logged is the only one of its number in the log, and the
\* genesis block when its number is the genesis block's.
LEMMA LogHeadNum ==
    ASSUME StateTypes, LogInv
    PROVE  /\ LogHead \in Block /\ BlockNum[LogHead] \in Nat /\ BlockNum[Genesis] \in Nat
           /\ BlockNum[LogHead] >= BlockNum[Genesis]
           /\ BlockNum[LogHead] = BlockNum[Genesis] => LogHead = Genesis
<1>1. LogHead = blog[Len(blog)] /\ LogHead \in Block /\ Len(blog) \in Nat \ {0}
  BY LastOfSeq DEF StateTypes, LogHead
<1>2. BlockNum[LogHead] \in Nat /\ BlockNum[Genesis] \in Nat
  BY <1>1, BlockAssumption, BlockNumAssumption
<1>3. BlockNum[LogHead] = BlockNum[Genesis] + Len(blog) - 1
  BY <1>1 DEF LogInv
<1>4. CASE Len(blog) = 1
  BY <1>1, <1>2, <1>3, <1>4 DEF LogInv
<1>5. CASE Len(blog) > 1
  BY <1>1, <1>2, <1>3, <1>5
<1>6. Len(blog) = 1 \/ Len(blog) > 1
  BY <1>1
<1> QED
  BY <1>4, <1>5, <1>6

\* Logging the next block keeps the numbering.
LEMMA LogGrows ==
    ASSUME StateTypes, LogInv, NEW b \in Block \ {Genesis}, Prev[b] = LogHead,
           blog' = Append(blog, b)
    PROVE  LogInv' /\ blog' \in Seq(Block) /\ blog' # <<>> /\ LogHead' = b
<1>1. LogHead = blog[Len(blog)] /\ LogHead \in Block /\ Len(blog) \in Nat \ {0}
  BY LastOfSeq DEF StateTypes, LogHead
<1>2. blog' \in Seq(Block) /\ blog' # <<>> /\ LogHead' = b
  BY LastOfAppend DEF StateTypes, LogHead
<1>3. BlockNum[b] = BlockNum[LogHead] + 1 /\ BlockNum[LogHead] \in Nat /\ BlockNum[Genesis] \in Nat
  BY <1>1, BlockAssumption, BlockNumAssumption
<1>4. BlockNum[LogHead] = BlockNum[Genesis] + Len(blog) - 1
  BY <1>1 DEF LogInv
<1>5. Len(blog') = Len(blog) + 1 /\ blog'[Len(blog) + 1] = b
      /\ \A i \in 1..Len(blog) : blog'[i] = blog[i]
  BY DEF StateTypes
<1>6. blog'[1] = Genesis
  BY <1>1, <1>5 DEF LogInv
<1>7. ASSUME NEW i \in 1..Len(blog')
      PROVE  BlockNum[blog'[i]] = BlockNum[Genesis] + i - 1
  <2>1. CASE i \in 1..Len(blog)
    BY <2>1, <1>5 DEF LogInv
  <2>2. CASE i = Len(blog) + 1
    <3>1. BlockNum[blog'[i]] = BlockNum[LogHead] + 1
      BY <2>2, <1>3, <1>5
    <3> QED
      BY <3>1, <2>2, <1>1, <1>3, <1>4
  <2> QED
    BY <2>1, <2>2, <1>1, <1>5
<1> QED
  BY <1>2, <1>6, <1>7 DEF LogInv

\* Continuing a call changes none of its variables but the next step.
LEMMA ContinueTypes ==
    ASSUME CallTypes, NEW p \in PcSet, Continue(p)
    PROVE  CallTypes'
BY DEF CallTypes, Continue, callVars

\* Where a top-level call that ends may lead.
LEMMA ReturnTypes ==
    ASSUME CallTypes, Return \/ Throw
    PROVE  CallTypes' /\ pc' \in {"idle", "failed", "best", "replay"}
<1>1. pc' \in {"idle", "failed", "best", "replay"}
  BY DEF Return, Throw
<1>2. caller' \in CallerSet
  BY DEF Return, Throw, CallTypes, CallerSet
<1> QED
  BY <1>1, <1>2 DEF Return, Throw, CallTypes, PcSet

\* A step of a running node that neither logs nor commits keeps StageInv.
LEMMA StageKept ==
    ASSUME StageInv, Serving, UNCHANGED <<base, blog, saved>>,
           pc' \notin {"down", "startup", "init", "append", "replaylog"}
    PROVE  StageInv'
BY DEF StageInv, Serving, LogHead

-----------------------------------------------------------------------------
(* The steps of the thread keep BaseInv. *)

\* The part of BaseInv beyond the fork database.
NodeTypes == StateTypes /\ CallTypes /\ LogInv /\ StageInv

\* push_block and producing a block.
LEMMA TopLevelTypes ==
    ASSUME BaseInv,
           \/ \E b \in Block : PushBlock(b) \/ RejectBlock(b)
           \/ StartBlock \/ AbortBlock
           \/ \E b \in Produced : CommitBlock(b)
    PROVE  NodeTypes'
<1>1. ASSUME NEW b \in Block, PushBlock(b)
      PROVE  NodeTypes'
  <2>1. StateTypes'
    BY <1>1 DEF PushBlock, BaseInv, StateTypes
  <2>2. CallTypes'
    BY <1>1 DEF PushBlock, BaseInv, CallTypes, CallerSet, PcSet
  <2>3. LogInv'
    BY <1>1 DEF PushBlock, BaseInv, LogInv
  <2>4. StageInv'
    <3>1. Serving /\ UNCHANGED <<base, blog, saved>> /\ pc' \in {"log", "switch"}
      BY <1>1 DEF PushBlock, Serving, Add
    <3> QED
      BY <3>1, StageKept DEF BaseInv
  <2> QED
    BY <2>1, <2>2, <2>3, <2>4 DEF NodeTypes
<1>2. ASSUME UNCHANGED vars
      PROVE  NodeTypes'
  BY <1>2 DEF vars, ctlVars, callVars, fdbVars, BaseInv, NodeTypes, StateTypes, CallTypes, LogInv,
     StageInv, Serving, LogHead
<1>3. CASE StartBlock \/ AbortBlock
  <2>1. StateTypes'
    BY <1>3 DEF StartBlock, AbortBlock, BaseInv, StateTypes
  <2>2. CallTypes'
    BY <1>3 DEF StartBlock, AbortBlock, callVars, BaseInv, CallTypes
  <2>3. LogInv'
    BY <1>3 DEF StartBlock, AbortBlock, BaseInv, LogInv
  <2>4. StageInv'
    <3>1. Serving /\ UNCHANGED <<base, blog, saved>> /\ pc' = "idle"
      BY <1>3 DEF StartBlock, AbortBlock, Serving, fdbVars
    <3> QED
      BY <3>1, StageKept DEF BaseInv
  <2> QED
    BY <2>1, <2>2, <2>3, <2>4 DEF NodeTypes
<1>4. ASSUME NEW b \in Produced, CommitBlock(b)
      PROVE  NodeTypes'
  <2>1. StateTypes'
    <3>1. b \in Block /\ ActiveRate[b] \in Rate
      BY NodeAssumption, RateAssumption
    <3> QED
      BY <1>4, <3>1 DEF CommitBlock, BaseInv, StateTypes
  <2>2. CallTypes'
    BY <1>4 DEF CommitBlock, BaseInv, CallTypes, CallerSet, PcSet
  <2>3. LogInv'
    BY <1>4 DEF CommitBlock, BaseInv, LogInv
  <2>4. StageInv'
    <3>1. Serving /\ UNCHANGED <<base, blog, saved>> /\ pc' = "mark"
      BY <1>4 DEF CommitBlock, Serving, Add
    <3> QED
      BY <3>1, StageKept DEF BaseInv
  <2> QED
    BY <2>1, <2>2, <2>3, <2>4 DEF NodeTypes
<1> QED
  BY <1>1, <1>2, <1>3, <1>4 DEF RejectBlock

\* The pending head is a block while the fork database is open.
LEMMA PendingHeadBlock ==
    ASSUME BaseInv, pc # "down"
    PROVE  PendingHead \in Block
BY PendingHeadFacts DEF BaseInv, StageInv, IsOpen

\* A pop keeps the types: the predecessor it asserts to find is a block.
LEMMA PoppedTypes ==
    ASSUME FdbInv, StateTypes, PoppedHead, UNCHANGED <<pending, blog, mode, failures>>
    PROVE  StateTypes'
<1>1. chead' \in Block
  BY DEF PoppedHead, Known, FdbInv, FdbTypeOK
<1>2. undo' \in Seq(Block)
  BY FrontOfSeq DEF PoppedHead, StateTypes
<1>3. rev' \subseteq Block /\ IsFiniteSet(rev')
  BY FS_Subset DEF PoppedHead, StateTypes
<1> QED
  BY <1>1, <1>2, <1>3 DEF PoppedHead, StateTypes

\* So does an application.
LEMMA AppliedTypes ==
    ASSUME StateTypes, NEW b \in Block, Applied(b), chead' = b,
           UNCHANGED <<pending, blog, mode>>, failures' \in 0..MaxAppendFailures
    PROVE  StateTypes'
<1>1. undo' \in Seq(Block)
  BY LastOfAppend DEF Applied, StateTypes
<1>2. rate' \in Rate
  BY RateAssumption DEF Applied
<1>3. rev' \subseteq Block /\ IsFiniteSet(rev')
  BY FS_AddElement DEF Applied, StateTypes
<1> QED
  BY <1>1, <1>2, <1>3 DEF Applied, StateTypes

\* maybe_switch_forks.
LEMMA SwitchTypes ==
    ASSUME BaseInv,
           \/ MaybeSwitchForks \/ PopBlock \/ ApplyBlock \/ ApplyBlockThrows
           \/ UnapplyBlock \/ ReversalOfEmptyBranch \/ ReapplyBlock
    PROVE  NodeTypes'
<1>1. Serving /\ pc # "down" /\ blog' = blog /\ base' = base /\ saved' = saved
  <2>1. Serving /\ pc # "down"
    BY DEF MaybeSwitchForks, PopBlock, ApplyBlock, ApplyBlockThrows, UnapplyBlock,
       ReversalOfEmptyBranch, ReapplyBlock, Serving
  <2>2. blog' = blog
    BY DEF MaybeSwitchForks, PopBlock, ApplyBlock, ApplyBlockThrows, UnapplyBlock,
       ReversalOfEmptyBranch, ReapplyBlock
  <2>3. base' = base
    BY DEF MaybeSwitchForks, PopBlock, ApplyBlock, ApplyBlockThrows, UnapplyBlock,
       ReversalOfEmptyBranch, ReapplyBlock, PoppedHead, Applied
  <2>4. saved' = saved
    BY DEF MaybeSwitchForks, PopBlock, ApplyBlock, ApplyBlockThrows, UnapplyBlock,
       ReversalOfEmptyBranch, ReapplyBlock, fdbVars, MarkValidOnce, MarkValid, Remove
  <2> QED
    BY <2>1, <2>2, <2>3, <2>4
<1>2. LogInv'
  BY <1>1 DEF BaseInv, LogInv
<1>3. StateTypes'
  <2>1. CASE MaybeSwitchForks \/ ApplyBlockThrows \/ ReversalOfEmptyBranch
    BY <2>1 DEF MaybeSwitchForks, ApplyBlockThrows, ReversalOfEmptyBranch, BaseInv, StateTypes
  <2>2. CASE PopBlock \/ UnapplyBlock
    BY <2>2, PoppedTypes DEF PopBlock, UnapplyBlock, BaseInv
  <2>3. CASE ApplyBlock
    <3>1. PICK b \in NextOn(first, chead) : Applied(b) /\ chead' = b
      BY <2>3 DEF ApplyBlock
    <3>2. b \in Block
      BY DEF NextOn, BaseInv, CallTypes
    <3>3. UNCHANGED <<pending, blog, mode>> /\ failures' \in 0..MaxAppendFailures
      BY <2>3 DEF ApplyBlock, BaseInv, StateTypes
    <3> QED
      BY <3>1, <3>2, <3>3, AppliedTypes DEF BaseInv
  <2>4. CASE ReapplyBlock
    <3>1. PICK b \in NextOn(second, chead) :
             (Applied(b) /\ chead' = b) \/ UNCHANGED <<chead, base, undo, rev, rate>>
      BY <2>4 DEF ReapplyBlock
    <3>2. b \in Block
      BY DEF NextOn, BaseInv, CallTypes
    <3>3. UNCHANGED <<pending, blog, mode, failures>> /\ failures' \in 0..MaxAppendFailures
      BY <2>4 DEF ReapplyBlock, BaseInv, StateTypes
    <3>4. CASE Applied(b) /\ chead' = b
      BY <3>4, <3>2, <3>3, AppliedTypes DEF BaseInv
    <3>5. CASE UNCHANGED <<chead, base, undo, rev, rate>>
      BY <3>5, <3>3 DEF BaseInv, StateTypes
    <3> QED
      BY <3>1, <3>4, <3>5
  <2> QED
    BY <2>1, <2>2, <2>3, <2>4
<1>4. CallTypes' /\ pc' \notin {"down", "startup", "init", "append", "replaylog"}
  <2> USE DEF BaseInv
  <2>1. CASE MaybeSwitchForks
    <3>1. CASE Return
      BY <3>1, ReturnTypes
    <3>2. CASE /\ first' = Ancestors[PendingHead] \ Ancestors[chead]
               /\ second' = Ancestors[chead] \ Ancestors[PendingHead]
               /\ pc' = IF second' = {} THEN "apply" ELSE "pop"
               /\ UNCHANGED <<made, caller, thrown>>
      <4>1. PendingHead \in Block /\ chead \in Block
        BY <1>1, PendingHeadBlock DEF StateTypes
      <4>2. first' \subseteq Block /\ second' \subseteq Block
        BY <3>2, <4>1, AncestorsSelf
      <4> QED
        BY <3>2, <4>2 DEF CallTypes, PcSet
    <3> QED
      BY <2>1, <3>1, <3>2 DEF MaybeSwitchForks
  <2>2. CASE PopBlock
    <3>1. PICK p \in {"pop", "apply"} : Continue(p)
      BY <2>2 DEF PopBlock
    <3> QED
      BY <3>1, ContinueTypes DEF PcSet, Continue
  <2>3. CASE ApplyBlock
    <3>1. PICK p \in {"log", "apply"} : Continue(p)
      BY <2>3 DEF ApplyBlock
    <3> QED
      BY <3>1, ContinueTypes DEF PcSet, Continue
  <2>4. CASE ApplyBlockThrows \/ UnapplyBlock \/ ReversalOfEmptyBranch \/ ReapplyBlock
    <3>1. Throw \/ Continue("unapply") \/ Continue("crashed")
      BY <2>4 DEF ApplyBlockThrows, UnapplyBlock, ReversalOfEmptyBranch, ReapplyBlock
    <3>2. CASE Throw
      BY <3>2, ReturnTypes
    <3>3. CASE Continue("unapply") \/ Continue("crashed")
      BY <3>3, ContinueTypes DEF PcSet, Continue
    <3> QED
      BY <3>1, <3>2, <3>3
  <2> QED
    BY <2>1, <2>2, <2>3, <2>4
<1>5. StageInv'
  BY <1>1, <1>4, StageKept DEF BaseInv
<1> QED
  BY <1>2, <1>3, <1>4, <1>5 DEF NodeTypes

\* log_irreversible.
LEMMA LogTypes ==
    ASSUME BaseInv,
           LogIrreversible \/ AppendBlock \/ AppendApplyThrows \/ AppendThrows \/ AdvanceToLogHead
    PROVE  NodeTypes'
<1>1. Serving /\ pc # "down" /\ saved' = saved
  <2>1. Serving /\ pc # "down"
    BY DEF LogIrreversible, AppendBlock, AppendApplyThrows, AppendThrows, AdvanceToLogHead, Serving
  <2>2. saved' = saved
    BY DEF LogIrreversible, AppendBlock, AppendApplyThrows, AppendThrows, AdvanceToLogHead,
       fdbVars, MarkValidOnce, MarkValid, AdvanceRoot
  <2> QED
    BY <2>1, <2>2
<1>2. CASE LogIrreversible
  <2>1. StateTypes' /\ LogInv'
    BY <1>2 DEF LogIrreversible, BaseInv, StateTypes, LogInv
  <2>2. CASE LogReturns
    <3>1. CallTypes' /\ pc' \in {"push", "idle", "failed", "best", "replay"}
      BY <2>2, ReturnTypes, ContinueTypes DEF LogReturns, BaseInv, Continue, PcSet
    <3>2. StageInv'
      BY <1>2, <1>1, <3>1, StageKept DEF BaseInv, LogIrreversible
    <3> QED
      BY <2>1, <3>1, <3>2 DEF NodeTypes
  <2>3. CASE ~LogReturns
    <3>1. PICK h, n : /\ h = IF mode = "irreversible" THEN PendingHead ELSE head
                      /\ n = DposLib[h]
      OBVIOUS
    <3>2. first' = FetchBranch(h, n) /\ pc' = "append" /\ UNCHANGED <<second, made, caller, thrown>>
      BY <1>2, <2>3, <3>1 DEF LogIrreversible
    <3>3. h \in Block
      BY <3>1, <1>1, PendingHeadBlock DEF BaseInv, FdbInv, FdbTypeOK
    <3>4. first' \subseteq index /\ first' \subseteq Block
      BY <3>2, <3>3, FetchBranchInIndex DEF BaseInv, FdbInv, FdbTypeOK
    <3>5. CallTypes'
      BY <3>2, <3>4 DEF BaseInv, CallTypes, PcSet
    <3>6. StageInv'
      <4>1. UNCHANGED <<base, blog, index>>
        BY <1>2 DEF LogIrreversible, fdbVars
      <4> QED
        BY <4>1, <1>1, <3>2, <3>4 DEF BaseInv, StageInv, Serving, LogHead
    <3> QED
      BY <2>1, <3>5, <3>6 DEF NodeTypes
  <2> QED
    BY <2>2, <2>3
<1>3. CASE AppendBlock
  <2>1. PICK b \in NextOn(first, LogHead) :
           /\ Logged(b)
           /\ \/ /\ chead' = b /\ rate' = ActiveRate[b] /\ base' = b /\ undo' = <<>>
                 /\ MarkValidOnce(b)
              \/ Committed(b) /\ UNCHANGED <<fdbVars, chead, rate>>
    BY <1>3 DEF AppendBlock
  <2>2. b \in Block \ {Genesis} /\ Prev[b] = LogHead /\ first \subseteq index
    BY <1>3 DEF NextOn, AppendBlock, BaseInv, StageInv, FdbInv, FdbTypeOK
  <2>3. LogInv' /\ blog' \in Seq(Block) /\ blog' # <<>> /\ LogHead' = b
    BY <2>1, <2>2, LogGrows DEF Logged, BaseInv
  <2>4. base' = b
    BY <2>1 DEF Committed
  <2>5. undo' \in Seq(Block)
    <3>1. CASE Committed(b)
      <4>1. base = LogHead
        BY <1>1 DEF BaseInv, StageInv
      <4>2. LogHead \in Block /\ BlockNum[LogHead] \in Nat
        BY LogHeadNum DEF BaseInv
      <4>3. BlockNum[b] = BlockNum[base] + 1 /\ BlockNum[base] \in Nat
        BY <2>2, <4>1, <4>2, BlockNumAssumption
      <4>4. undo \in Seq(Block) /\ Len(undo) \in Nat
        BY DEF BaseInv, StateTypes
      <4>5. SubSeq(undo, BlockNum[b] - BlockNum[base] + 1, Len(undo)) \in Seq(Block)
        BY <4>3, <4>4, PartOfSeq
      <4> QED
        BY <4>5, <3>1 DEF Committed
    <3>2. CASE undo' = <<>>
      BY <3>2
    <3> QED
      BY <2>1, <3>1, <3>2
  <2>6. chead' \in Block /\ rate' \in Rate
    BY <2>1, <2>2, RateAssumption DEF BaseInv, StateTypes
  <2>7. rev' \subseteq Block /\ IsFiniteSet(rev')
    BY <2>1, FS_Subset DEF Logged, BaseInv, StateTypes
  <2>8. StateTypes'
    BY <1>3, <2>2, <2>3, <2>4, <2>5, <2>6, <2>7 DEF AppendBlock, BaseInv, StateTypes
  <2>9. CallTypes' /\ pc' \in {"advance", "append"} /\ first' = first
    BY <2>1, ContinueTypes DEF Logged, BaseInv, Continue, PcSet, callVars
  <2>10. index' = index
    BY <2>1 DEF MarkValidOnce, MarkValid, fdbVars
  <2>11. StageInv'
    BY <1>1, <2>2, <2>3, <2>4, <2>9, <2>10 DEF BaseInv, StageInv, Serving
  <2> QED
    BY <2>3, <2>8, <2>9, <2>11 DEF NodeTypes
<1>4. CASE AppendApplyThrows
  <2>1. StateTypes' /\ LogInv'
    BY <1>4 DEF AppendApplyThrows, BaseInv, StateTypes, LogInv
  <2>2. CallTypes'
    BY <1>4 DEF AppendApplyThrows, BaseInv, CallTypes, PcSet
  <2>3. StageInv'
    BY <1>4, <1>1, StageKept DEF BaseInv, AppendApplyThrows
  <2> QED
    BY <2>1, <2>2, <2>3 DEF NodeTypes
<1>5. CASE AppendThrows
  <2>1. PICK b \in NextOn(first, LogHead) :
           \/ Applied(b) /\ chead' = b
           \/ UNCHANGED <<chead, base, undo, rev, rate>>
    BY <1>5 DEF AppendThrows
  <2>2. b \in Block
    BY DEF NextOn, BaseInv, CallTypes
  <2>3. failures' \in 0..MaxAppendFailures
    BY <1>5, NodeAssumption DEF AppendThrows, BaseInv, StateTypes
  <2>4. UNCHANGED <<pending, blog, mode>>
    BY <1>5 DEF AppendThrows
  <2>5. StateTypes'
    <3>1. CASE Applied(b) /\ chead' = b
      BY <3>1, <2>2, <2>3, <2>4, AppliedTypes DEF BaseInv
    <3>2. CASE UNCHANGED <<chead, base, undo, rev, rate>>
      BY <3>2, <2>3, <2>4 DEF BaseInv, StateTypes
    <3> QED
      BY <2>1, <3>1, <3>2
  <2>6. LogInv'
    BY <2>4 DEF BaseInv, LogInv
  <2>7. CallTypes' /\ pc' = "advance"
    BY <1>5 DEF AppendThrows, BaseInv, CallTypes, PcSet
  <2>8. base' = base
    BY <2>1 DEF Applied
  <2>9. StageInv'
    BY <1>1, <2>4, <2>7, <2>8, StageKept DEF BaseInv
  <2> QED
    BY <2>5, <2>6, <2>7, <2>9 DEF NodeTypes
<1>6. CASE AdvanceToLogHead
  <2>1. StateTypes' /\ LogInv'
    BY <1>6 DEF AdvanceToLogHead, LogThrows, BaseInv, StateTypes, LogInv
  <2>2. CallTypes' /\ pc' \in {"push", "idle", "failed", "best", "replay"}
    <3>1. Throw \/ Return \/ Continue("push")
      <4>1. CASE thrown
        BY <1>6, <4>1 DEF AdvanceToLogHead, LogThrows
      <4>2. CASE ~thrown
        BY <1>6, <4>2 DEF AdvanceToLogHead, LogReturns
      <4> QED
        BY <4>1, <4>2
    <3>2. "push" \in PcSet /\ CallTypes
      BY DEF PcSet, BaseInv
    <3> QED
      BY <3>1, <3>2, ReturnTypes, ContinueTypes DEF Continue
  <2>3. StageInv'
    BY <1>6, <1>1, <2>2, StageKept DEF BaseInv, AdvanceToLogHead
  <2> QED
    BY <2>1, <2>2, <2>3 DEF NodeTypes
<1> QED
  BY <1>2, <1>3, <1>4, <1>5, <1>6

\* commit_block(true) after fork_db.add.
LEMMA CommitTypes ==
    ASSUME BaseInv, CommitMarkValid \/ CommitPush
    PROVE  NodeTypes'
<1>1. Serving /\ UNCHANGED <<base, blog, saved>>
  BY DEF CommitMarkValid, CommitPush, Serving, MarkValid, fdbVars
<1>2. LogInv'
  BY <1>1 DEF BaseInv, LogInv
<1>3. CASE CommitMarkValid
  <2>1. PICK b \in made :
           /\ MarkValid(b)
           /\ chead' = head'
           /\ \/ rev' = rev \cup {b} /\ Continue("log") /\ UNCHANGED pending
              \/ Throw /\ pending' = FALSE /\ UNCHANGED rev
    BY <1>3 DEF CommitMarkValid
  <2>2. b \in Block /\ head' \in Block
    <3>1. b \in index /\ index \subseteq Block
      BY <2>1 DEF MarkValid, BaseInv, FdbInv, FdbTypeOK
    <3>2. FdbNext
      BY <2>1, <3>1 DEF FdbNext
    <3>3. FdbInv'
      BY <3>2, FdbNextInv DEF BaseInv
    <3> QED
      BY <3>1, <3>3 DEF FdbInv, FdbTypeOK
  <2>3. rev' \subseteq Block /\ IsFiniteSet(rev')
    BY <2>1, <2>2, FS_AddElement DEF BaseInv, StateTypes
  <2>4. StateTypes'
    BY <1>3, <2>1, <2>2, <2>3 DEF CommitMarkValid, BaseInv, StateTypes
  <2>5. CallTypes' /\ pc' \in {"log", "idle", "failed", "best", "replay"}
    <3>1. "log" \in PcSet /\ CallTypes
      BY DEF PcSet, BaseInv
    <3> QED
      BY <2>1, <3>1, ReturnTypes, ContinueTypes DEF Continue
  <2>6. StageInv'
    BY <1>1, <2>5, StageKept DEF BaseInv
  <2> QED
    BY <1>2, <2>4, <2>5, <2>6 DEF NodeTypes
<1>4. CASE CommitPush
  <2>1. PICK b \in made : undo' = Append(undo, b)
    BY <1>4 DEF CommitPush
  <2>2. b \in Block
    BY NodeAssumption DEF BaseInv, CallTypes
  <2>3. undo' \in Seq(Block)
    BY <2>1, <2>2, LastOfAppend DEF BaseInv, StateTypes
  <2>4. StateTypes'
    BY <1>4, <2>3 DEF CommitPush, BaseInv, StateTypes
  <2>5. CallTypes' /\ pc' \in {"idle", "failed", "best", "replay"}
    BY <1>4, ReturnTypes DEF CommitPush, BaseInv
  <2>6. StageInv'
    BY <1>1, <2>5, StageKept DEF BaseInv
  <2> QED
    BY <1>2, <2>4, <2>5, <2>6 DEF NodeTypes
<1> QED
  BY <1>3, <1>4

\* Stopping, crashing and opening the stores again.
LEMMA RestartTypes ==
    ASSUME BaseInv, Shutdown \/ Crash \/ Startup \/ StartupGenesis
    PROVE  NodeTypes'
<1>1. CASE Shutdown
  <2>1. StateTypes' /\ LogInv'
    BY <1>1 DEF Shutdown, BaseInv, StateTypes, LogInv
  <2>2. CallTypes'
    BY <1>1 DEF Shutdown, BaseInv, CallTypes, PcSet
  <2>3. StageInv'
    BY <1>1 DEF Shutdown, Close, BaseInv, StageInv, Serving, LogHead
  <2> QED
    BY <2>1, <2>2, <2>3 DEF NodeTypes
<1>2. CASE Crash
  <2>1. LogInv' /\ blog' \in Seq(Block) /\ blog' # <<>>
    <3>1. CASE blog' = blog
      BY <3>1 DEF BaseInv, LogInv, StateTypes
    <3>2. CASE pc = "append" /\ \E b \in NextOn(first, LogHead) : blog' = Append(blog, b)
      <4>1. PICK b \in NextOn(first, LogHead) : blog' = Append(blog, b)
        BY <3>2
      <4>2. b \in Block \ {Genesis} /\ Prev[b] = LogHead
        BY <3>2 DEF NextOn, BaseInv, StageInv, FdbInv, FdbTypeOK
      <4> QED
        BY <4>1, <4>2, LogGrows DEF BaseInv
    <3> QED
      BY <1>2, <3>1, <3>2 DEF Crash
  <2>2. StateTypes'
    BY <1>2, <2>1 DEF Crash, BaseInv, StateTypes
  <2>3. CallTypes'
    BY <1>2 DEF Crash, BaseInv, CallTypes, CallerSet, PcSet
  <2>4. StageInv'
    BY <1>2 DEF Crash, Reset, IsOpen, StageInv, Serving
  <2> QED
    BY <2>1, <2>2, <2>3, <2>4 DEF NodeTypes
<1>3. CASE Startup
  <2>1. StateTypes' /\ LogInv'
    BY <1>3, RateAssumption DEF Startup, BaseInv, StateTypes, LogInv
  <2>2. CallTypes'
    BY <1>3 DEF Startup, BaseInv, CallTypes, CallerSet, PcSet
  <2>3. StageInv'
    <3>1. saved # {} /\ saved' = {}
      BY <1>3 DEF Startup, Open
    <3> QED
      BY <1>3, <3>1 DEF Startup, BaseInv, StageInv, Serving, LogHead
  <2> QED
    BY <2>1, <2>2, <2>3 DEF NodeTypes
<1>4. CASE StartupGenesis
  <2>1. StateTypes' /\ LogInv'
    BY <1>4, RateAssumption, BlockAssumption DEF StartupGenesis, BaseInv, StateTypes, LogInv
  <2>2. CallTypes'
    BY <1>4 DEF StartupGenesis, BaseInv, CallTypes, CallerSet, PcSet
  <2>3. StageInv'
    <3>1. saved' = {}
      BY <1>4 DEF StartupGenesis, Open, fdbVars
    <3> QED
      BY <1>4, <3>1 DEF StartupGenesis, StageInv, Serving
  <2> QED
    BY <2>1, <2>2, <2>3 DEF NodeTypes
<1> QED
  BY <1>1, <1>2, <1>3, <1>4

\* The last block stored is not below the block log's head.
LEMMA LastStoredFacts ==
    ASSUME StateTypes, LogInv
    PROVE  /\ LastStoredNum \in Nat /\ BlockNum[LogHead] <= LastStoredNum
           /\ \A r \in KeptReversible : BlockNum[r] <= LastStoredNum
           /\ \E r \in KeptReversible \cup {LogHead} : LastStoredNum = BlockNum[r]
<1> DEFINE K == KeptReversible \cup {LogHead}
           T == {BlockNum[b] : b \in K}
<1>1. LogHead \in Block
  BY LogHeadNum
<1>2. K \subseteq Block /\ IsFiniteSet(K) /\ LogHead \in K /\ KeptReversible \subseteq K
  <2>1. KeptReversible \subseteq rev
    BY DEF KeptReversible
  <2>2. IsFiniteSet(KeptReversible)
    BY <2>1, FS_Subset DEF StateTypes
  <2> QED
    BY <1>1, <2>1, <2>2, FS_AddElement DEF StateTypes
<1>3. T \in SUBSET Nat /\ IsFiniteSet(T) /\ BlockNum[LogHead] \in T
      /\ \A r \in KeptReversible : BlockNum[r] \in T
  <2> HIDE DEF K
  <2> DEFINE f == [b \in K |-> BlockNum[b]]
  <2>1. {f[b] : b \in K} = T
    OBVIOUS
  <2>2. IsFiniteSet({f[b] : b \in K})
    <3>1. f = [x \in K |-> f[x]]
      OBVIOUS
    <3> HIDE DEF f
    <3> QED
      BY <3>1, <1>2, FiniteImage
  <2> QED
    BY <2>1, <2>2, <1>2, BlockNumAssumption
<1>4. LastStoredNum = Max(T)
  BY DEF LastStoredNum
<1> HIDE DEF T
<1>5. Max(T) \in T /\ \A x \in T : x <= Max(T)
  BY <1>3, MaxOfFinite
<1>6. \E r \in KeptReversible \cup {LogHead} : LastStoredNum = BlockNum[r]
  <2>1. LastStoredNum \in T
    BY <1>4, <1>5
  <2> QED
    BY <2>1 DEF T
<1> QED
  BY <1>3, <1>4, <1>5, <1>6

\* init() ends, or goes on with a replay, and where each leaves the base.
LEMMA ReplayOrEndFacts ==
    ASSUME CallTypes, ReplayOrEnd
    PROVE  /\ CallTypes' /\ pc' \in {"best", "idle", "replaylog", "replay"}
           /\ pc' # "replaylog" =>
                \/ ~(BlockNum[chead] < BlockNum[LogHead])
                \/ ~(LastStoredNum > BlockNum[chead])
           /\ pc' = "replaylog" => caller' = "replay"
<1>1. pc' \in {"best", "idle", "replaylog", "replay"} /\ caller' \in CallerSet
  BY DEF ReplayOrEnd, StartupEnds, CallerSet
<1>2. UNCHANGED <<first, second, made, thrown>>
  BY DEF ReplayOrEnd, StartupEnds
<1>3. CallTypes'
  BY <1>1, <1>2 DEF CallTypes, PcSet
<1>4. CASE LastStoredNum > BlockNum[chead]
  <2>1. pc' = IF BlockNum[chead] < BlockNum[LogHead] THEN "replaylog" ELSE "replay"
    BY <1>4 DEF ReplayOrEnd
  <2> QED
    BY <1>1, <1>3, <1>4, <2>1 DEF ReplayOrEnd
<1>5. CASE ~(LastStoredNum > BlockNum[chead])
  BY <1>1, <1>3, <1>5 DEF ReplayOrEnd, StartupEnds
<1> QED
  BY <1>4, <1>5

\* startup() and init().
LEMMA StartupTypes ==
    ASSUME BaseInv, StartupHead \/ StartupChecks \/ StartupBestBranch
    PROVE  NodeTypes'
<1>1. CASE StartupHead
  <2>1. [FdbNext]_fdbVars
    BY <1>1, ProduceFdb DEF BaseInv, FdbInv
  <2>2. FdbInv'
    BY <2>1, FdbNextInv DEF BaseInv
  <2>3. chead' \in Block
    BY <1>1, <2>2 DEF StartupHead, BaseInv, StateTypes, FdbInv, FdbTypeOK
  <2>4. StateTypes' /\ LogInv'
    BY <1>1, <2>3 DEF StartupHead, BaseInv, StateTypes, LogInv
  <2>5. CallTypes'
    BY <1>1 DEF StartupHead, Continue, callVars, BaseInv, CallTypes, PcSet
  <2>6. StageInv'
    <3>1. saved' = saved
      BY <1>1 DEF StartupHead, RollbackHeadToRoot, fdbVars
    <3> QED
      BY <1>1, <3>1 DEF StartupHead, Continue, callVars, BaseInv, StageInv, Serving, LogHead
  <2> QED
    BY <2>4, <2>5, <2>6 DEF NodeTypes
<1>2. CASE StartupChecks
  <2>1. LogInv' /\ UNCHANGED <<chead, base, blog, saved, index>>
    BY <1>2 DEF StartupChecks, BaseInv, LogInv, fdbVars
  <2>2. CASE Throw /\ UNCHANGED <<undo, rev>>
    <3>1. StateTypes'
      BY <1>2, <2>2 DEF StartupChecks, BaseInv, StateTypes
    <3>2. CallTypes'
      BY <2>2, ReturnTypes DEF BaseInv
    <3>3. pc' = "failed"
      BY <1>2, <2>2 DEF StartupChecks, BaseInv, StageInv, Throw
    <3>4. StageInv'
      BY <1>2, <2>1, <3>3 DEF StartupChecks, BaseInv, StageInv, Serving
    <3> QED
      BY <2>1, <3>1, <3>2, <3>4 DEF NodeTypes
  <2>3. CASE /\ Revision >= BlockNum[chead]
             /\ undo' = SubSeq(undo, 1, BlockNum[chead] - BlockNum[base])
             /\ rev' = KeptReversible
             /\ ReplayOrEnd
    <3>1. BlockNum[chead] \in Nat /\ BlockNum[base] \in Nat /\ Len(undo) \in Nat
          /\ undo \in Seq(Block)
      BY BlockNumAssumption DEF BaseInv, StateTypes
    <3>2. undo' \in Seq(Block)
      <4>1. BlockNum[chead] - BlockNum[base] <= Len(undo)
        BY <2>3, <3>1 DEF Revision
      <4> QED
        BY <2>3, <3>1, <4>1, PartOfSeq
    <3>3. rev' \subseteq rev
      BY <2>3 DEF KeptReversible
    <3>4. rev' \subseteq Block /\ IsFiniteSet(rev')
      BY <3>3, FS_Subset DEF BaseInv, StateTypes
    <3>5. StateTypes'
      BY <1>2, <3>2, <3>4 DEF StartupChecks, BaseInv, StateTypes
    <3>6. /\ CallTypes' /\ pc' \in {"best", "idle", "replaylog", "replay"}
          /\ pc' # "replaylog" =>
               \/ ~(BlockNum[chead] < BlockNum[LogHead])
               \/ ~(LastStoredNum > BlockNum[chead])
          /\ pc' = "replaylog" => caller' = "replay"
      BY <2>3, ReplayOrEndFacts DEF BaseInv
    <3>7. ASSUME pc' # "replaylog"
          PROVE  base = LogHead
      <4>1. CASE base = LogHead
        BY <4>1
      <4>2. CASE chead = Genesis /\ base = Genesis
        <5>1. LastStoredNum \in Nat /\ BlockNum[LogHead] <= LastStoredNum
          BY LastStoredFacts DEF BaseInv
        <5>2. /\ BlockNum[LogHead] \in Nat /\ BlockNum[Genesis] \in Nat
              /\ BlockNum[LogHead] >= BlockNum[Genesis]
              /\ BlockNum[LogHead] = BlockNum[Genesis] => LogHead = Genesis
          BY LogHeadNum DEF BaseInv
        <5>3. BlockNum[LogHead] <= BlockNum[Genesis]
          BY <3>6, <3>7, <4>2, <5>1, <5>2
        <5> QED
          BY <4>2, <5>2, <5>3
      <4> QED
        BY <1>2, <4>1, <4>2 DEF StartupChecks, BaseInv, StageInv
    <3>8. saved = {}
      BY <1>2 DEF StartupChecks, BaseInv, StageInv
    <3>9. StageInv'
      BY <2>1, <3>6, <3>7, <3>8 DEF StageInv, Serving, LogHead
    <3> QED
      BY <2>1, <3>5, <3>6, <3>9 DEF NodeTypes
  <2> QED
    BY <1>2, <2>2, <2>3 DEF StartupChecks
<1>3. CASE StartupBestBranch
  <2>1. StateTypes' /\ LogInv'
    BY <1>3 DEF StartupBestBranch, BaseInv, StateTypes, LogInv
  <2>2. CallTypes' /\ pc' \in {"switch", "idle"}
    BY <1>3 DEF StartupBestBranch, Continue, callVars, BaseInv, CallTypes, CallerSet, PcSet
  <2>3. Serving /\ UNCHANGED <<base, blog, saved>>
    BY <1>3 DEF StartupBestBranch, Serving, fdbVars
  <2>4. StageInv'
    BY <2>2, <2>3, StageKept DEF BaseInv
  <2> QED
    BY <2>1, <2>2, <2>4 DEF NodeTypes
<1> QED
  BY <1>1, <1>2, <1>3

\* replay().
LEMMA ReplayTypes ==
    ASSUME BaseInv, ReplayIrreversible \/ ReplayReversible \/ ReplayEnds
    PROVE  NodeTypes'
<1>1. CASE ReplayIrreversible
  <2>1. PICK b \in Block :
          \/ /\ chead' = b /\ base' = b /\ undo' = <<>> /\ rate' = ActiveRate[b]
             /\ b # LogHead => UNCHANGED fdbVars
             /\ Reset(b) \/ UNCHANGED fdbVars
             /\ Continue(IF b # LogHead THEN "replaylog" ELSE "replay")
          \/ Throw /\ UNCHANGED <<fdbVars, chead, base, undo, rate>>
    BY <1>1 DEF ReplayIrreversible
  <2>2. StateTypes' /\ LogInv'
    <3>1. UNCHANGED <<pending, rev, blog, mode, failures>>
      BY <1>1 DEF ReplayIrreversible
    <3>2. chead' \in Block /\ base' \in Block /\ undo' \in Seq(Block)
      <4>1. <<>> \in Seq(Block)
        OBVIOUS
      <4>2. CASE chead' = b /\ base' = b /\ undo' = <<>>
        BY <4>1, <4>2
      <4>3. CASE UNCHANGED <<chead, base, undo>>
        BY <4>3 DEF BaseInv, StateTypes
      <4> QED
        BY <2>1, <4>2, <4>3
    <3>3. rate' \in Rate
      BY <2>1, RateAssumption DEF BaseInv, StateTypes
    <3>4. StateTypes'
      BY <3>1, <3>2, <3>3 DEF BaseInv, StateTypes
    <3> QED
      BY <3>1, <3>4 DEF BaseInv, LogInv
  <2>3. saved' = {} /\ blog' = blog
    BY <1>1, <2>1 DEF ReplayIrreversible, Reset, fdbVars, BaseInv, StageInv
  <2>4. CASE Throw
    <3>1. CallTypes'
      BY <2>4, ReturnTypes DEF BaseInv
    <3>2. pc' = "failed"
      BY <1>1, <2>4 DEF ReplayIrreversible, BaseInv, StageInv, Throw
    <3>3. StageInv'
      BY <2>3, <3>2 DEF StageInv, Serving
    <3> QED
      BY <2>2, <3>1, <3>3 DEF NodeTypes
  <2>5. CASE base' = b /\ Continue(IF b # LogHead THEN "replaylog" ELSE "replay")
    <3>1. CallTypes'
      BY <2>5, ContinueTypes DEF BaseInv, PcSet
    <3>2. StageInv'
      BY <1>1, <2>3, <2>5 DEF ReplayIrreversible, BaseInv, StageInv, Serving, Continue, callVars,
         LogHead
    <3> QED
      BY <2>2, <3>1, <3>2 DEF NodeTypes
  <2> QED
    BY <2>1, <2>4, <2>5
<1>2. CASE ReplayReversible
  <2>1. StateTypes' /\ LogInv'
    BY <1>2 DEF ReplayReversible, BaseInv, StateTypes, LogInv
  <2>2. CallTypes' /\ pc' \in {"apply", "idle", "failed", "best", "replay"}
    <3>1. PICK b \in Block :
             \/ first' = {b} /\ second' = {} /\ pc' = "apply" /\ UNCHANGED <<made, caller, thrown>>
             \/ Throw
      BY <1>2 DEF ReplayReversible
    <3>2. CASE Throw
      BY <3>2, ReturnTypes DEF BaseInv
    <3>3. CASE first' = {b} /\ second' = {} /\ pc' = "apply" /\ UNCHANGED <<made, caller, thrown>>
      BY <3>3 DEF BaseInv, CallTypes, PcSet
    <3> QED
      BY <3>1, <3>2, <3>3
  <2>3. Serving /\ UNCHANGED <<base, blog, saved>>
    BY <1>2 DEF ReplayReversible, Serving, fdbVars, Add
  <2>4. StageInv'
    BY <2>2, <2>3, StageKept DEF BaseInv
  <2> QED
    BY <2>1, <2>2, <2>4 DEF NodeTypes
<1>3. CASE ReplayEnds
  <2>1. StateTypes' /\ LogInv'
    BY <1>3 DEF ReplayEnds, BaseInv, StateTypes, LogInv
  <2>2. CallTypes' /\ pc' \in {"best", "idle"}
    BY <1>3 DEF ReplayEnds, StartupEnds, BaseInv, CallTypes, CallerSet, PcSet
  <2>3. Serving /\ UNCHANGED <<base, blog, saved>>
    BY <1>3 DEF ReplayEnds, Serving, fdbVars
  <2>4. StageInv'
    BY <2>2, <2>3, StageKept DEF BaseInv
  <2> QED
    BY <2>1, <2>2, <2>4 DEF NodeTypes
<1> QED
  BY <1>1, <1>2, <1>3

\* Every step keeps BaseInv.
LEMMA BaseNext == BaseInv /\ [Next]_vars => BaseInv'
<1> SUFFICES ASSUME BaseInv, [Next]_vars
             PROVE  BaseInv'
  OBVIOUS
<1>1. FdbInv' /\ FdbFinite'
  BY StepIsFdbStep, FdbNextInv, FiniteNext DEF BaseInv, FdbInv
<1>2. NodeTypes'
  <2>1. CASE UNCHANGED vars
    BY <2>1 DEF vars, ctlVars, callVars, fdbVars, BaseInv, NodeTypes, StateTypes, CallTypes, LogInv,
       StageInv, Serving, LogHead
  <2>2. CASE Next
    BY <2>2, TopLevelTypes, SwitchTypes, LogTypes, CommitTypes, RestartTypes, StartupTypes,
       ReplayTypes DEF Next, Step
  <2> QED
    BY <2>1, <2>2
<1> QED
  BY <1>1, <1>2 DEF BaseInv, NodeTypes

\* BaseInv holds when the node is created.
LEMMA BaseInit == Init => BaseInv
<1> SUFFICES ASSUME Init
             PROVE  BaseInv
  OBVIOUS
<1>1. FdbInv /\ FdbFinite
  BY FdbInitInv, FiniteInit DEF Init
<1>2. StateTypes
  <2>1. chead \in Block /\ base \in Block /\ rate \in Rate
    BY BlockAssumption, RateAssumption DEF Init
  <2>2. undo \in Seq(Block) /\ blog \in Seq(Block) /\ blog # <<>>
    BY BlockAssumption DEF Init
  <2>3. rev \subseteq Block /\ IsFiniteSet(rev)
    BY FS_EmptySet DEF Init
  <2>4. mode \in Modes /\ pending \in BOOLEAN /\ failures \in 0..MaxAppendFailures
    <3>1. MaxAppendFailures \in Nat /\ failures = 0
      BY NodeAssumption DEF Init
    <3>2. failures \in 0..MaxAppendFailures
      BY <3>1
    <3>3. mode \in Modes /\ pending \in BOOLEAN
      BY DEF Init
    <3> QED
      BY <3>2, <3>3
  <2> QED
    BY <2>1, <2>2, <2>3, <2>4 DEF StateTypes
<1>3. CallTypes
  BY DEF Init, CallTypes, CallerSet, PcSet
<1>4. LogInv
  BY BlockAssumption, BlockNumAssumption DEF Init, LogInv
<1>5. StageInv
  <2>1. LogHead = Genesis
    <3>1. blog = <<Genesis>> /\ blog \in Seq(Block) /\ blog # <<>>
      BY <1>2 DEF Init, StateTypes
    <3>2. LogHead = blog[Len(blog)]
      BY <3>1, LastOfSeq DEF LogHead
    <3> QED
      BY <3>1, <3>2
  <2> QED
    BY <2>1 DEF Init, FdbInit, StageInv, Serving
<1> QED
  BY <1>1, <1>2, <1>3, <1>4, <1>5 DEF BaseInv

\* BaseInv holds in every reachable state of a node.
LEMMA BaseHolds == Spec => []BaseInv
BY BaseInit, BaseNext, PTL DEF Spec

\* Type correctness of the node: no pop, commit, replay or undo of init() takes
\* more from the undo stack than is there, and no call goes on with a block it
\* does not have.
THEOREM NodeTypeCorrect == Spec => []TypeOK
<1>1. BaseInv => TypeOK
  BY DEF BaseInv, FdbInv, StateTypes, CallTypes, CallerSet, PcSet, TypeOK
<1> QED
  BY <1>1, BaseHolds, PTL

-----------------------------------------------------------------------------
(***************************************************************************)
(* What is irreversible stays.  The argument, for a node that is not told  *)
(* to replay while it has a usable state (~MayReplay: fork_db.dat is then  *)
(* ahead of the state that is rebuilt):                                    *)
(*   - control: which call can be in progress where, and in which mode;    *)
(*   - the validated blocks are closed under previous down to the root, so *)
(*     popping never leaves them;                                          *)
(*   - the head is a validated block or the root; where log_irreversible   *)
(*     runs it is the fork database's head;                                *)
(*   - a fork switch ends at its target, which is then the head of the     *)
(*     fork database.                                                      *)
(***************************************************************************)

\* Which call is in progress at which step.
CallInv ==
    /\ pc = "idle" => caller = "none"
    /\ pc \in {"mark", "push"} => caller = "commit"
    /\ pc = "switch" => caller \in {"push", "startup"}
    /\ pc = "best" => caller = "startup"
    /\ pc \in {"replay", "replaylog"} => caller = "replay"

\* A pending block is a block of a running node in speculative mode.
PendingInv == pending => mode # "irreversible" /\ pc # "down"

\* The steps a node takes in irreversible mode; it keeps no reversible blocks.
ModeInv ==
    mode = "irreversible" =>
        /\ pc \in {"idle", "log", "append", "advance", "down", "startup", "init", "replaylog",
                   "replay", "failed"}
        /\ pc \in {"log", "append", "advance"} => caller = "push"
        /\ pc \notin {"down", "startup", "init", "failed"} => rev = {}

ControlInv == CallInv /\ PendingInv /\ ModeInv

\* v holds, with a block, its predecessor, down to r.
ValidClosed(r, v) == \A b \in v : Prev[b] \in v \cup {r}

\* The validated blocks of the fork database, in memory and in its file.
ClosedInv ==
    /\ ValidClosed(root, validated)
    /\ \A f \in saved : ValidClosed(f.root, f.validated)

\* The block a switch leads to: the last one of the new branch, in the index
\* and at least as good as the fork database's head.
Target ==
    \E new \in first \cap index :
        /\ first \subseteq Ancestors[new]
        /\ \A a \in first \ {new} : NextOn(first, a) # {}
        /\ new = head \/ FirstPreferred(new, head)

\* The branches of a switch: both above the root, the old one validated, and
\* no block of it built on the new one.
SwitchInv ==
    /\ \A b \in first \cup second : b # root /\ root \in Ancestors[b]
    /\ second \subseteq validated
    /\ \A s \in second : Ancestors[s] \cap first = {}
    /\ pc = "pop" => chead \in second
    /\ pc # "unapply" => Target

\* Where the head, the log and the root are while the node runs.
OnRoot == root \in Ancestors[chead] /\ chead \in validated \cup {root}

LogPosition ==
    IF pc \in {"append", "advance"}
    THEN LogHead \in Ancestors[chead] /\ root \in Ancestors[LogHead]
    ELSE LogHead = root

HeadPosition ==
    /\ pc \in {"log", "append", "advance", "replay"} \/ mode = "irreversible" => chead = head
    /\ mode = "irreversible" => validated \subseteq Ancestors[chead]

CallPosition ==
    /\ pc = "append" /\ mode # "irreversible" => first \subseteq Ancestors[chead]
    /\ pc \in {"pop", "apply", "unapply"} => SwitchInv
    /\ pc = "mark" => \A b \in made : Prev[b] = chead

ServingInv == OnRoot /\ LogPosition /\ HeadPosition /\ CallPosition

\* Where they are while it is stopped or starting.
Empty == root = Genesis /\ head = Genesis /\ index = {}

StoppedInv ==
    /\ pc = "down" => IF saved = {} THEN Empty ELSE \A f \in saved : f.root = LogHead
    /\ pc \in {"startup", "init"} => IF caller = "replay" THEN Empty ELSE root = LogHead
    /\ pc = "init" => chead = head
    /\ pc = "init" /\ mode = "irreversible" => head = root
    /\ pc = "replaylog" => index = {} /\ head = root

PositionInv == ClosedInv /\ (Serving => ServingInv) /\ StoppedInv

NodeInv == BaseInv /\ ControlInv /\ PositionInv

-----------------------------------------------------------------------------
(* Control. *)

\* Where a call that returns or throws leads, and as which call.
LEMMA ReturnControl ==
    ASSUME Return \/ Throw
    PROVE  /\ CallInv' /\ pc' \in {"idle", "failed", "best", "replay"}
           /\ caller \in {"push", "commit", "none"} => pc' = "idle"
           /\ pc' = "replay" => caller = "replay"
           /\ Throw => pc' \in {"idle", "failed"}
BY DEF Return, Throw, CallInv

\* The steps of a push, a switch or a production keep ControlInv.
LEMMA SwitchControl ==
    ASSUME BaseInv, ControlInv,
           \/ \E b \in Block : PushBlock(b)
           \/ StartBlock \/ AbortBlock
           \/ \E b \in Produced : CommitBlock(b)
           \/ MaybeSwitchForks \/ PopBlock \/ ApplyBlock \/ ApplyBlockThrows
           \/ UnapplyBlock \/ ReversalOfEmptyBranch \/ ReapplyBlock
           \/ CommitMarkValid \/ CommitPush
    PROVE  ControlInv'
<1> USE DEF ControlInv
<1>1. CASE \E b \in Block : PushBlock(b)
  BY <1>1 DEF PushBlock, CallInv, PendingInv, ModeInv
<1>2. CASE StartBlock \/ AbortBlock
  BY <1>2 DEF StartBlock, AbortBlock, callVars, CallInv, PendingInv, ModeInv
<1>3. CASE \E b \in Produced : CommitBlock(b)
  BY <1>3 DEF CommitBlock, CallInv, PendingInv, ModeInv
<1>4. CASE \/ MaybeSwitchForks \/ PopBlock \/ ApplyBlock \/ ApplyBlockThrows
           \/ UnapplyBlock \/ ReversalOfEmptyBranch \/ ReapplyBlock
  <2>1. pc \in {"switch", "pop", "apply", "unapply"} /\ UNCHANGED <<pending, mode>>
    BY <1>4 DEF MaybeSwitchForks, PopBlock, ApplyBlock, ApplyBlockThrows, UnapplyBlock,
       ReversalOfEmptyBranch, ReapplyBlock
  <2>2. mode # "irreversible"
    BY <2>1 DEF ModeInv
  <2>3. \/ Return \/ Throw
        \/ pc' \in {"pop", "apply", "unapply", "log", "crashed"}
    BY <1>4 DEF MaybeSwitchForks, PopBlock, ApplyBlock, ApplyBlockThrows, UnapplyBlock,
       ReversalOfEmptyBranch, ReapplyBlock, Continue
  <2>4. CASE Return \/ Throw
    BY <2>1, <2>2, <2>4, ReturnControl DEF PendingInv, ModeInv
  <2>5. CASE pc' \in {"pop", "apply", "unapply", "log", "crashed"}
    BY <2>1, <2>2, <2>5 DEF CallInv, PendingInv, ModeInv
  <2> QED
    BY <2>3, <2>4, <2>5
<1>5. CASE CommitMarkValid \/ CommitPush
  <2>1. pc \in {"mark", "push"} /\ mode' = mode /\ (pending' => pending)
    BY <1>5 DEF CommitMarkValid, CommitPush
  <2>2. mode # "irreversible"
    BY <2>1 DEF ModeInv
  <2>3. Return \/ Throw \/ pc' = "log"
    BY <1>5 DEF CommitMarkValid, CommitPush, Continue
  <2>4. CASE Return \/ Throw
    BY <2>1, <2>2, <2>4, ReturnControl DEF PendingInv, ModeInv
  <2>5. CASE pc' = "log"
    BY <2>1, <2>2, <2>5 DEF CallInv, PendingInv, ModeInv
  <2> QED
    BY <2>3, <2>4, <2>5
<1> QED
  BY <1>1, <1>2, <1>3, <1>4, <1>5

\* So do those of log_irreversible.
LEMMA LogControl ==
    ASSUME BaseInv, ControlInv,
           LogIrreversible \/ AppendBlock \/ AppendApplyThrows \/ AppendThrows \/ AdvanceToLogHead
    PROVE  ControlInv'
<1> USE DEF ControlInv
<1>1. pc \in {"log", "append", "advance"} /\ mode' = mode /\ (pending' => pending)
  BY DEF LogIrreversible, AppendBlock, AppendApplyThrows, AppendThrows, AdvanceToLogHead, LogThrows
<1>2. mode = "irreversible" => caller = "push" /\ rev = {}
  BY <1>1 DEF ModeInv
<1>3. mode = "irreversible" => rev' = {}
  <2>1. CASE LogIrreversible \/ AppendApplyThrows \/ AdvanceToLogHead
    BY <2>1, <1>2 DEF LogIrreversible, AppendApplyThrows, AdvanceToLogHead
  <2>2. CASE AppendBlock
    BY <2>2, <1>2 DEF AppendBlock, Logged
  <2>3. CASE AppendThrows
    BY <2>3, <1>2 DEF AppendThrows, Applied
  <2> QED
    BY <2>1, <2>2, <2>3
<1>4. \/ Return \/ Throw
      \/ pc' \in {"append", "advance"} /\ caller' = caller
      \/ pc' = "push" /\ caller = "commit" /\ caller' = caller
  <2>1. CASE LogIrreversible \/ AdvanceToLogHead
    BY <2>1 DEF LogIrreversible, AdvanceToLogHead, LogReturns, LogThrows, Continue, callVars
  <2>2. CASE AppendBlock \/ AppendApplyThrows \/ AppendThrows
    BY <2>2 DEF AppendBlock, AppendApplyThrows, AppendThrows, Logged, Continue, callVars
  <2> QED
    BY <2>1, <2>2
<1>5. CASE Return \/ Throw
  BY <1>1, <1>2, <1>3, <1>5, ReturnControl DEF PendingInv, ModeInv
<1>6. CASE pc' \in {"append", "advance"} /\ caller' = caller
  BY <1>1, <1>2, <1>3, <1>6 DEF CallInv, PendingInv, ModeInv
<1>7. CASE pc' = "push" /\ caller = "commit" /\ caller' = caller
  BY <1>1, <1>2, <1>3, <1>7 DEF CallInv, PendingInv, ModeInv
<1> QED
  BY <1>4, <1>5, <1>6, <1>7

\* And those of stopping, starting and replaying.
LEMMA StartControl ==
    ASSUME BaseInv, ControlInv,
           \/ Shutdown \/ Crash \/ Startup \/ StartupGenesis
           \/ StartupHead \/ StartupChecks \/ StartupBestBranch
           \/ ReplayIrreversible \/ ReplayReversible \/ ReplayEnds
    PROVE  ControlInv'
<1> USE DEF ControlInv
<1>1. CASE Shutdown \/ Crash
  BY <1>1 DEF Shutdown, Crash, CallInv, PendingInv, ModeInv
<1>2. CASE Startup \/ StartupGenesis
  BY <1>2 DEF Startup, StartupGenesis, CallInv, PendingInv, ModeInv
<1>3. CASE StartupHead
  BY <1>3 DEF StartupHead, Continue, CallInv, PendingInv, ModeInv
<1>4. CASE StartupChecks
  <2>1. CASE Throw
    <3>1. pc' = "failed"
      BY <1>4, <2>1 DEF StartupChecks, BaseInv, StageInv, Throw
    <3> QED
      BY <1>4, <2>1, <3>1 DEF StartupChecks, CallInv, PendingInv, ModeInv, KeptReversible
  <2>2. CASE ReplayOrEnd /\ rev' = KeptReversible
    BY <1>4, <2>2 DEF StartupChecks, ReplayOrEnd, StartupEnds, CallInv, PendingInv, ModeInv,
       KeptReversible
  <2> QED
    BY <1>4, <2>1, <2>2 DEF StartupChecks
<1>5. CASE StartupBestBranch
  BY <1>5 DEF StartupBestBranch, Continue, callVars, CallInv, PendingInv, ModeInv
<1>6. CASE ReplayIrreversible
  <2>1. Throw \/ \E p \in {"replaylog", "replay"} : Continue(p)
    BY <1>6 DEF ReplayIrreversible
  <2>2. CASE Throw
    <3>1. pc' = "failed"
      BY <1>6, <2>2 DEF ReplayIrreversible, Throw, CallInv
    <3> QED
      BY <1>6, <2>2, <3>1 DEF ReplayIrreversible, CallInv, PendingInv, ModeInv
  <2>3. CASE \E p \in {"replaylog", "replay"} : Continue(p)
    BY <1>6, <2>3 DEF ReplayIrreversible, Continue, callVars, CallInv, PendingInv, ModeInv
  <2> QED
    BY <2>1, <2>2, <2>3
<1>7. CASE ReplayReversible
  <2>1. mode # "irreversible"
    BY <1>7 DEF ReplayReversible, ModeInv
  <2>2. pc' \in {"apply", "failed"} /\ UNCHANGED <<pending, mode>>
    BY <1>7 DEF ReplayReversible, Throw, CallInv
  <2> QED
    BY <2>1, <2>2 DEF CallInv, PendingInv, ModeInv
<1>8. CASE ReplayEnds
  BY <1>8 DEF ReplayEnds, StartupEnds, CallInv, PendingInv, ModeInv
<1> QED
  BY <1>1, <1>2, <1>3, <1>4, <1>5, <1>6, <1>7, <1>8

\* Every step keeps ControlInv.
LEMMA ControlNext == BaseInv /\ ControlInv /\ [Next]_vars => ControlInv'
<1> SUFFICES ASSUME BaseInv, ControlInv, [Next]_vars
             PROVE  ControlInv'
  OBVIOUS
<1>1. CASE UNCHANGED vars
  BY <1>1 DEF vars, ctlVars, callVars, ControlInv, CallInv, PendingInv, ModeInv
<1>2. CASE \E b \in Block : RejectBlock(b)
  BY <1>2, <1>1 DEF RejectBlock
<1>3. CASE Next
  BY <1>2, <1>3, SwitchControl, LogControl, StartControl DEF Next, Step
<1> QED
  BY <1>1, <1>3

-----------------------------------------------------------------------------
(* Branches and preferences. *)

\* The blocks of a branch that are not below r are built on r.
LEMMA AboveRoot ==
    ASSUME NEW b \in Block, NEW r \in Ancestors[b], NEW x \in Ancestors[b], x \notin Ancestors[r]
    PROVE  x # r /\ r \in Ancestors[x]
<1>1. r \in Block /\ r \in Ancestors[r]
  BY AncestorsSelf
<1> QED
  BY <1>1, AncestorsLinear

\* Two blocks built on each other are one.
LEMMA AncestorsAntisymmetric ==
    ASSUME NEW a \in Block, NEW b \in Block, a \in Ancestors[b], b \in Ancestors[a]
    PROVE  a = b
<1>1. BlockNum[a] \in Nat /\ BlockNum[b] \in Nat
  BY BlockNumAssumption
<1> QED
  BY <1>1, AncestorNum

\* A block and its predecessor.
LEMMA ChildFacts ==
    ASSUME NEW b \in Block \ {Genesis}
    PROVE  /\ Prev[b] \in Block
           /\ Ancestors[b] = {b} \cup Ancestors[Prev[b]]
           /\ b \notin Ancestors[Prev[b]]
           /\ FirstPreferred(b, Prev[b])
<1>1. Prev[b] \in Block
  BY PrevAssumption
<1>2. Ancestors[b] = {b} \cup Ancestors[Prev[b]]
  BY AncestorsPrev
<1>3. BlockNum[b] = BlockNum[Prev[b]] + 1 /\ BlockNum[Prev[b]] \in Nat
  BY <1>1, BlockNumAssumption
<1>4. b \notin Ancestors[Prev[b]]
  <2> SUFFICES ASSUME b \in Ancestors[Prev[b]]
               PROVE  FALSE
    OBVIOUS
  <2>1. b = Prev[b] \/ BlockNum[b] < BlockNum[Prev[b]]
    BY <1>1, AncestorNum
  <2> QED
    BY <2>1, <1>3
<1>5. Prev[b] \in Ancestors[b] /\ Prev[b] # b
  BY <1>1, <1>2, <1>4, AncestorsSelf
<1> QED
  BY <1>1, <1>2, <1>4, <1>5, PreferredToAncestors

\* A block above the root is not the genesis block, and its predecessor is
\* still built on the root.
LEMMA StepBack ==
    ASSUME NEW r \in Block, NEW b \in Block, b # r, r \in Ancestors[b]
    PROVE  b # Genesis /\ Prev[b] \in Block /\ r \in Ancestors[Prev[b]]
<1>1. b # Genesis
  BY AncestorsOfGenesis
<1> QED
  BY <1>1, ChildFacts

\* The preference is a weak order.
LEMMA PreferredOver ==
    ASSUME NEW b \in Block, NEW h \in Block, NEW c \in Block,
           FirstPreferred(b, h), ~FirstPreferred(c, h)
    PROVE  FirstPreferred(b, c)
<1>1. /\ DposLib[b] \in Nat /\ DposLib[h] \in Nat /\ DposLib[c] \in Nat
      /\ BlockNum[b] \in Nat /\ BlockNum[h] \in Nat /\ BlockNum[c] \in Nat
  BY BlockNumAssumption, DposLibAssumption
<1> QED
  BY <1>1 DEF FirstPreferred

\* The validated blocks of a branch reach down to the root.
LEMMA ValidatedBranch ==
    ASSUME FdbInv, ValidClosed(root, validated), NEW b \in validated
    PROVE  Ancestors[b] \ Ancestors[root] \subseteq validated
<1>1. validated \in SUBSET (Block \ {Genesis}) /\ root \in Block /\ validated \subseteq index
  BY DEF FdbInv, FdbTypeOK
<1>2. LinkedTo(root, validated)
  BY <1>1 DEF FdbInv, Linked, LinkedTo, ValidClosed
<1> QED
  BY <1>1, <1>2, BranchInIndex

\* The fork database's head is built on the root, and is validated or the root.
LEMMA HeadOnRoot ==
    ASSUME FdbInv, IsOpen
    PROVE  root \in Ancestors[head] /\ head \in validated \cup {root}
<1>1. head \in validated \cup {root}
  BY DEF FdbInv, HeadIsBestValidated, BestValidated
<1>2. root \in Ancestors[root]
  BY AncestorsSelf DEF FdbInv, FdbTypeOK
<1>3. \A b \in validated : root \in Ancestors[b]
  BY DEF FdbInv, FdbTypeOK, Linked, LinkedTo
<1> QED
  BY <1>1, <1>2, <1>3

\* mark_valid moves the head to the block when it is preferred, or leaves it.
LEMMA MarkValidOnceFacts ==
    ASSUME FdbInv, IsOpen, NEW b \in index, MarkValidOnce(b)
    PROVE  /\ validated' = validated \cup {b}
           /\ root' = root /\ index' = index /\ saved' = saved
           /\ head' = IF FirstPreferred(b, head) THEN b ELSE head
<1>1. /\ validated \in SUBSET Block /\ head \in Block /\ b \in Block /\ validated \subseteq index
      /\ \A x \in validated : ~FirstPreferred(x, head)
  BY DEF FdbInv, FdbTypeOK, HeadIsBestValidated, BestValidated
<1>2. CASE b \in validated
  BY <1>1, <1>2 DEF MarkValidOnce, fdbVars
<1>3. CASE b \notin validated
  <2>1. MarkValid(b)
    BY <1>3 DEF MarkValidOnce
  <2>2. PICK c \in validated' :
           /\ IsFirst(c, validated')
           /\ head' = IF FirstPreferred(c, head) THEN c ELSE head
    BY <2>1 DEF MarkValid
  <2>3. validated' = validated \cup {b} /\ root' = root /\ index' = index /\ saved' = saved
    BY <2>1 DEF MarkValid
  <2>4. c \in Block /\ validated' \in SUBSET Block
    BY <1>1, <2>2, <2>3
  <2>5. ~FirstPreferred(b, c)
    BY <2>2, <2>3, <2>4, FirstIsBest
  <2>6. FirstPreferred(c, head) => c = b
    BY <1>1, <2>2, <2>3
  <2>7. FirstPreferred(b, head) => FirstPreferred(c, head)
    BY <1>1, <2>4, <2>5, PreferredOver
  <2> QED
    BY <2>2, <2>3, <2>6, <2>7
<1> QED
  BY <1>2, <1>3

\* add() leaves everything but the index and, among equals, the head.
LEMMA AddFacts ==
    ASSUME FdbInv, NEW b \in Block, Add(b)
    PROVE  /\ root' = root /\ validated' = validated /\ saved' = saved
           /\ index' = index \cup {b} /\ b # Genesis
           /\ head' \in Block /\ ~FirstPreferred(head', head)
           /\ validated \subseteq Ancestors[head] => head' = head
<1>1. /\ validated \in SUBSET Block /\ head \in Block
      /\ validated = {} => head = root
      /\ validated # {} => head \in validated
      /\ \A x \in validated : ~FirstPreferred(x, head)
  BY DEF Add, FdbInv, FdbTypeOK, HeadIsBestValidated, BestValidated
<1>2. /\ root' = root /\ validated' = validated /\ saved' = saved
      /\ index' = index \cup {b} /\ b # Genesis
  BY DEF Add
<1>3. CASE validated = {}
  <2>1. head' = head
    BY <1>3 DEF Add
  <2> QED
    BY <1>1, <1>2, <2>1, PreferredIrreflexive
<1>4. CASE validated # {}
  <2>1. head' \in validated /\ IsFirst(head', validated)
    BY <1>4 DEF Add
  <2>2. head' \in Block /\ ~FirstPreferred(head', head)
    BY <1>1, <2>1
  <2>3. ~FirstPreferred(head, head')
    <3>1. PICK h \in validated : h = head' /\ IsFirst(h, validated)
      BY <2>1
    <3> QED
      BY <1>1, <1>4, <3>1, FirstIsBest
  <2>4. ASSUME validated \subseteq Ancestors[head]
        PROVE  head' = head
    BY <1>1, <2>1, <2>3, <2>4, PreferredToAncestors
  <2> QED
    BY <1>2, <2>2, <2>4
<1> QED
  BY <1>3, <1>4

-----------------------------------------------------------------------------
(* Positions: a push, a fork switch and a production. *)

\* What the invariant says of a running node.
LEMMA RunFacts ==
    ASSUME NodeInv, Serving
    PROVE  /\ IsOpen /\ saved = {} /\ FdbInv /\ ServingInv
           /\ root \in Block /\ head \in Block /\ chead \in Block /\ LogHead \in Block
           /\ validated \subseteq index /\ index \subseteq Block \ {Genesis}
           /\ root \in Ancestors[chead] /\ chead \in validated \cup {root}
           /\ ValidClosed(root, validated)
           /\ \A b \in index : b # root /\ root \in Ancestors[b]
<1>1. pc # "down"
  BY DEF Serving
<1>2. IsOpen /\ saved = {} /\ FdbInv
  BY <1>1 DEF NodeInv, BaseInv, StageInv, IsOpen
<1>3. ServingInv /\ OnRoot /\ ValidClosed(root, validated)
  BY DEF NodeInv, PositionInv, ServingInv, ClosedInv
<1>4. root \in Block /\ head \in Block /\ validated \subseteq index /\ index \subseteq Block \ {Genesis}
  BY <1>2 DEF FdbInv, FdbTypeOK
<1>5. chead \in Block /\ LogHead \in Block
  BY LogHeadNum DEF NodeInv, BaseInv, StateTypes
<1>6. \A b \in index : b # root /\ root \in Ancestors[b]
  BY <1>2 DEF FdbInv, Linked, LinkedTo
<1> QED
  BY <1>2, <1>3, <1>4, <1>5, <1>6 DEF OnRoot

\* The positions of a running node, put together.
LEMMA RunningInv ==
    ASSUME saved' = {}, ValidClosed(root, validated)',
           pc' \notin {"down", "startup", "init", "replaylog"},
           pc' = "failed" \/ (OnRoot' /\ LogPosition' /\ HeadPosition' /\ CallPosition')
    PROVE  PositionInv'
<1>1. ClosedInv'
  BY DEF ClosedInv
<1>2. (Serving => ServingInv)'
  BY DEF Serving, ServingInv
<1>3. StoppedInv'
  BY DEF StoppedInv
<1> QED
  BY <1>1, <1>2, <1>3 DEF PositionInv

\* A step that ends a call, or goes on, without touching the stores.
LEMMA PositionKept ==
    ASSUME NodeInv, Serving, pc \notin {"append", "advance"},
           UNCHANGED <<root, head, validated, saved, chead, blog, mode>>,
           pc' \in {"idle", "best", "failed", "crashed", "switch", "push", "replay"},
           pc' = "replay" => chead = head
    PROVE  PositionInv'
<1>1. saved' = {} /\ ValidClosed(root, validated)'
  BY RunFacts DEF ValidClosed
<1>2. OnRoot /\ LogPosition /\ HeadPosition
  BY RunFacts DEF ServingInv
<1>3. OnRoot'
  BY <1>2 DEF OnRoot
<1>4. LogPosition'
  BY <1>2 DEF LogPosition, LogHead
<1>5. HeadPosition'
  BY <1>2 DEF HeadPosition
<1>6. CallPosition'
  BY DEF CallPosition
<1> QED
  BY <1>1, <1>3, <1>4, <1>5, <1>6, RunningInv

\* push_block adds the block.
LEMMA PushPosition ==
    ASSUME NodeInv, NEW b \in Block, PushBlock(b)
    PROVE  PositionInv'
<1>1. Serving /\ pc = "idle" /\ pc' = IF mode = "irreversible" THEN "log" ELSE "switch"
  BY DEF PushBlock, Serving
<1>2. /\ root' = root /\ validated' = validated /\ saved' = saved
      /\ validated \subseteq Ancestors[head] => head' = head
  BY <1>1, RunFacts, AddFacts DEF PushBlock
<1>3. UNCHANGED <<chead, blog, mode>>
  BY DEF PushBlock
<1>4. OnRoot /\ LogPosition /\ HeadPosition /\ saved = {} /\ ValidClosed(root, validated)
  BY <1>1, RunFacts DEF ServingInv
<1>5. OnRoot' /\ saved' = {} /\ ValidClosed(root, validated)'
  BY <1>2, <1>3, <1>4 DEF OnRoot, ValidClosed
<1>6. LogPosition'
  BY <1>1, <1>2, <1>3, <1>4 DEF LogPosition, LogHead
<1>7. HeadPosition'
  BY <1>1, <1>2, <1>3, <1>4 DEF HeadPosition
<1>8. CallPosition'
  BY <1>1 DEF CallPosition
<1> QED
  BY <1>1, <1>5, <1>6, <1>7, <1>8, RunningInv

\* maybe_switch_forks finds the two branches.
LEMMA BranchesFound ==
    ASSUME NodeInv, pc = "switch", NEW new \in Block, new = PendingHead, new # chead,
           first' = Ancestors[new] \ Ancestors[chead],
           second' = Ancestors[chead] \ Ancestors[new],
           pc' = IF second' = {} THEN "apply" ELSE "pop",
           UNCHANGED <<root, head, index, validated, chead>>
    PROVE  SwitchInv'
<1>1. Serving
  BY DEF Serving
<1>2. /\ IsOpen /\ FdbInv /\ FdbFinite
      /\ root \in Block /\ head \in Block /\ chead \in Block
      /\ root \in Ancestors[chead] /\ chead \in validated \cup {root}
      /\ validated \subseteq index /\ ValidClosed(root, validated)
      /\ \A b \in index : b # root /\ root \in Ancestors[b]
  BY <1>1, RunFacts DEF NodeInv, BaseInv
<1>3. /\ new \in index \cup {root}
      /\ new = head \/ FirstPreferred(new, head)
      /\ \A b \in index : ~FirstPreferred(b, new)
  BY <1>2, PendingHeadFacts DEF Known
<1>4. root \in Ancestors[new]
  BY <1>2, <1>3, AncestorsSelf
<1>5. Ancestors[root] \subseteq Ancestors[new] /\ Ancestors[root] \subseteq Ancestors[chead]
  BY <1>2, <1>4, AncestorsTransitive
<1>6. new \notin Ancestors[chead]
  <2> SUFFICES ASSUME new \in Ancestors[chead]
               PROVE  FALSE
    OBVIOUS
  <2>1. FirstPreferred(chead, new)
    BY <1>2, PreferredToAncestors
  <2>2. chead = root
    BY <1>2, <1>3, <2>1
  <2> QED
    BY <1>2, <1>4, <2>2, AncestorsAntisymmetric
<1>7. new \in first' /\ new \in index
  <2>1. new \in Ancestors[new] /\ new # root
    BY <1>2, <1>6, AncestorsSelf
  <2> QED
    BY <1>3, <1>6, <2>1
<1>8. ASSUME NEW b \in first' \cup second'
      PROVE  b # root /\ root \in Ancestors[b]
  <2>1. CASE b \in Ancestors[new] /\ b \notin Ancestors[chead]
    <3>1. b \notin Ancestors[root]
      BY <1>5, <2>1
    <3> QED
      BY <1>4, <2>1, <3>1, AboveRoot
  <2>2. CASE b \in Ancestors[chead] /\ b \notin Ancestors[new]
    <3>1. b \notin Ancestors[root]
      BY <1>5, <2>2
    <3> QED
      BY <1>2, <2>2, <3>1, AboveRoot
  <2> QED
    BY <1>8, <2>1, <2>2
<1>9. second' \subseteq validated
  <2>1. CASE chead = root
    BY <1>5, <2>1
  <2>2. CASE chead \in validated
    <3>1. Ancestors[chead] \ Ancestors[root] \subseteq validated
      BY <1>2, <2>2, ValidatedBranch
    <3> QED
      BY <1>5, <3>1
  <2> QED
    BY <1>2, <2>1, <2>2
<1>10. \A s \in second' : Ancestors[s] \cap first' = {}
  BY <1>2, AncestorsTransitive
<1>11. pc' = "pop" => chead \in second'
  <2> SUFFICES ASSUME second' # {}
               PROVE  chead \notin Ancestors[new]
    BY <1>2, AncestorsSelf
  <2> QED
    BY AncestorsTransitive
<1>12. ASSUME NEW a \in first', a # new
       PROVE  NextOn(first', a) # {}
  <2>1. PICK d \in Ancestors[new] \ {Genesis} : Prev[d] = a
    BY <1>12, ChildOnBranch
  <2>2. d \notin Ancestors[chead]
    BY <1>2, <1>12, <2>1, AncestorsClosed
  <2> QED
    BY <2>1, <2>2 DEF NextOn
<1>13. Target'
  <2>1. \A a \in first' \ {new} : NextOn(first', a) # {}
    BY <1>12
  <2>2. first' \subseteq Ancestors[new]
    OBVIOUS
  <2>3. new \in first' \cap index' /\ (new = head' \/ FirstPreferred(new, head'))
    BY <1>3, <1>7
  <2> QED
    BY <2>1, <2>2, <2>3 DEF Target, NextOn
<1> QED
  BY <1>8, <1>9, <1>10, <1>11, <1>13 DEF SwitchInv

\* maybe_switch_forks.
LEMMA MaybeSwitchPosition ==
    ASSUME NodeInv, MaybeSwitchForks
    PROVE  PositionInv'
<1>1. Serving /\ pc = "switch" /\ UNCHANGED <<root, head, index, validated, saved, chead, blog, mode>>
  BY DEF MaybeSwitchForks, Serving, fdbVars
<1>2. CASE Return
  <2>1. pc' \in {"idle", "best"}
    BY <1>1, <1>2 DEF Return, NodeInv, ControlInv, CallInv
  <2> QED
    BY <1>1, <2>1, PositionKept
<1>3. CASE ~Return
  <2>1. PICK new : new = PendingHead
    OBVIOUS
  <2>2. /\ new # chead
        /\ first' = Ancestors[new] \ Ancestors[chead]
        /\ second' = Ancestors[chead] \ Ancestors[new]
        /\ pc' = IF second' = {} THEN "apply" ELSE "pop"
    BY <1>3, <2>1 DEF MaybeSwitchForks
  <2>3. new \in Block
    BY <1>1, <2>1, PendingHeadBlock DEF NodeInv
  <2>4. SwitchInv'
    BY <1>1, <2>1, <2>2, <2>3, BranchesFound
  <2>5. CallPosition' /\ pc' \in {"apply", "pop"}
    BY <2>2, <2>4 DEF CallPosition
  <2>6. OnRoot /\ LogPosition /\ HeadPosition /\ saved = {} /\ ValidClosed(root, validated)
    BY <1>1, RunFacts DEF ServingInv
  <2>7. OnRoot' /\ saved' = {} /\ ValidClosed(root, validated)'
    BY <1>1, <2>6 DEF OnRoot, ValidClosed
  <2>8. LogPosition' /\ HeadPosition'
    BY <1>1, <2>5, <2>6 DEF LogPosition, LogHead, HeadPosition
  <2> QED
    BY <2>5, <2>7, <2>8, RunningInv
<1> QED
  BY <1>2, <1>3

\* A pop within a switch, of a block that is above the root.
LEMMA PopPosition ==
    ASSUME NodeInv, PopBlock \/ UnapplyBlock
    PROVE  PositionInv'
<1>1. Serving /\ pc \in {"pop", "unapply"} /\ mode # "irreversible"
  BY DEF PopBlock, UnapplyBlock, Serving, NodeInv, ControlInv, ModeInv
<1>2. UNCHANGED <<root, head, index, validated, saved, blog, mode, first, second, made>>
  BY DEF PopBlock, UnapplyBlock, fdbVars, Continue, callVars
<1>3. chead' = Prev[chead]
  BY DEF PopBlock, UnapplyBlock, PoppedHead
<1>4. SwitchInv /\ LogPosition /\ HeadPosition /\ saved = {} /\ ValidClosed(root, validated)
  BY <1>1, RunFacts DEF ServingInv, CallPosition
<1>5. chead \in first \cup second
  BY <1>4 DEF PopBlock, UnapplyBlock, SwitchInv
<1>6. /\ root \in Block /\ chead \in Block /\ chead # root /\ root \in Ancestors[chead]
      /\ chead \in validated
  BY <1>1, <1>4, <1>5, RunFacts DEF SwitchInv
<1>7. chead' \in Block /\ root \in Ancestors[chead']
  BY <1>3, <1>6, StepBack
<1>8. OnRoot'
  BY <1>2, <1>3, <1>4, <1>6, <1>7 DEF OnRoot, ValidClosed
<1>9. pc' \in {"pop", "apply", "unapply"} /\ (pc' = "pop" => chead' \in second)
      /\ (pc' # "unapply" => pc = "pop")
  BY DEF PopBlock, UnapplyBlock, Continue
<1>10. SwitchInv'
  <2>1. Target => Target'
    BY <1>2 DEF Target, NextOn
  <2>2. pc' # "unapply" => Target'
    BY <1>4, <1>9, <2>1 DEF SwitchInv
  <2> QED
    BY <1>2, <1>4, <1>9, <2>2 DEF SwitchInv
<1>11. CallPosition'
  BY <1>9, <1>10 DEF CallPosition
<1>12. LogPosition' /\ HeadPosition'
  BY <1>1, <1>2, <1>4, <1>9 DEF LogPosition, LogHead, HeadPosition
<1>13. saved' = {} /\ ValidClosed(root, validated)'
  BY <1>2, <1>4 DEF ValidClosed
<1> QED
  BY <1>8, <1>9, <1>11, <1>12, <1>13, RunningInv

\* Marking a block whose predecessor is validated, or the root, keeps the
\* validated blocks closed.
LEMMA ClosedGrows ==
    ASSUME ValidClosed(root, validated), NEW b, Prev[b] \in validated \cup {root},
           validated' = validated \cup {b}, root' = root
    PROVE  ValidClosed(root, validated)'
BY DEF ValidClosed

\* A block of the new branch is applied; after the last one the head is the
\* fork database's.
LEMMA ApplyPosition ==
    ASSUME NodeInv, ApplyBlock
    PROVE  PositionInv'
<1>1. Serving /\ pc = "apply" /\ mode # "irreversible"
  BY DEF ApplyBlock, Serving, NodeInv, ControlInv, ModeInv
<1>2. PICK b \in NextOn(first, chead) :
         /\ chead' = b
         /\ MarkValidOnce(b)
         /\ Continue(IF NextOn(first, b) = {} THEN "log" ELSE "apply")
  BY DEF ApplyBlock
<1>3. SwitchInv /\ LogPosition /\ saved = {} /\ ValidClosed(root, validated)
  BY <1>1, RunFacts DEF ServingInv, CallPosition
<1>4. b \in first /\ Prev[b] = chead /\ b # root /\ root \in Ancestors[b]
  BY <1>3 DEF NextOn, SwitchInv
<1>5. PICK new \in first \cap index :
         /\ first \subseteq Ancestors[new]
         /\ \A a \in first \ {new} : NextOn(first, a) # {}
         /\ new = head \/ FirstPreferred(new, head)
  BY <1>1, <1>3 DEF SwitchInv, Target
<1>6. /\ FdbInv /\ IsOpen /\ root \in Block /\ head \in Block
      /\ index \subseteq Block \ {Genesis} /\ root \in Ancestors[chead]
      /\ chead \in validated \cup {root} /\ head \in validated \cup {root}
      /\ \A x \in index : x # root /\ root \in Ancestors[x]
      /\ validated \subseteq index
  BY <1>1, RunFacts, HeadOnRoot
<1>7. b \in index
  <2>1. b \notin Ancestors[root]
    BY <1>4, <1>6, AncestorsAntisymmetric, AncestorsSelf
  <2>2. Ancestors[new] \ Ancestors[root] \subseteq index
    BY <1>6, BranchInIndex DEF FdbInv, Linked
  <2> QED
    BY <1>4, <1>5, <2>1, <2>2
<1>8. /\ validated' = validated \cup {b}
      /\ root' = root /\ index' = index /\ saved' = saved
      /\ head' = IF FirstPreferred(b, head) THEN b ELSE head
  BY <1>2, <1>6, <1>7, MarkValidOnceFacts
<1>9. UNCHANGED <<blog, mode, first, second, made>>
  BY <1>2 DEF ApplyBlock, Continue, callVars
<1>10. pc' = IF NextOn(first, b) = {} THEN "log" ELSE "apply"
  BY <1>2 DEF Continue
<1>11. OnRoot' /\ ValidClosed(root, validated)' /\ saved' = {}
  <2>1. ValidClosed(root, validated)'
    BY <1>3, <1>4, <1>6, <1>8, ClosedGrows
  <2> QED
    BY <1>2, <1>3, <1>4, <1>8, <2>1 DEF OnRoot
<1>12. LogPosition'
  BY <1>1, <1>3, <1>8, <1>9, <1>10 DEF LogPosition, LogHead
<1>13. new \in Block /\ b \in Block
  BY <1>5, <1>6, <1>7
<1>14. HeadPosition'
  <2>1. ASSUME pc' = "log"
        PROVE  chead' = head'
    <3>1. b = new
      BY <1>4, <1>5, <1>10, <2>1
    <3>2. CASE FirstPreferred(new, head)
      BY <1>2, <1>8, <3>1, <3>2
    <3>3. CASE new = head
      BY <1>2, <1>8, <3>1, <3>3
    <3> QED
      BY <1>5, <3>2, <3>3
  <2> QED
    BY <1>1, <1>9, <1>10, <2>1 DEF HeadPosition
<1>15. SwitchInv'
  <2>1. new = head' \/ FirstPreferred(new, head')
    <3>1. CASE head' = head
      BY <1>5, <3>1
    <3>2. CASE head' = b
      BY <1>4, <1>5, <1>13, <3>2, PreferredToAncestors
    <3> QED
      BY <1>8, <3>1, <3>2
  <2>2. Target'
    BY <1>5, <1>8, <1>9, <2>1 DEF Target, NextOn
  <2>3. \A x \in first' \cup second' : x # root' /\ root' \in Ancestors[x]
    BY <1>3, <1>8, <1>9 DEF SwitchInv
  <2>4. second' \subseteq validated' /\ \A s \in second' : Ancestors[s] \cap first' = {}
    BY <1>3, <1>8, <1>9 DEF SwitchInv
  <2> QED
    BY <1>10, <2>2, <2>3, <2>4 DEF SwitchInv
<1>16. CallPosition'
  BY <1>10, <1>15 DEF CallPosition
<1> QED
  BY <1>10, <1>11, <1>12, <1>14, <1>16, RunningInv

\* A block that cannot be applied is removed with what is built on it; the old
\* branch and the head stay.
LEMMA ThrowPosition ==
    ASSUME NodeInv, ApplyBlockThrows
    PROVE  PositionInv'
<1>1. Serving /\ pc = "apply" /\ mode # "irreversible" /\ UNCHANGED <<chead, blog, mode>>
  BY DEF ApplyBlockThrows, Serving, NodeInv, ControlInv, ModeInv
<1>2. PICK b \in NextOn(first, chead) :
         \/ UNCHANGED fdbVars /\ Throw
         \/ Remove(b) /\ (Throw \/ Continue("unapply"))
  BY DEF ApplyBlockThrows
<1>3. CASE UNCHANGED fdbVars /\ Throw
  <2>1. pc' \in {"idle", "failed"} /\ UNCHANGED <<root, head, validated, saved>>
    BY <1>3, ReturnControl DEF fdbVars
  <2> QED
    BY <1>1, <2>1, PositionKept
<1>4. CASE Remove(b) /\ (Throw \/ Continue("unapply"))
  <2>1. PICK Q : Q = RemoveQueue(b, index)
    OBVIOUS
  <2>2. /\ SwitchInv /\ LogPosition /\ OnRoot /\ saved = {} /\ ValidClosed(root, validated)
        /\ root \in Block /\ chead \in Block /\ index \subseteq Block \ {Genesis}
        /\ validated \subseteq index
    BY <1>1, RunFacts DEF ServingInv, CallPosition
  <2>3. /\ b \in index /\ validated' = validated \ Q
        /\ UNCHANGED <<root, head, saved>>
    BY <1>4, <2>1 DEF Remove
  <2>4. b \in Block \ {Genesis} /\ b \in first /\ Prev[b] = chead
    BY <2>2, <2>3 DEF NextOn
  <2>5. \A x \in Q : x = b \/ b \in Ancestors[x]
    BY <2>1 DEF RemoveQueue
  <2>6. chead \notin Q
    <3>1. b \notin Ancestors[chead] /\ chead \in Ancestors[chead]
      BY <2>2, <2>4, ChildFacts, AncestorsSelf
    <3> QED
      BY <2>5, <3>1
  <2>7. OnRoot'
    BY <1>1, <2>2, <2>3, <2>6 DEF OnRoot
  <2>8. ValidClosed(root, validated)'
    <3> SUFFICES ASSUME NEW c \in validated \ Q
                 PROVE  Prev[c] \in (validated \ Q) \cup {root}
      BY <2>3 DEF ValidClosed
    <3>1. Prev[c] \notin Q
      BY <2>1, <2>2, <2>4, RemoveClosed
    <3> QED
      BY <2>2, <3>1 DEF ValidClosed
  <2>9. pc' \in {"idle", "failed", "unapply"}
    BY <1>4, ReturnControl DEF Continue
  <2>10. LogPosition' /\ HeadPosition'
    BY <1>1, <2>2, <2>3, <2>9 DEF LogPosition, LogHead, HeadPosition
  <2>11. CallPosition'
    <3>1. CASE pc' # "unapply"
      BY <2>9, <3>1 DEF CallPosition
    <3>2. CASE pc' = "unapply"
      <4>1. Continue("unapply")
        BY <1>4, <3>2, ReturnControl
      <4>2. UNCHANGED <<first, second>>
        BY <4>1 DEF Continue, callVars
      <4>3. second \subseteq validated'
        <5> SUFFICES ASSUME NEW s \in second
                     PROVE  s \notin Q
          BY <2>2, <2>3 DEF SwitchInv
        <5>1. b \notin Ancestors[s] /\ s \in validated
          BY <2>2, <2>4 DEF SwitchInv
        <5>2. s \in Ancestors[s]
          BY <2>2, <5>1, AncestorsSelf
        <5> QED
          BY <2>5, <5>1, <5>2
      <4>4. SwitchInv'
        BY <2>2, <2>3, <3>2, <4>2, <4>3 DEF SwitchInv
      <4> QED
        BY <3>2, <4>4 DEF CallPosition
    <3> QED
      BY <3>1, <3>2
  <2> QED
    BY <2>2, <2>3, <2>7, <2>8, <2>9, <2>10, <2>11, RunningInv
<1> QED
  BY <1>2, <1>3, <1>4

\* The old branch is applied again, block by block.
LEMMA ReapplyPosition ==
    ASSUME NodeInv, ReversalOfEmptyBranch \/ ReapplyBlock
    PROVE  PositionInv'
<1>1. /\ Serving /\ pc = "unapply" /\ mode # "irreversible"
      /\ UNCHANGED <<root, head, index, validated, saved, blog, mode>>
  BY DEF ReversalOfEmptyBranch, ReapplyBlock, Serving, NodeInv, ControlInv, ModeInv, fdbVars
<1>2. CASE ReversalOfEmptyBranch
  <2>1. pc' = "crashed" /\ chead' = chead
    BY <1>2 DEF ReversalOfEmptyBranch, Continue
  <2> QED
    BY <1>1, <2>1, PositionKept
<1>3. CASE ReapplyBlock
  <2>1. PICK b \in NextOn(second, chead) :
           \/ chead' = b /\ (Throw \/ Continue("unapply"))
           \/ Throw /\ chead' = chead
    BY <1>3 DEF ReapplyBlock
  <2>2. CASE Throw /\ chead' = chead
    <3>1. pc' \in {"idle", "failed"}
      BY <2>2, ReturnControl
    <3> QED
      BY <1>1, <2>2, <3>1, PositionKept
  <2>3. CASE chead' = b /\ (Throw \/ Continue("unapply"))
    <3>1. SwitchInv /\ LogPosition /\ saved = {} /\ ValidClosed(root, validated)
      BY <1>1, RunFacts DEF ServingInv, CallPosition
    <3>2. root \in Ancestors[b] /\ b \in validated
      BY <3>1 DEF NextOn, SwitchInv
    <3>3. OnRoot' /\ saved' = {} /\ ValidClosed(root, validated)'
      BY <1>1, <2>3, <3>1, <3>2 DEF OnRoot, ValidClosed
    <3>4. pc' \in {"idle", "failed", "unapply"}
      BY <2>3, ReturnControl DEF Continue
    <3>5. LogPosition' /\ HeadPosition'
      BY <1>1, <3>1, <3>4 DEF LogPosition, LogHead, HeadPosition
    <3>6. CallPosition'
      <4>1. CASE pc' # "unapply"
        BY <3>4, <4>1 DEF CallPosition
      <4>2. CASE pc' = "unapply"
        <5>1. Continue("unapply")
          BY <2>3, <4>2, ReturnControl
        <5>2. UNCHANGED <<first, second>>
          BY <5>1 DEF Continue, callVars
        <5>3. SwitchInv'
          BY <1>1, <3>1, <4>2, <5>2 DEF SwitchInv
        <5> QED
          BY <4>2, <5>3 DEF CallPosition
      <4> QED
        BY <4>1, <4>2
    <3> QED
      BY <3>3, <3>4, <3>5, <3>6, RunningInv
  <2> QED
    BY <2>1, <2>2, <2>3
<1> QED
  BY <1>2, <1>3

\* Producing a block.
LEMMA ProducePosition ==
    ASSUME NodeInv,
           \/ StartBlock \/ AbortBlock \/ (\E b \in Produced : CommitBlock(b))
           \/ CommitMarkValid \/ CommitPush
    PROVE  PositionInv'
<1>1. CASE StartBlock \/ AbortBlock
  <2>1. Serving /\ pc = "idle" /\ pc' = "idle"
        /\ UNCHANGED <<root, head, validated, saved, chead, blog, mode>>
    BY <1>1 DEF StartBlock, AbortBlock, Serving, fdbVars
  <2> QED
    BY <2>1, PositionKept
<1>2. ASSUME NEW b \in Produced, CommitBlock(b)
      PROVE  PositionInv'
  <2>1. Serving /\ pc = "idle" /\ pc' = "mark" /\ mode # "irreversible" /\ made' = {b}
        /\ Prev[b] = chead /\ UNCHANGED <<chead, blog, mode>>
    BY <1>2 DEF CommitBlock, Serving, NodeInv, ControlInv, PendingInv
  <2>2. root' = root /\ validated' = validated /\ saved' = saved
    BY <1>2, <2>1, RunFacts, AddFacts, NodeAssumption DEF CommitBlock
  <2>3. OnRoot /\ LogPosition /\ saved = {} /\ ValidClosed(root, validated)
    BY <2>1, RunFacts DEF ServingInv
  <2>4. OnRoot' /\ saved' = {} /\ ValidClosed(root, validated)'
    BY <2>1, <2>2, <2>3 DEF OnRoot, ValidClosed
  <2>5. LogPosition' /\ HeadPosition' /\ CallPosition'
    BY <2>1, <2>2, <2>3 DEF LogPosition, LogHead, HeadPosition, CallPosition
  <2> QED
    BY <2>1, <2>4, <2>5, RunningInv
<1>3. CASE CommitMarkValid
  <2>1. Serving /\ pc = "mark" /\ mode # "irreversible" /\ UNCHANGED <<blog, mode>>
    BY <1>3 DEF CommitMarkValid, Serving, NodeInv, ControlInv, ModeInv
  <2>2. PICK b \in made : MarkValid(b) /\ chead' = head' /\ (Throw \/ Continue("log"))
    BY <1>3 DEF CommitMarkValid
  <2>3. /\ FdbInv /\ IsOpen /\ LogPosition /\ CallPosition /\ saved = {}
        /\ ValidClosed(root, validated)
        /\ chead \in validated \cup {root} /\ index \subseteq Block \ {Genesis}
    BY <2>1, RunFacts DEF ServingInv
  <2>4. Prev[b] = chead /\ b \in index /\ b \notin validated
    BY <2>1, <2>2, <2>3 DEF CallPosition, MarkValid
  <2>5. validated' = validated \cup {b} /\ root' = root /\ saved' = saved
    BY <2>2 DEF MarkValid
  <2>6. ValidClosed(root, validated)' /\ saved' = {} /\ IsOpen'
    BY <2>3, <2>4, <2>5, ClosedGrows DEF IsOpen
  <2>7. FdbInv'
    BY <2>2, <2>3, <2>4, MarkValidInv
  <2>8. OnRoot'
    <3>1. root' \in Ancestors[head'] /\ head' \in validated' \cup {root'}
      <4>1. head' \in validated' \cup {root'}
        BY <2>6, <2>7 DEF FdbInv, HeadIsBestValidated, BestValidated
      <4>2. root' \in Ancestors[root']
        BY <2>7, AncestorsSelf DEF FdbInv, FdbTypeOK
      <4>3. \A x \in validated' : root' \in Ancestors[x]
        BY <2>7 DEF FdbInv, FdbTypeOK, Linked, LinkedTo
      <4> QED
        BY <4>1, <4>2, <4>3
    <3> QED
      BY <2>2, <3>1 DEF OnRoot
  <2>9. pc' \in {"idle", "failed", "log"}
    BY <2>2, ReturnControl DEF Continue
  <2>10. LogPosition'
    BY <2>1, <2>3, <2>5, <2>9 DEF LogPosition, LogHead
  <2>11. HeadPosition' /\ CallPosition'
    BY <2>1, <2>2, <2>9 DEF HeadPosition, CallPosition
  <2> QED
    BY <2>6, <2>8, <2>9, <2>10, <2>11, RunningInv
<1>4. CASE CommitPush
  <2>1. Serving /\ pc = "push" /\ UNCHANGED <<root, head, validated, saved, chead, blog, mode>>
    BY <1>4 DEF CommitPush, Serving, fdbVars
  <2>2. pc' = "idle"
    BY <1>4, <2>1, ReturnControl DEF CommitPush, NodeInv, ControlInv, CallInv
  <2> QED
    BY <2>1, <2>2, PositionKept
<1> QED
  BY <1>1, <1>2, <1>3, <1>4

-----------------------------------------------------------------------------
(* Positions: log_irreversible. *)

\* The head a node logs for: the fork database's, and its own.
LEMMA LogIrreversiblePosition ==
    ASSUME NodeInv, LogIrreversible
    PROVE  PositionInv'
<1>1. Serving /\ pc = "log" /\ UNCHANGED <<root, head, validated, saved, chead, blog, mode>>
  BY DEF LogIrreversible, Serving, fdbVars
<1>2. /\ OnRoot /\ LogPosition /\ HeadPosition /\ saved = {} /\ ValidClosed(root, validated)
      /\ chead = head /\ head \in Block /\ root \in Block
  BY <1>1, RunFacts DEF ServingInv, HeadPosition
<1>3. CASE LogReturns
  <2>1. pc' \in {"push", "idle", "failed", "best", "replay"}
    BY <1>3, ReturnControl DEF LogReturns, Continue
  <2> QED
    BY <1>1, <1>2, <2>1, PositionKept
<1>4. CASE ~LogReturns
  <2>1. PICK h, n : /\ h = IF mode = "irreversible" THEN PendingHead ELSE head
                    /\ n = DposLib[h]
    OBVIOUS
  <2>2. first' = FetchBranch(h, n) /\ pc' = "append"
    BY <1>4, <2>1 DEF LogIrreversible
  <2>3. OnRoot' /\ saved' = {} /\ ValidClosed(root, validated)'
    BY <1>1, <1>2 DEF OnRoot, ValidClosed
  <2>4. LogPosition'
    <3>1. LogHead = root /\ LogHead' = LogHead
      BY <1>1, <1>2 DEF LogPosition, LogHead
    <3>2. root \in Ancestors[root] /\ root \in Ancestors[chead]
      BY <1>2, AncestorsSelf DEF OnRoot
    <3> QED
      BY <1>1, <2>2, <3>1, <3>2 DEF LogPosition
  <2>5. HeadPosition'
    BY <1>1, <1>2, <2>2 DEF HeadPosition
  <2>6. CallPosition'
    <3>1. ASSUME mode # "irreversible"
          PROVE  first' \subseteq Ancestors[chead]
      BY <1>2, <2>1, <2>2, <3>1, FetchBranchInIndex
    <3> QED
      BY <1>1, <2>2, <3>1 DEF CallPosition
  <2> QED
    BY <2>2, <2>3, <2>4, <2>5, <2>6, RunningInv
<1> QED
  BY <1>3, <1>4

\* The next block to log is built on the root.
LEMMA NextToLog ==
    ASSUME NodeInv, pc = "append", NEW b \in NextOn(first, LogHead)
    PROVE  /\ b \in index /\ b \in Block \ {Genesis} /\ Prev[b] = LogHead
           /\ b # root /\ root \in Ancestors[b] /\ LogHead \in Ancestors[b]
<1>1. Serving
  BY DEF Serving
<1>2. b \in index /\ Prev[b] = LogHead
  BY DEF NextOn, NodeInv, BaseInv, StageInv
<1>3. b \in Block \ {Genesis} /\ b # root /\ root \in Ancestors[b] /\ LogHead \in Block
  BY <1>1, <1>2, RunFacts
<1>4. LogHead \in Ancestors[b]
  BY <1>2, <1>3, ChildFacts, AncestorsSelf
<1> QED
  BY <1>2, <1>3, <1>4

\* Applying it in irreversible mode makes it the head of the fork database too.
LEMMA AppliedIrreversible ==
    ASSUME NodeInv, pc = "append", mode = "irreversible", NEW b \in NextOn(first, LogHead),
           CanApply(b), MarkValidOnce(b)
    PROVE  /\ head' = b /\ validated' \subseteq Ancestors[b] /\ b \in validated'
           /\ root' = root /\ saved' = {} /\ ValidClosed(root, validated)'
<1>1. Serving
  BY DEF Serving
<1>2. /\ b \in index /\ b \in Block \ {Genesis} /\ Prev[b] = LogHead
  BY NextToLog
<1>3. /\ FdbInv /\ IsOpen /\ HeadPosition /\ saved = {} /\ ValidClosed(root, validated)
      /\ chead \in validated \cup {root}
  BY <1>1, RunFacts DEF ServingInv
<1>4. chead = head /\ validated \subseteq Ancestors[chead] /\ Prev[b] = chead
  BY <1>3 DEF HeadPosition, CanApply
<1>5. FirstPreferred(b, head) /\ Ancestors[b] = {b} \cup Ancestors[chead]
  BY <1>2, <1>4, ChildFacts
<1>6. /\ validated' = validated \cup {b} /\ root' = root /\ saved' = saved
      /\ head' = IF FirstPreferred(b, head) THEN b ELSE head
  BY <1>2, <1>3, MarkValidOnceFacts
<1>7. ValidClosed(root, validated)'
  BY <1>3, <1>4, <1>6, ClosedGrows
<1> QED
  BY <1>3, <1>4, <1>5, <1>6, <1>7

\* A block is logged, or appending it throws.
LEMMA AppendPosition ==
    ASSUME NodeInv, AppendBlock \/ AppendApplyThrows \/ AppendThrows
    PROVE  PositionInv'
<1>1. Serving /\ pc = "append" /\ mode' = mode
  BY DEF AppendBlock, AppendApplyThrows, AppendThrows, Serving
<1>2. /\ OnRoot /\ LogPosition /\ HeadPosition /\ CallPosition
      /\ saved = {} /\ ValidClosed(root, validated)
      /\ chead = head /\ LogHead \in Ancestors[chead] /\ root \in Ancestors[LogHead]
  BY <1>1, RunFacts DEF ServingInv, HeadPosition, LogPosition
<1>3. CASE AppendBlock /\ mode # "irreversible"
  <2>1. PICK b \in NextOn(first, LogHead) : Logged(b) /\ UNCHANGED <<fdbVars, chead>>
    BY <1>3 DEF AppendBlock
  <2>2. UNCHANGED <<root, head, validated, saved, chead>>
    BY <2>1 DEF fdbVars
  <2>3. pc' \in {"append", "advance"} /\ first' = first
    BY <2>1 DEF Logged, Continue, callVars
  <2>4. LogHead' = b
    BY <1>1, <2>1, NextToLog, LogGrows DEF Logged, NodeInv, BaseInv
  <2>5. root \in Ancestors[b] /\ b \in first
    BY <1>1, NextToLog DEF NextOn
  <2>6. OnRoot' /\ saved' = {} /\ ValidClosed(root, validated)'
    BY <1>2, <2>2 DEF OnRoot, ValidClosed
  <2>7. LogPosition'
    BY <1>1, <1>2, <1>3, <2>2, <2>3, <2>4, <2>5 DEF LogPosition, CallPosition
  <2>8. HeadPosition'
    BY <1>1, <1>2, <1>3, <2>2 DEF HeadPosition
  <2>9. CallPosition'
    BY <1>1, <1>2, <1>3, <2>2, <2>3 DEF CallPosition
  <2> QED
    BY <2>3, <2>6, <2>7, <2>8, <2>9, RunningInv
<1>4. CASE AppendBlock /\ mode = "irreversible"
  <2>1. PICK b \in NextOn(first, LogHead) :
           CanApply(b) /\ MarkValidOnce(b) /\ chead' = b /\ Logged(b)
    BY <1>4 DEF AppendBlock
  <2>2. /\ head' = b /\ validated' \subseteq Ancestors[b] /\ b \in validated'
        /\ root' = root /\ saved' = {} /\ ValidClosed(root, validated)'
    BY <1>1, <1>4, <2>1, AppliedIrreversible
  <2>3. pc' \in {"append", "advance"}
    BY <2>1 DEF Logged, Continue
  <2>4. LogHead' = b
    BY <1>1, <2>1, NextToLog, LogGrows DEF Logged, NodeInv, BaseInv
  <2>5. root \in Ancestors[b] /\ b \in Ancestors[b]
    BY <1>1, NextToLog, AncestorsSelf
  <2>6. OnRoot' /\ LogPosition'
    BY <2>1, <2>2, <2>3, <2>4, <2>5 DEF OnRoot, LogPosition
  <2>7. HeadPosition' /\ CallPosition'
    BY <1>1, <1>4, <2>1, <2>2, <2>3 DEF HeadPosition, CallPosition
  <2> QED
    BY <2>2, <2>3, <2>6, <2>7, RunningInv
<1>5. CASE AppendApplyThrows \/ (AppendThrows /\ mode # "irreversible")
  <2>1. pc' = "advance" /\ UNCHANGED <<root, head, validated, saved, chead, blog>>
    BY <1>5 DEF AppendApplyThrows, AppendThrows, fdbVars
  <2>2. OnRoot' /\ saved' = {} /\ ValidClosed(root, validated)'
    BY <1>2, <2>1 DEF OnRoot, ValidClosed
  <2>3. LogPosition' /\ HeadPosition' /\ CallPosition'
    BY <1>1, <1>2, <2>1 DEF LogPosition, LogHead, HeadPosition, CallPosition
  <2> QED
    BY <2>1, <2>2, <2>3, RunningInv
<1>6. CASE AppendThrows /\ mode = "irreversible"
  <2>1. PICK b \in NextOn(first, LogHead) : CanApply(b) /\ MarkValidOnce(b) /\ chead' = b
    BY <1>6 DEF AppendThrows
  <2>2. /\ head' = b /\ validated' \subseteq Ancestors[b] /\ b \in validated'
        /\ root' = root /\ saved' = {} /\ ValidClosed(root, validated)'
    BY <1>1, <1>6, <2>1, AppliedIrreversible
  <2>3. pc' = "advance" /\ LogHead' = LogHead
    BY <1>6 DEF AppendThrows, LogHead
  <2>4. root \in Ancestors[b] /\ LogHead \in Ancestors[b]
    BY <1>1, NextToLog
  <2>5. OnRoot' /\ LogPosition'
    BY <1>2, <2>1, <2>2, <2>3, <2>4 DEF OnRoot, LogPosition
  <2>6. HeadPosition' /\ CallPosition'
    BY <1>1, <1>6, <2>1, <2>2, <2>3 DEF HeadPosition, CallPosition
  <2> QED
    BY <2>2, <2>3, <2>5, <2>6, RunningInv
<1> QED
  BY <1>3, <1>4, <1>5, <1>6

\* advance_root sweeps what is not built on the new root: the head stays.
LEMMA AdvancePosition ==
    ASSUME NodeInv, AdvanceToLogHead
    PROVE  PositionInv'
<1>1. Serving /\ pc = "advance" /\ UNCHANGED <<chead, blog, mode>>
  BY DEF AdvanceToLogHead, Serving
<1>2. /\ OnRoot /\ HeadPosition /\ saved = {} /\ ValidClosed(root, validated)
      /\ chead = head /\ LogHead \in Ancestors[chead] /\ root \in Ancestors[LogHead]
      /\ root \in Block /\ chead \in Block /\ LogHead \in Block
      /\ index \subseteq Block \ {Genesis} /\ validated \subseteq index
      /\ \A x \in index : x # root /\ root \in Ancestors[x]
  BY <1>1, RunFacts DEF ServingInv, HeadPosition, LogPosition
<1>3. pc' \in {"push", "idle", "failed", "best", "replay"}
  BY ReturnControl DEF AdvanceToLogHead, LogThrows, LogReturns, Continue
<1>4. root' = LogHead /\ LogHead' = LogHead /\ head' = head /\ saved' = saved
      /\ validated' \subseteq validated
  BY <1>1 DEF AdvanceToLogHead, AdvanceRoot, fdbVars, LogHead
<1>5. chead \in validated' \cup {root'} /\ ValidClosed(root', validated')
  <2>1. CASE LogHead = root
    <3>1. validated' = validated
      BY <2>1 DEF AdvanceToLogHead, fdbVars
    <3> QED
      BY <1>2, <1>4, <2>1, <3>1 DEF OnRoot
  <2>2. CASE LogHead # root
    <3>1. PICK ix, Q : ix = index \ {LogHead} /\ Q = RemoveQueue(root, ix)
      OBVIOUS
    <3>2. validated' = (validated \ {LogHead}) \ Q
      BY <2>2, <3>1 DEF AdvanceToLogHead, AdvanceRoot
    <3>3. \A x \in Q : x = root \/ (Ancestors[x] \ Ancestors[root] \subseteq ix)
      BY <3>1 DEF RemoveQueue
    <3>4. LogHead \notin Ancestors[root]
      BY <1>2, <2>2, AncestorsAntisymmetric
    <3>5. chead # root /\ chead \in validated
      BY <1>2, <3>4 DEF OnRoot
    <3>6. chead \notin Q
      BY <1>2, <3>1, <3>3, <3>4, <3>5
    <3>7. chead \in validated' \cup {root'}
      BY <1>4, <3>2, <3>5, <3>6
    <3>8. ASSUME NEW c \in validated'
          PROVE  Prev[c] \in validated' \cup {root'}
      <4>1. /\ c \in ix /\ c \notin Q /\ c \in validated /\ c \in Block \ {Genesis}
            /\ ix \in SUBSET (Block \ {Genesis})
        BY <1>2, <3>1, <3>2
      <4>2. Prev[c] \notin Q
        BY <1>2, <3>1, <4>1, RemoveClosed
      <4>3. root \in Q
        BY <3>1 DEF RemoveQueue
      <4>4. Prev[c] \in validated
        BY <1>2, <4>1, <4>2, <4>3 DEF ValidClosed
      <4> QED
        BY <1>4, <3>2, <4>2, <4>4
    <3> QED
      BY <3>7, <3>8 DEF ValidClosed
  <2> QED
    BY <2>1, <2>2
<1>6. OnRoot' /\ saved' = {} /\ ValidClosed(root, validated)'
  BY <1>1, <1>2, <1>4, <1>5 DEF OnRoot
<1>7. LogPosition'
  BY <1>3, <1>4 DEF LogPosition
<1>8. HeadPosition'
  BY <1>1, <1>2, <1>4 DEF HeadPosition
<1>9. CallPosition'
  BY <1>3 DEF CallPosition
<1> QED
  BY <1>3, <1>6, <1>7, <1>8, <1>9, RunningInv

-----------------------------------------------------------------------------
(* Positions: stopping, starting and replaying. *)

\* The node stops or crashes: what it will come back with is the log.
LEMMA StopPosition ==
    ASSUME NodeInv, Shutdown \/ Crash
    PROVE  PositionInv'
<1>1. pc' = "down" /\ ~Serving'
  BY DEF Shutdown, Crash, Serving
<1>2. CASE Shutdown
  <2>1. Serving /\ pc = "idle" /\ saved' = {Contents} /\ validated' = {} /\ LogHead' = LogHead
    BY <1>2 DEF Shutdown, Close, Serving, LogHead
  <2>2. root = LogHead /\ ValidClosed(root, validated)
    BY <2>1, RunFacts DEF ServingInv, LogPosition
  <2>3. Contents.root = LogHead /\ ValidClosed(Contents.root, Contents.validated)
    BY <2>2 DEF Contents, ValidClosed
  <2>4. ClosedInv'
    BY <2>1, <2>3 DEF ClosedInv, ValidClosed
  <2>5. StoppedInv'
    BY <1>1, <2>1, <2>3 DEF StoppedInv
  <2> QED
    BY <1>1, <2>4, <2>5 DEF PositionInv
<1>3. CASE Crash
  <2>1. saved' = {} /\ root' = Genesis /\ head' = Genesis /\ index' = {} /\ validated' = {}
    BY <1>3 DEF Crash, Reset, IsOpen
  <2>2. ClosedInv' /\ StoppedInv'
    BY <1>1, <2>1 DEF ClosedInv, ValidClosed, StoppedInv, Empty
  <2> QED
    BY <1>1, <2>2 DEF PositionInv
<1> QED
  BY <1>2, <1>3

\* The stores are opened again, up to init().
LEMMA StartPosition ==
    ASSUME NodeInv, ~MayReplay, Startup \/ StartupGenesis \/ StartupHead
    PROVE  PositionInv'
<1>1. ~Serving' /\ pc' \in {"startup", "init"} /\ LogHead' = LogHead
  BY DEF Startup, StartupGenesis, StartupHead, Continue, Serving, LogHead
<1>2. ClosedInv /\ StoppedInv
  BY DEF NodeInv, PositionInv
<1>3. CASE Startup
  <2>1. PICK f \in saved : root' = f.root /\ validated' = f.validated /\ saved' = {}
    BY <1>3 DEF Startup, Open
  <2>2. pc = "down" /\ pc' = "startup" /\ caller' = "startup"
    BY <1>3 DEF Startup
  <2>3. f.root = LogHead /\ ValidClosed(f.root, f.validated)
    BY <1>2, <2>1, <2>2 DEF StoppedInv, ClosedInv
  <2>4. ClosedInv' /\ StoppedInv'
    BY <1>1, <2>1, <2>2, <2>3 DEF ClosedInv, StoppedInv
  <2> QED
    BY <1>1, <2>4 DEF PositionInv
<1>4. CASE StartupGenesis
  <2>1. saved = {} /\ UNCHANGED fdbVars /\ pc = "down" /\ pc' = "startup" /\ caller' = "replay"
    BY <1>4 DEF StartupGenesis
  <2>2. ClosedInv' /\ StoppedInv'
    BY <1>2, <2>1 DEF ClosedInv, StoppedInv, Empty, fdbVars
  <2> QED
    BY <1>1, <2>2 DEF PositionInv
<1>5. CASE StartupHead
  <2>1. /\ pc = "startup" /\ pc' = "init" /\ caller' = caller /\ mode' = mode
        /\ caller \in {"startup", "replay"} /\ saved = {}
        /\ caller = "replay" => chead = Genesis
    BY <1>5 DEF StartupHead, Continue, callVars, NodeInv, BaseInv, StageInv
  <2>2. CASE mode = "irreversible" /\ head # root
    <3>1. root' = root /\ head' = root /\ validated' = {} /\ saved' = saved
      BY <1>5, <2>2 DEF StartupHead, RollbackHeadToRoot
    <3>2. caller = "startup" /\ root = LogHead
      BY <1>2, <2>1, <2>2 DEF StoppedInv, Empty
    <3>3. chead' = head'
      BY <1>5, <3>2 DEF StartupHead
    <3>4. ClosedInv' /\ StoppedInv'
      BY <1>1, <2>1, <3>1, <3>2, <3>3 DEF ClosedInv, ValidClosed, StoppedInv
    <3> QED
      BY <1>1, <3>4 DEF PositionInv
  <2>3. CASE ~(mode = "irreversible" /\ head # root)
    <3>1. UNCHANGED <<root, head, index, validated, saved>>
      BY <1>5, <2>3 DEF StartupHead, fdbVars
    <3>2. ClosedInv'
      BY <1>2, <3>1 DEF ClosedInv, ValidClosed
    <3>3. chead' = head'
      BY <1>2, <1>5, <2>1, <3>1 DEF StartupHead, StoppedInv, Empty
    <3>4. StoppedInv'
      BY <1>1, <1>2, <2>1, <2>3, <3>1, <3>3 DEF StoppedInv, Empty
    <3> QED
      BY <1>1, <3>2, <3>4 DEF PositionInv
  <2> QED
    BY <2>2, <2>3
<1> QED
  BY <1>3, <1>4, <1>5

\* init() ends, goes on with the best branch, or replays.
LEMMA ChecksPosition ==
    ASSUME NodeInv, BaseInv', StartupChecks
    PROVE  PositionInv'
<1>1. pc = "init" /\ UNCHANGED <<root, head, index, validated, saved, chead, base, blog, mode>>
  BY DEF StartupChecks, fdbVars
<1>2. /\ ClosedInv /\ StoppedInv /\ FdbInv /\ saved = {} /\ IsOpen /\ caller \in {"startup", "replay"}
      /\ caller = "replay" => base = Genesis
      /\ LogHead' = LogHead
  BY <1>1 DEF NodeInv, PositionInv, BaseInv, StageInv, IsOpen, LogHead
<1>3. saved' = {} /\ ValidClosed(root, validated)'
  BY <1>1, <1>2 DEF ClosedInv, ValidClosed
<1>4. root \in Ancestors[head] /\ head \in validated \cup {root} /\ chead = head
  BY <1>1, <1>2, HeadOnRoot DEF StoppedInv
<1>5. OnRoot'
  BY <1>1, <1>4 DEF OnRoot
<1>6. CASE Throw
  <2>1. pc' = "failed"
    BY <1>2, <1>6 DEF Throw
  <2> QED
    BY <1>3, <2>1, RunningInv
<1>7. CASE ReplayOrEnd
  <2>1. /\ pc' \in {"best", "idle", "replaylog", "replay"}
        /\ pc' # "replaylog" =>
             \/ ~(BlockNum[chead] < BlockNum[LogHead])
             \/ ~(LastStoredNum > BlockNum[chead])
    BY <1>7, ReplayOrEndFacts DEF NodeInv, BaseInv
  <2>2. CASE pc' = "replaylog"
    <3>1. BlockNum[chead] < BlockNum[LogHead]
      BY <1>7, <2>2 DEF ReplayOrEnd, StartupEnds
    <3>2. caller = "replay"
      <4> SUFFICES ASSUME root = LogHead
                   PROVE  FALSE
        BY <1>1, <1>2 DEF StoppedInv
      <4>1. head \in Block /\ BlockNum[head] \in Nat /\ BlockNum[root] \in Nat
        BY <1>2, BlockNumAssumption DEF FdbInv, FdbTypeOK
      <4>2. root = head \/ BlockNum[root] < BlockNum[head]
        BY <1>4, <4>1, AncestorNum
      <4> QED
        BY <1>4, <3>1, <4>1, <4>2
    <3>3. index = {} /\ head = root
      BY <1>1, <1>2, <3>2 DEF StoppedInv, Empty
    <3>4. StoppedInv' /\ ClosedInv'
      BY <1>1, <1>3, <2>2, <3>3 DEF StoppedInv, ClosedInv
    <3> QED
      BY <2>2, <3>4 DEF PositionInv, Serving
  <2>3. CASE pc' # "replaylog"
    <3>1. pc' \in {"best", "idle", "replay"}
      BY <2>1, <2>3
    <3>2. base = LogHead
      BY <1>1, <1>2, <3>1 DEF BaseInv, StageInv, Serving
    <3>3. LogHead = root
      BY <1>1, <1>2, <3>2 DEF StoppedInv, Empty
    <3>4. LogPosition'
      BY <1>1, <1>2, <3>1, <3>3 DEF LogPosition
    <3>5. HeadPosition'
      <4>1. ASSUME mode = "irreversible"
            PROVE  validated = {}
        <5>1. head = root
          BY <1>1, <1>2, <4>1 DEF StoppedInv
        <5> QED
          BY <1>2, <5>1 DEF FdbInv, FdbTypeOK, HeadIsBestValidated, BestValidated, Linked, LinkedTo
      <4> QED
        BY <1>1, <1>4, <4>1 DEF HeadPosition
    <3>6. CallPosition'
      BY <3>1 DEF CallPosition
    <3> QED
      BY <1>3, <1>5, <3>1, <3>4, <3>5, <3>6, RunningInv
  <2> QED
    BY <2>2, <2>3
<1> QED
  BY <1>6, <1>7 DEF StartupChecks

\* replay() of the block log ends at its head, which is then the root.
LEMMA ReplayLogPosition ==
    ASSUME NodeInv, ReplayIrreversible
    PROVE  PositionInv'
<1>1. pc = "replaylog" /\ UNCHANGED <<blog, mode>> /\ LogHead' = LogHead
  BY DEF ReplayIrreversible, LogHead
<1>2. /\ ClosedInv /\ saved = {} /\ index = {} /\ head = root /\ validated = {}
      /\ caller = "replay"
  BY <1>1 DEF NodeInv, PositionInv, StoppedInv, BaseInv, StageInv, FdbInv, FdbTypeOK
<1>3. PICK b \in Block :
        \/ /\ chead' = b
           /\ IF b # LogHead THEN UNCHANGED fdbVars ELSE Reset(b) \/ (root = b /\ UNCHANGED fdbVars)
           /\ Continue(IF b # LogHead THEN "replaylog" ELSE "replay")
        \/ Throw /\ UNCHANGED fdbVars
  BY DEF ReplayIrreversible
<1>4. saved' = {} /\ index' = {} /\ head' = root' /\ validated' = {}
  BY <1>2, <1>3 DEF Reset, fdbVars
<1>5. ValidClosed(root, validated)' /\ ClosedInv'
  BY <1>4 DEF ValidClosed, ClosedInv
<1>6. CASE pc' = "failed"
  BY <1>4, <1>5, <1>6, RunningInv
<1>7. CASE pc' = "replaylog"
  BY <1>4, <1>5, <1>7 DEF PositionInv, Serving, StoppedInv
<1>8. CASE pc' = "replay" /\ b = LogHead /\ chead' = b /\ root' = b
  <2>1. OnRoot'
    BY <1>8, AncestorsSelf DEF OnRoot
  <2>2. LogPosition' /\ HeadPosition' /\ CallPosition'
    BY <1>1, <1>4, <1>8 DEF LogPosition, HeadPosition, CallPosition
  <2> QED
    BY <1>4, <1>5, <1>8, <2>1, <2>2, RunningInv
<1> QED
  <2>1. CASE Throw
    BY <1>2, <1>6, <2>1 DEF Throw
  <2>2. CASE /\ chead' = b
             /\ IF b # LogHead THEN UNCHANGED fdbVars
                ELSE Reset(b) \/ (root = b /\ UNCHANGED fdbVars)
             /\ Continue(IF b # LogHead THEN "replaylog" ELSE "replay")
    BY <1>7, <1>8, <2>2 DEF Continue, Reset, fdbVars
  <2> QED
    BY <1>3, <2>1, <2>2

\* replay_push_block: the next reversible block is the target of a switch.
LEMMA ReplayPosition ==
    ASSUME NodeInv, ReplayReversible
    PROVE  PositionInv'
<1>1. Serving /\ pc = "replay" /\ caller = "replay" /\ UNCHANGED <<chead, blog, mode>>
      /\ mode # "irreversible"
  BY DEF ReplayReversible, Serving, NodeInv, ControlInv, CallInv, ModeInv
<1>2. PICK b \in Block :
        \/ /\ Prev[b] = chead
           /\ IF b \in index THEN UNCHANGED fdbVars ELSE Add(b)
           /\ first' = {b} /\ second' = {} /\ pc' = "apply"
        \/ Throw /\ UNCHANGED fdbVars
  BY DEF ReplayReversible
<1>3. CASE Throw /\ UNCHANGED fdbVars
  <2>1. pc' = "failed" /\ UNCHANGED <<root, head, validated, saved>>
    BY <1>1, <1>3 DEF Throw, fdbVars
  <2> QED
    BY <1>1, <2>1, PositionKept
<1>4. CASE /\ Prev[b] = chead
           /\ IF b \in index THEN UNCHANGED fdbVars ELSE Add(b)
           /\ first' = {b} /\ second' = {} /\ pc' = "apply"
  <2>1. /\ OnRoot /\ LogPosition /\ HeadPosition /\ saved = {} /\ ValidClosed(root, validated)
        /\ FdbInv /\ chead = head /\ root \in Block /\ head \in Block /\ root \in Ancestors[chead]
        /\ index \subseteq Block \ {Genesis} /\ chead \in Block
    BY <1>1, RunFacts DEF ServingInv, HeadPosition
  <2>2. /\ root' = root /\ validated' = validated /\ saved' = saved
        /\ b \in index' /\ b # Genesis
        /\ head' \in Block /\ ~FirstPreferred(head', head)
    <3>1. CASE b \in index
      BY <1>4, <2>1, <3>1, PreferredIrreflexive DEF fdbVars
    <3>2. CASE b \notin index
      BY <1>4, <2>1, <3>2, AddFacts
    <3> QED
      BY <3>1, <3>2
  <2>3. /\ FirstPreferred(b, head) /\ Ancestors[b] = {b} \cup Ancestors[chead]
        /\ b \notin Ancestors[chead]
    BY <1>4, <2>1, <2>2, ChildFacts
  <2>4. b # root /\ root \in Ancestors[b]
    BY <2>1, <2>3
  <2>5. FirstPreferred(b, head')
    BY <2>1, <2>2, <2>3, PreferredOver
  <2>6. Target'
    <3>1. b \in first' \cap index' /\ first' \subseteq Ancestors[b]
          /\ \A a \in first' \ {b} : NextOn(first', a) # {}
      BY <1>4, <2>2, AncestorsSelf
    <3> QED
      BY <2>5, <3>1 DEF Target, NextOn
  <2>7. SwitchInv'
    BY <1>4, <2>2, <2>4, <2>6 DEF SwitchInv
  <2>8. OnRoot' /\ saved' = {} /\ ValidClosed(root, validated)'
    BY <1>1, <2>1, <2>2 DEF OnRoot, ValidClosed
  <2>9. LogPosition' /\ HeadPosition' /\ CallPosition'
    BY <1>1, <1>4, <2>1, <2>2, <2>7 DEF LogPosition, LogHead, HeadPosition, CallPosition
  <2> QED
    BY <1>4, <2>8, <2>9, RunningInv
<1> QED
  BY <1>2, <1>3, <1>4

\* init() and replay() end.
LEMMA StartEndsPosition ==
    ASSUME NodeInv, StartupBestBranch \/ ReplayEnds
    PROVE  PositionInv'
<1>1. /\ Serving /\ pc \notin {"append", "advance"}
      /\ UNCHANGED <<root, head, validated, saved, chead, blog, mode>>
  BY DEF StartupBestBranch, ReplayEnds, Serving, fdbVars
<1>2. pc' \in {"switch", "idle", "best"}
  BY DEF StartupBestBranch, ReplayEnds, StartupEnds, Continue
<1> QED
  BY <1>1, <1>2, PositionKept

-----------------------------------------------------------------------------
(* The theorems. *)

\* Every step of a node that is not told to replay keeps its invariant.
LEMMA NodeNext ==
    ASSUME ~MayReplay
    PROVE  NodeInv /\ [Next]_vars => NodeInv'
<1> SUFFICES ASSUME NodeInv, [Next]_vars
             PROVE  NodeInv'
  OBVIOUS
<1>1. BaseInv' /\ ControlInv'
  BY BaseNext, ControlNext DEF NodeInv
<1>2. PositionInv'
  <2>1. CASE UNCHANGED vars
    BY <2>1 DEF vars, ctlVars, callVars, fdbVars, NodeInv, PositionInv, ClosedInv, ValidClosed,
       Serving, ServingInv, OnRoot, LogPosition, LogHead, HeadPosition, CallPosition, SwitchInv,
       Target, NextOn, StoppedInv, Empty
  <2>2. CASE \E b \in Block : RejectBlock(b)
    BY <2>1, <2>2 DEF RejectBlock
  <2>3. CASE \E b \in Block : PushBlock(b)
    BY <2>3, PushPosition
  <2>4. CASE Next
    BY <1>1, <2>2, <2>3, <2>4, MaybeSwitchPosition, PopPosition, ApplyPosition, ThrowPosition,
       ReapplyPosition, ProducePosition, LogIrreversiblePosition, AppendPosition, AdvancePosition,
       StopPosition, StartPosition, ChecksPosition, ReplayLogPosition, ReplayPosition,
       StartEndsPosition DEF Next, Step
  <2> QED
    BY <2>1, <2>4
<1> QED
  BY <1>1, <1>2 DEF NodeInv

\* It holds when the node is created.
LEMMA NodeInit == Init => NodeInv
<1> SUFFICES ASSUME Init
             PROVE  NodeInv
  OBVIOUS
<1>1. BaseInv
  BY BaseInit
<1>2. ControlInv
  BY DEF Init, ControlInv, CallInv, PendingInv, ModeInv
<1>3. root = Genesis /\ head = Genesis /\ chead = Genesis /\ validated = {} /\ saved = {}
      /\ pc = "idle"
  BY DEF Init, FdbInit
<1>4. LogHead = Genesis
  BY <1>1, <1>3 DEF BaseInv, StageInv, Serving, Init
<1>5. OnRoot /\ LogPosition /\ HeadPosition /\ CallPosition
  BY <1>3, <1>4, BlockAssumption, AncestorsSelf
     DEF OnRoot, LogPosition, HeadPosition, CallPosition
<1>6. PositionInv
  BY <1>3, <1>5 DEF PositionInv, ClosedInv, ValidClosed, ServingInv, StoppedInv
<1> QED
  BY <1>1, <1>2, <1>6 DEF NodeInv

\* The invariant of a node that is not told to replay holds in every state.
LEMMA NodeHolds ==
    ASSUME ~MayReplay
    PROVE  Spec => []NodeInv
BY NodeInit, NodeNext, PTL DEF Spec

\* What is irreversible stays: through fork switches, failed applications and
\* appends, production, restarts, crashes and changes of mode the head is
\* built on the root, the committed state is that of the last block logged,
\* and log_irreversible's assert on the root does not fire.
THEOREM NodeIrreversibleStays ==
    ASSUME ~MayReplay
    PROVE  Spec => []IrreversibleStays
<1>1. NodeInv => IrreversibleStays
  <2> SUFFICES ASSUME NodeInv, Serving
               PROVE  /\ root \in Ancestors[chead]
                      /\ pc # "advance" => base = LogHead
                      /\ pc \in {"idle", "log"} => LogHead = root
    BY DEF IrreversibleStays
  <2>1. root \in Ancestors[chead] /\ LogPosition
    BY RunFacts DEF ServingInv
  <2>2. base = LogHead
    BY DEF NodeInv, BaseInv, StageInv
  <2> QED
    BY <2>1, <2>2 DEF LogPosition
<1> QED
  BY <1>1, NodeHolds, PTL

\* log_irreversible calls advance_root within its contract: the new root is
\* validated and the head is built on it, so no remove() throws half way.
THEOREM NodeAdvanceRootContract ==
    ASSUME ~MayReplay
    PROVE  Spec => []AdvanceRootContract
<1>1. NodeInv => AdvanceRootContract
  <2> SUFFICES ASSUME NodeInv, pc = "advance", LogHead # root
               PROVE  LogHead \in validated /\ LogHead \in Ancestors[head]
    BY DEF AdvanceRootContract
  <2>1. Serving
    BY DEF Serving
  <2>2. /\ FdbInv /\ ValidClosed(root, validated) /\ chead \in validated \cup {root}
        /\ root \in Block /\ LogHead \in Block /\ chead = head
        /\ LogHead \in Ancestors[chead] /\ root \in Ancestors[LogHead]
    BY <2>1, RunFacts DEF ServingInv, HeadPosition, LogPosition
  <2>3. LogHead \notin Ancestors[root]
    BY <2>2, AncestorsAntisymmetric
  <2>4. chead \in validated
    BY <2>2, <2>3
  <2>5. Ancestors[chead] \ Ancestors[root] \subseteq validated
    BY <2>2, <2>4, ValidatedBranch
  <2> QED
    BY <2>2, <2>3, <2>5
<1> QED
  BY <1>1, NodeHolds, PTL

-----------------------------------------------------------------------------
(***************************************************************************)
(* A fork switch stays in sync.  The two branches leave one common         *)
(* ancestor c, and the head walks down the old one to c and up the new     *)
(* one, or back: it is always on one of them, at or above c.               *)
(***************************************************************************)
PathFrom(c, n, o) ==
    /\ c \in Ancestors[n] /\ c # n /\ c \in Ancestors[o]
    /\ first = Ancestors[n] \ Ancestors[c] /\ second = Ancestors[o] \ Ancestors[c]
    /\ first \cap Ancestors[o] = {}
    /\ c \in Ancestors[chead]
    /\ pc = "pop" => chead \in second
    /\ pc = "apply" => chead \in Ancestors[n] \ {n}
    /\ pc = "unapply" => chead \in first \cup Ancestors[o] /\ (second # {} => chead # o)

PathInv == pc \in {"pop", "apply", "unapply"} => \E c, n, o \in Block : PathFrom(c, n, o)

\* From a block of a branch above c one step down stays at or above c.
LEMMA PathDown ==
    ASSUME NEW c \in Block, NEW t \in Block, c \in Ancestors[t], NEW x \in Ancestors[t] \ Ancestors[c]
    PROVE  /\ x \in Block \ {Genesis} /\ Prev[x] \in Ancestors[t] /\ c \in Ancestors[Prev[x]]
           /\ Prev[x] \in Ancestors[c] => Prev[x] = c
<1>1. x \in Block /\ x # c /\ c \in Ancestors[x]
  BY AncestorsSelf, AboveRoot
<1>2. x # Genesis /\ Prev[x] \in Block /\ c \in Ancestors[Prev[x]]
  BY <1>1, StepBack
<1> QED
  BY <1>1, <1>2, AncestorsClosed, AncestorsAntisymmetric

\* From a block of a branch at or above c there is a step up, unless it is the
\* branch's tip.
LEMMA PathUp ==
    ASSUME NEW c \in Block, NEW t \in Block, NEW x \in Ancestors[t], c \in Ancestors[x], x # t
    PROVE  NextOn(Ancestors[t] \ Ancestors[c], x) # {}
<1>1. PICK d \in Ancestors[t] \ {Genesis} : Prev[d] = x
  BY ChildOnBranch
<1>2. d \in Block \ {Genesis} /\ x \in Block
  BY AncestorsSelf
<1>3. d \notin Ancestors[x] /\ Ancestors[c] \subseteq Ancestors[x]
  BY <1>1, <1>2, ChildFacts, AncestorsTransitive
<1> QED
  BY <1>1, <1>3 DEF NextOn

\* Nothing of a branch comes after its tip.
LEMMA PathTip ==
    ASSUME NEW c \in Block, NEW t \in Block, c \in Ancestors[t]
    PROVE  NextOn(Ancestors[t] \ Ancestors[c], t) = {}
<1> SUFFICES ASSUME NEW d \in Ancestors[t] \ Ancestors[c], Prev[d] = t
             PROVE  FALSE
  BY DEF NextOn
<1>1. d \in Block \ {Genesis}
  BY PathDown
<1>2. t \in Ancestors[d] /\ d # t
  BY <1>1, ChildFacts, AncestorsSelf
<1> QED
  BY <1>1, <1>2, AncestorsAntisymmetric

\* Two branches that share a block leave one common ancestor.
LEMMA CommonAncestor ==
    ASSUME NEW n \in Block, NEW o \in Block, NEW r \in Ancestors[n], r \in Ancestors[o],
           n \notin Ancestors[o]
    PROVE  \E c \in Block : c # n /\ c \in Ancestors[n] /\ c \in Ancestors[o]
                            /\ Ancestors[n] \cap Ancestors[o] = Ancestors[c]
<1>1. PICK z \in Ancestors[n] \ Ancestors[o] : z # Genesis /\ Prev[z] \in Ancestors[o]
  <2> SUFFICES ASSUME \A z \in Ancestors[n] \ Ancestors[o] : z = Genesis \/ Prev[z] \notin Ancestors[o]
               PROVE  FALSE
    OBVIOUS
  <2> DEFINE S == Ancestors[n] \ Ancestors[o]
  <2>1. S \in SUBSET Block /\ n \in S
    BY AncestorsSelf
  <2>2. \A z \in S \ {Genesis} : Prev[z] \in S
    BY AncestorsClosed
  <2> HIDE DEF S
  <2>3. Ancestors[n] \subseteq S
    BY <2>1, <2>2, AncestorsLeast
  <2> QED
    BY <2>3 DEF S
<1>2. z \in Block \ {Genesis}
  BY <1>1, AncestorsSelf
<1> DEFINE c == Prev[z]
<1>3. c \in Block /\ c \in Ancestors[n] /\ c \in Ancestors[o] /\ Ancestors[z] = {z} \cup Ancestors[c]
  BY <1>1, <1>2, ChildFacts, AncestorsClosed
<1>4. Ancestors[c] \subseteq Ancestors[n] \cap Ancestors[o]
  BY <1>3, AncestorsTransitive
<1>5. ASSUME NEW w \in Ancestors[n] \cap Ancestors[o]
      PROVE  w \in Ancestors[c]
  <2>1. w \in Ancestors[z] \/ z \in Ancestors[w]
    BY <1>1, AncestorsLinear
  <2>2. z \notin Ancestors[w]
    BY <1>1, <1>5, AncestorsTransitive
  <2> QED
    BY <1>1, <1>3, <1>5, <2>1, <2>2
<1> QED
  BY <1>3, <1>4, <1>5

\* maybe_switch_forks captures the branches.
LEMMA PathBegins ==
    ASSUME NodeInv, NodeInv', MaybeSwitchForks
    PROVE  PathInv'
<1>1. Serving /\ chead' = chead /\ root' = root /\ pc = "switch"
  BY DEF MaybeSwitchForks, Serving, fdbVars
<1>2. CASE Return
  BY <1>2 DEF Return, PathInv
<1>3. CASE ~Return
  <2>1. PICK new : new = PendingHead
    OBVIOUS
  <2>2. /\ first' = Ancestors[new] \ Ancestors[chead]
        /\ second' = Ancestors[chead] \ Ancestors[new]
        /\ pc' = IF second' = {} THEN "apply" ELSE "pop"
    BY <1>3, <2>1 DEF MaybeSwitchForks
  <2>3. new \in Block /\ chead \in Block /\ root \in Ancestors[chead]
    BY <1>1, <2>1, PendingHeadBlock, RunFacts DEF NodeInv
  <2>4. SwitchInv' /\ Target'
    <3>1. pc' \in {"apply", "pop"}
      BY <2>2
    <3> QED
      BY <3>1 DEF NodeInv, PositionInv, Serving, ServingInv, CallPosition, SwitchInv
  <2>5. PICK x \in Ancestors[new] \ Ancestors[chead] : root \in Ancestors[x]
    BY <1>1, <2>2, <2>4 DEF Target, SwitchInv
  <2>6. new \notin Ancestors[chead] /\ root \in Ancestors[new]
    BY <2>3, <2>5, AncestorsTransitive
  <2>7. PICK c \in Block : c # new /\ c \in Ancestors[new] /\ c \in Ancestors[chead]
                           /\ Ancestors[new] \cap Ancestors[chead] = Ancestors[c]
    BY <2>3, <2>6, CommonAncestor
  <2>8. second' = {} => chead \in Ancestors[new] /\ chead # new
    BY <2>2, <2>3, <2>6, AncestorsSelf
  <2>9. second' # {} => chead \in second'
    BY <2>2, <2>3, AncestorsSelf, AncestorsTransitive
  <2>10. PathFrom(c, new, chead)'
    BY <1>1, <2>2, <2>7, <2>8, <2>9 DEF PathFrom
  <2> QED
    BY <1>1, <2>3, <2>7, <2>10 DEF PathInv
<1> QED
  BY <1>2, <1>3

\* The blocks of either branch are popped one by one.
LEMMA PathPops ==
    ASSUME NodeInv, PathInv, PopBlock \/ UnapplyBlock
    PROVE  PathInv'
<1>1. /\ chead' = Prev[chead] /\ UNCHANGED <<first, second>>
      /\ \/ /\ pc = "pop" /\ pc' = IF chead' \in second THEN "pop" ELSE "apply"
         \/ /\ pc = "unapply" /\ pc' = "unapply" /\ chead \in first
  BY DEF PopBlock, UnapplyBlock, PoppedHead, Continue, callVars
<1>2. PICK c \in Block, n \in Block, o \in Block : PathFrom(c, n, o)
  BY <1>1 DEF PathInv
<1>3. CASE pc = "pop"
  <2>1. chead \in Ancestors[o] \ Ancestors[c]
    BY <1>2, <1>3 DEF PathFrom
  <2>2. /\ Prev[chead] \in Ancestors[o] /\ c \in Ancestors[Prev[chead]]
        /\ Prev[chead] \in Ancestors[c] => Prev[chead] = c
    BY <1>2, <2>1, PathDown DEF PathFrom
  <2>3. PathFrom(c, n, o)'
    BY <1>1, <1>2, <1>3, <2>2 DEF PathFrom
  <2> QED
    BY <2>3 DEF PathInv
<1>4. CASE pc = "unapply"
  <2>1. chead \in Ancestors[n] \ Ancestors[c]
    BY <1>1, <1>2, <1>4 DEF PathFrom
  <2>2. /\ Prev[chead] \in Ancestors[n] /\ c \in Ancestors[Prev[chead]]
        /\ Prev[chead] \in Ancestors[c] => Prev[chead] = c
    BY <1>2, <2>1, PathDown DEF PathFrom
  <2>3. o \in Ancestors[o] /\ (second # {} => c # o)
    BY <1>2, AncestorsSelf DEF PathFrom
  <2>4. PathFrom(c, n, o)'
    BY <1>1, <1>2, <1>4, <2>2, <2>3 DEF PathFrom
  <2> QED
    BY <2>4 DEF PathInv
<1> QED
  BY <1>1, <1>3, <1>4

\* The blocks of the new branch are applied, up to its tip or to one that throws.
LEMMA PathApplies ==
    ASSUME NodeInv, PathInv, ApplyBlock \/ ApplyBlockThrows
    PROVE  PathInv'
<1>1. PICK c \in Block, n \in Block, o \in Block : pc = "apply" /\ PathFrom(c, n, o)
  BY DEF ApplyBlock, ApplyBlockThrows, PathInv
<1>2. CASE ApplyBlock
  <2>1. PICK b \in NextOn(first, chead) :
           /\ chead' = b /\ UNCHANGED <<first, second>>
           /\ pc' = IF NextOn(first, b) = {} THEN "log" ELSE "apply"
    BY <1>2 DEF ApplyBlock, Continue, callVars
  <2>2. b \in Ancestors[n] \ Ancestors[c] /\ b \in Block
    BY <1>1, <2>1, AncestorsSelf DEF PathFrom, NextOn
  <2>3. c \in Ancestors[b] /\ (b = n => NextOn(first, b) = {})
    BY <1>1, <2>2, AboveRoot, PathTip DEF PathFrom
  <2>4. pc' = "apply" => PathFrom(c, n, o)'
    BY <1>1, <2>1, <2>2, <2>3 DEF PathFrom
  <2> QED
    BY <2>1, <2>4 DEF PathInv
<1>3. CASE ApplyBlockThrows
  <2>1. CASE Throw
    BY <2>1 DEF Throw, PathInv
  <2>2. CASE ~Throw
    <3>1. chead' = chead /\ pc' = "unapply" /\ UNCHANGED <<first, second>>
      BY <1>3, <2>2 DEF ApplyBlockThrows, Continue, callVars
    <3>2. o \in Ancestors[o]
      BY AncestorsSelf
    <3>3. chead \in Ancestors[c] => chead = c
      BY <1>1, AncestorsAntisymmetric, AncestorsSelf DEF PathFrom
    <3>4. PathFrom(c, n, o)'
      BY <1>1, <3>1, <3>2, <3>3 DEF PathFrom
    <3> QED
      BY <3>4 DEF PathInv
  <2> QED
    BY <2>1, <2>2
<1> QED
  BY <1>2, <1>3

\* The blocks of the old branch are applied again, up to its tip.
LEMMA PathReapplies ==
    ASSUME NodeInv, PathInv, ReapplyBlock
    PROVE  PathInv'
<1>1. PICK c \in Block, n \in Block, o \in Block : pc = "unapply" /\ PathFrom(c, n, o)
  BY DEF ReapplyBlock, PathInv
<1>2. CASE Throw
  BY <1>2 DEF Throw, PathInv
<1>3. CASE ~Throw
  <2>1. PICK b \in NextOn(second, chead) :
           /\ chead' = b /\ UNCHANGED <<first, second>> /\ pc' = "unapply"
           /\ NextOn(second, b) # {}
    BY <1>3 DEF ReapplyBlock, Continue, callVars
  <2>2. b \in Ancestors[o] \ Ancestors[c] /\ b \in Block
    BY <1>1, <2>1, AncestorsSelf DEF PathFrom, NextOn
  <2>3. c \in Ancestors[b] /\ b # o
    BY <1>1, <2>1, <2>2, AboveRoot, PathTip DEF PathFrom
  <2>4. PathFrom(c, n, o)'
    BY <1>1, <2>1, <2>2, <2>3 DEF PathFrom
  <2> QED
    BY <2>4 DEF PathInv
<1> QED
  BY <1>2, <1>3

\* A replay applies a branch of one block.
LEMMA PathReplays ==
    ASSUME NodeInv, ReplayReversible
    PROVE  PathInv'
<1>1. CASE Throw
  BY <1>1 DEF Throw, PathInv
<1>2. CASE ~Throw
  <2>1. PICK b \in Block :
           /\ Prev[b] = chead /\ chead' = chead /\ (b \in index \/ Add(b))
           /\ first' = {b} /\ second' = {} /\ pc' = "apply"
    BY <1>2 DEF ReplayReversible
  <2>2. b \in Block \ {Genesis}
    BY <2>1 DEF Add, NodeInv, BaseInv, FdbInv, FdbTypeOK
  <2>3. /\ chead \in Block /\ Ancestors[b] = {b} \cup Ancestors[chead]
        /\ b \notin Ancestors[chead] /\ chead \in Ancestors[chead]
    BY <2>1, <2>2, ChildFacts, AncestorsSelf
  <2>4. PathFrom(chead, b, chead)'
    BY <2>1, <2>3 DEF PathFrom
  <2> QED
    BY <2>1, <2>2, <2>3, <2>4 DEF PathInv
<1> QED
  BY <1>1, <1>2

\* PathInv is inductive: no other call is within a switch.
LEMMA PathNext ==
    ASSUME NodeInv, NodeInv', PathInv, [Next]_vars
    PROVE  PathInv'
<1>1. CASE UNCHANGED vars
  BY <1>1 DEF vars, ctlVars, callVars, PathInv, PathFrom
<1>2. CASE \E b \in Block : RejectBlock(b)
  BY <1>1, <1>2 DEF RejectBlock
<1>3. CASE \/ StartBlock \/ AbortBlock \/ Shutdown \/ Crash \/ Startup \/ StartupGenesis
           \/ (\E b \in Block : PushBlock(b)) \/ (\E b \in Produced : CommitBlock(b))
  BY <1>3 DEF StartBlock, AbortBlock, Shutdown, Crash, Startup, StartupGenesis, PushBlock,
     CommitBlock, PathInv
<1>4. CASE \/ ReversalOfEmptyBranch \/ LogIrreversible \/ AppendBlock \/ AppendApplyThrows
           \/ AppendThrows \/ AdvanceToLogHead \/ CommitMarkValid \/ CommitPush
           \/ StartupHead \/ StartupChecks \/ StartupBestBranch \/ ReplayIrreversible \/ ReplayEnds
  <2>1. CASE Return \/ Throw
    BY <2>1 DEF Return, Throw, PathInv
  <2>2. CASE ~(Return \/ Throw)
    BY <1>4, <2>2 DEF ReversalOfEmptyBranch, LogIrreversible, AppendBlock, AppendApplyThrows,
       AppendThrows, AdvanceToLogHead, CommitMarkValid, CommitPush, StartupHead, StartupChecks,
       StartupBestBranch, ReplayIrreversible, ReplayEnds, LogReturns, LogThrows, Logged,
       ReplayOrEnd, StartupEnds, Continue, PathInv
  <2> QED
    BY <2>1, <2>2
<1> QED
  BY <1>1, <1>2, <1>3, <1>4, PathBegins, PathPops, PathApplies, PathReapplies, PathReplays
     DEF Next, Step

\* The asserts of a fork switch do not fire: pop_block never reaches beyond the
\* root, the head meets the branches where they part, and each block to apply,
\* or to apply again, is still in the fork database, whatever has been removed,
\* popped or undone before.
THEOREM NodeSwitchInSync ==
    ASSUME ~MayReplay
    PROVE  Spec => []SwitchInSync
<1>1. Init => PathInv
  BY DEF Init, PathInv
<1>2. NodeInv /\ NodeInv' /\ PathInv /\ [Next]_vars => PathInv'
  BY PathNext
<1>3. ASSUME NodeInv, PathInv
      PROVE  SwitchInSync
  <2> SUFFICES ASSUME pc \in {"pop", "apply", "unapply"}
               PROVE  SwitchInSync
    BY DEF SwitchInSync
  <2>1. /\ Serving /\ SwitchInv /\ FdbInv /\ root \in Block /\ chead \in validated \cup {root}
        /\ validated \subseteq index /\ index \subseteq Block \ {Genesis}
        /\ ValidClosed(root, validated)
    BY <1>3, RunFacts DEF Serving, ServingInv, CallPosition
  <2>2. PICK c \in Block, n \in Block, o \in Block : PathFrom(c, n, o)
    BY <1>3 DEF PathInv
  <2>3. pc = "pop" \/ (pc = "unapply" /\ chead \in first) => Known(Prev[chead])
    <3>1. chead \in first \cup second => chead \in validated
      BY <2>1 DEF SwitchInv
    <3>2. chead \in validated => Known(Prev[chead])
      BY <2>1 DEF ValidClosed, Known
    <3> QED
      BY <2>1, <3>1, <3>2 DEF SwitchInv
  <2>4. ASSUME pc = "apply"
        PROVE  NextOn(first, chead) \cap index # {}
    <3>1. PICK d \in NextOn(first, chead) : TRUE
      BY <2>2, <2>4, PathUp DEF PathFrom
    <3>2. PICK t \in index : first \subseteq Ancestors[t]
      BY <2>1, <2>4 DEF SwitchInv, Target
    <3>3. d \in Ancestors[t] /\ d # root /\ root \in Ancestors[d] /\ d \in Block
      BY <2>1, <3>1, <3>2, AncestorsSelf DEF NextOn, SwitchInv
    <3>4. d \notin Ancestors[root]
      BY <2>1, <3>3, AncestorsAntisymmetric
    <3>5. d \in index
      BY <2>1, <3>2, <3>3, <3>4, BranchInIndex DEF FdbInv, Linked
    <3> QED
      BY <3>1, <3>5
  <2>5. ASSUME pc = "unapply", chead \notin first, second # {}
        PROVE  NextOn(second, chead) \cap index # {}
    <3>1. PICK d \in NextOn(second, chead) : TRUE
      BY <2>2, <2>5, PathUp DEF PathFrom
    <3>2. d \in index
      BY <2>1, <3>1 DEF NextOn, SwitchInv
    <3> QED
      BY <3>1, <3>2
  <2> QED
    BY <2>3, <2>4, <2>5 DEF SwitchInSync
<1>4. NodeInv /\ PathInv => SwitchInSync
  BY <1>3
<1> QED
  BY <1>1, <1>2, <1>4, NodeHolds, PTL DEF Spec

-----------------------------------------------------------------------------
(***************************************************************************)
(* The node implements IrreversibleChain.  The refinement mapping is that  *)
(* of ChainSpec: the block log is the chain of final blocks, and the tip   *)
(* is the head of a running node, the last block logged of one that is not *)
(* running.                                                                *)
(***************************************************************************)
Tip == IF Serving THEN chead ELSE LogHead

\* The assert of commit_block ("committed block did not become the new head in
\* fork database") does not fire.  It may when a switch that failed has left
\* the fork database with a head that is preferred to the node's own.
CommitTakesHead == [][CommitMarkValid => head' \in made]_vars

\* The steps of the abstract chain, in terms of the node.
LEMMA ChainSteps ==
    ASSUME StateTypes
    PROVE  /\ UNCHANGED <<blog, Tip>> => [Chain!Next]_(Chain!chainVars)
           /\ blog' = blog /\ Tip' = LogHead => Chain!Next
           /\ \A b \in Block \ {Genesis} :
                blog' = blog /\ Prev[b] = Tip /\ Tip' = b => Chain!Next
           /\ blog' = blog /\ Tip # LogHead /\ Tip' = Prev[Tip] => Chain!Next
           /\ \A b \in Block :
                blog' = blog /\ Tip = LogHead /\ LogHead \in Ancestors[b] /\ Tip' = b => Chain!Next
           /\ \A b \in Block \ {Genesis} :
                /\ blog' = Append(blog, b) /\ Prev[b] = LogHead
                /\ b \in Ancestors[Tip] \/ Prev[b] = Tip
                /\ Tip' \in {Tip, b} /\ b \in Ancestors[Tip']
                => Chain!Next
<1>1. LogHead = blog[Len(blog)]
  BY LastOfSeq DEF StateTypes, LogHead
<1>0. Chain!Ancestors = Ancestors
  BY DEF Chain!Ancestors, Chain!PrevClosed, Ancestors, PrevClosed
<1>2. UNCHANGED <<blog, Tip>> => [Chain!Next]_(Chain!chainVars)
  BY DEF Tip, Chain!chainVars
<1>3. blog' = blog /\ Tip' = LogHead => Chain!Next
  BY <1>1 DEF Tip, Chain!Next, Chain!Stop, Chain!LastFinal
<1>4. ASSUME NEW b \in Block \ {Genesis}, blog' = blog, Prev[b] = Tip, Tip' = b
      PROVE  Chain!Next
  <2>1. Chain!Apply(b)
    BY <1>4 DEF Tip, Chain!Apply
  <2> QED
    BY <2>1 DEF Chain!Next
<1>5. ASSUME blog' = blog, Tip # LogHead, Tip' = Prev[Tip]
      PROVE  Chain!Next
  BY <1>1, <1>5 DEF Tip, Chain!Next, Chain!TakeBack, Chain!LastFinal
<1>6. ASSUME NEW b \in Block, blog' = blog, Tip = LogHead, LogHead \in Ancestors[b], Tip' = b
      PROVE  Chain!Next
  <2>1. Chain!Resume(b)
    BY <1>0, <1>1, <1>6 DEF Tip, Chain!Resume, Chain!LastFinal
  <2> QED
    BY <2>1 DEF Chain!Next
<1>7. ASSUME NEW b \in Block \ {Genesis},
             blog' = Append(blog, b), Prev[b] = LogHead,
             b \in Ancestors[Tip] \/ Prev[b] = Tip,
             Tip' \in {Tip, b}, b \in Ancestors[Tip']
      PROVE  Chain!Next
  <2>1. Chain!Finalize(b)
    BY <1>0, <1>1, <1>7 DEF Tip, Chain!Finalize, Chain!LastFinal
  <2> QED
    BY <2>1 DEF Chain!Next
<1> QED
  BY <1>2, <1>3, <1>4, <1>5, <1>6, <1>7

\* The tip of a running node, and of one that is not running.
LEMMA TipFacts ==
    /\ Serving => Tip = chead
    /\ ~Serving => Tip = LogHead
    /\ Serving' => Tip' = chead'
    /\ ~Serving' => Tip' = LogHead'
BY DEF Tip

\* A push, a switch and a production.
LEMMA SwitchChain ==
    ASSUME NodeInv, CommitMarkValid => head' \in made,
           \/ \E b \in Block : PushBlock(b)
           \/ StartBlock \/ AbortBlock
           \/ \E b \in Produced : CommitBlock(b)
           \/ MaybeSwitchForks \/ PopBlock \/ ApplyBlock \/ ApplyBlockThrows
           \/ UnapplyBlock \/ ReversalOfEmptyBranch \/ ReapplyBlock
           \/ CommitMarkValid \/ CommitPush
    PROVE  [Chain!Next]_(Chain!chainVars)
<1>1. StateTypes /\ Serving /\ blog' = blog /\ LogHead' = LogHead
  <2>1. Serving
    BY DEF PushBlock, StartBlock, AbortBlock, CommitBlock, MaybeSwitchForks, PopBlock, ApplyBlock,
       ApplyBlockThrows, UnapplyBlock, ReversalOfEmptyBranch, ReapplyBlock, CommitMarkValid,
       CommitPush, Serving
  <2>2. blog' = blog
    BY DEF PushBlock, StartBlock, AbortBlock, CommitBlock, MaybeSwitchForks, PopBlock, ApplyBlock,
       ApplyBlockThrows, UnapplyBlock, ReversalOfEmptyBranch, ReapplyBlock, CommitMarkValid,
       CommitPush
  <2> QED
    BY <2>1, <2>2 DEF NodeInv, BaseInv, LogHead
<1>2. CASE pc' = "failed"
  <2>1. Tip' = LogHead
    BY <1>1, <1>2, TipFacts DEF Serving
  <2> QED
    BY <1>1, <2>1, ChainSteps
<1>3. CASE pc' # "failed"
  <2>1. pc' \in {"log", "switch", "idle", "mark", "best", "replay", "apply", "pop", "unapply", "crashed"}
    <3>1. CASE Return \/ Throw
      BY <1>3, <3>1, ReturnControl
    <3>2. CASE ~(Return \/ Throw)
      BY <3>2 DEF PushBlock, StartBlock, AbortBlock, CommitBlock, MaybeSwitchForks, PopBlock,
         ApplyBlock, ApplyBlockThrows, UnapplyBlock, ReversalOfEmptyBranch, ReapplyBlock,
         CommitMarkValid, CommitPush, Continue
    <3> QED
      BY <3>1, <3>2
  <2>2. Tip = chead /\ Tip' = chead'
    BY <1>1, <2>1, TipFacts DEF Serving
  <2>3. CASE chead' = chead
    BY <1>1, <2>2, <2>3, ChainSteps
  <2>4. CASE PopBlock \/ UnapplyBlock
    <3>1. pc \in {"pop", "unapply"} /\ chead' = Prev[chead]
      BY <2>4 DEF PopBlock, UnapplyBlock, PoppedHead
    <3>2. SwitchInv /\ LogPosition
      BY <1>1, <3>1, RunFacts DEF ServingInv, CallPosition
    <3>3. chead # root /\ LogHead = root
      BY <2>4, <3>1, <3>2 DEF PopBlock, UnapplyBlock, SwitchInv, LogPosition
    <3> QED
      BY <1>1, <2>2, <3>1, <3>3, ChainSteps
  <2>5. CASE ApplyBlock \/ ReapplyBlock
    <3>1. pc \in {"apply", "unapply"}
      BY <2>5 DEF ApplyBlock, ReapplyBlock
    <3>2. SwitchInv /\ root \in Block
      BY <1>1, <3>1, RunFacts DEF ServingInv, CallPosition
    <3>3. PICK b \in first \cup second : Prev[b] = chead /\ chead' \in {b, chead}
      BY <2>5 DEF ApplyBlock, ReapplyBlock, NextOn
    <3>4. b \in Block /\ b # root /\ root \in Ancestors[b]
      BY <3>2 DEF SwitchInv, NodeInv, BaseInv, CallTypes
    <3>5. b # Genesis
      BY <3>2, <3>4, StepBack
    <3> QED
      BY <1>1, <2>2, <2>3, <3>3, <3>4, <3>5, ChainSteps
  <2>6. CASE CommitMarkValid
    <3>1. chead' = head' /\ head' \in made /\ pc = "mark"
      BY <2>6 DEF CommitMarkValid
    <3>2. head' \in Block \ {Genesis} /\ Prev[head'] = chead
      BY <1>1, <3>1, RunFacts, NodeAssumption
         DEF ServingInv, CallPosition, NodeInv, BaseInv, CallTypes
    <3> QED
      BY <1>1, <2>2, <3>1, <3>2, ChainSteps
  <2>7. \/ PopBlock \/ UnapplyBlock \/ ApplyBlock \/ ReapplyBlock \/ CommitMarkValid
        \/ chead' = chead
    BY DEF PushBlock, StartBlock, AbortBlock, CommitBlock, MaybeSwitchForks,
       ApplyBlockThrows, ReversalOfEmptyBranch, CommitPush
  <2> QED
    BY <2>3, <2>4, <2>5, <2>6, <2>7
<1> QED
  BY <1>2, <1>3

\* log_irreversible, and a crash in it.
LEMMA LogChain ==
    ASSUME NodeInv,
           \/ LogIrreversible \/ AppendBlock \/ AppendApplyThrows \/ AppendThrows
           \/ AdvanceToLogHead \/ Crash
    PROVE  [Chain!Next]_(Chain!chainVars)
<1>1. StateTypes
  BY DEF NodeInv, BaseInv
<1>2. CASE pc' \in {"failed", "down"} /\ blog' = blog
  <2>1. Tip' = LogHead
    BY <1>2, TipFacts DEF Serving, LogHead
  <2> QED
    BY <1>1, <1>2, <2>1, ChainSteps
<1>3. CASE LogIrreversible \/ AppendApplyThrows \/ AdvanceToLogHead
  <2>1. Serving /\ blog' = blog /\ chead' = chead
    BY <1>3 DEF LogIrreversible, AppendApplyThrows, AdvanceToLogHead, Serving
  <2>2. pc' \in {"push", "idle", "failed", "best", "replay", "append", "advance"}
    BY <1>3, ReturnControl DEF LogIrreversible, AppendApplyThrows, AdvanceToLogHead, LogReturns,
       LogThrows, Continue
  <2>3. CASE pc' # "failed"
    <3>1. Tip = chead /\ Tip' = chead
      BY <2>1, <2>2, <2>3, TipFacts DEF Serving
    <3> QED
      BY <1>1, <2>1, <3>1, ChainSteps
  <2> QED
    BY <1>2, <2>1, <2>3
<1>4. CASE AppendBlock
  <2>1. PICK b \in NextOn(first, LogHead) :
           /\ Logged(b)
           /\ \/ mode = "irreversible" /\ CanApply(b) /\ chead' = b
              \/ mode # "irreversible" /\ chead' = chead
    BY <1>4 DEF AppendBlock
  <2>2. Serving /\ pc = "append" /\ pc' \in {"append", "advance"} /\ blog' = Append(blog, b)
    BY <1>4, <2>1 DEF AppendBlock, Logged, Continue, Serving
  <2>3. b \in Block \ {Genesis} /\ Prev[b] = LogHead /\ b \in first
    BY <2>2, NextToLog DEF NextOn
  <2>4. Tip = chead /\ Tip' = chead'
    BY <2>2, TipFacts DEF Serving
  <2>5. mode # "irreversible" => b \in Ancestors[chead]
    BY <2>2, <2>3, RunFacts DEF ServingInv, CallPosition
  <2>6. b \in Ancestors[b]
    BY <2>3, AncestorsSelf
  <2>7. /\ b \in Ancestors[Tip] \/ Prev[b] = Tip
        /\ Tip' \in {Tip, b} /\ b \in Ancestors[Tip']
    BY <2>1, <2>4, <2>5, <2>6 DEF CanApply
  <2> QED
    BY <1>1, <2>2, <2>3, <2>7, ChainSteps
<1>5. CASE AppendThrows
  <2>1. PICK b \in NextOn(first, LogHead) : (CanApply(b) /\ chead' = b) \/ chead' = chead
    BY <1>5 DEF AppendThrows
  <2>2. Serving /\ pc = "append" /\ pc' = "advance" /\ blog' = blog
    BY <1>5 DEF AppendThrows, Serving
  <2>3. b \in Block \ {Genesis}
    BY <2>2, NextToLog
  <2>4. Tip = chead /\ Tip' = chead'
    BY <2>2, TipFacts DEF Serving
  <2> QED
    BY <1>1, <2>1, <2>2, <2>3, <2>4, ChainSteps DEF CanApply
<1>6. CASE Crash /\ blog' # blog
  <2>1. pc = "append" /\ Serving /\ ~Serving' /\ Tip = chead /\ Tip' = LogHead'
    BY <1>6, TipFacts DEF Crash, Serving
  <2>2. PICK b \in NextOn(first, LogHead) :
           (CanApply(b) \/ mode # "irreversible") /\ blog' = Append(blog, b)
    BY <1>6 DEF Crash
  <2>3. b \in Block \ {Genesis} /\ Prev[b] = LogHead /\ b \in first
    BY <2>1, NextToLog DEF NextOn
  <2>4. LogHead' = b
    BY <2>2, <2>3, LogGrows DEF NodeInv, BaseInv
  <2>5. mode # "irreversible" => b \in Ancestors[chead]
    BY <2>1, <2>3, RunFacts DEF ServingInv, CallPosition
  <2>6. b \in Ancestors[b]
    BY <2>3, AncestorsSelf
  <2>7. /\ b \in Ancestors[Tip] \/ Prev[b] = Tip
        /\ Tip' \in {Tip, b} /\ b \in Ancestors[Tip']
    BY <2>1, <2>2, <2>4, <2>5, <2>6 DEF CanApply
  <2> QED
    BY <1>1, <2>2, <2>3, <2>7, ChainSteps
<1>7. CASE Crash /\ blog' = blog
  BY <1>2, <1>7 DEF Crash
<1> QED
  BY <1>3, <1>4, <1>5, <1>6, <1>7

\* Stopping, starting and replaying.
LEMMA StartChain ==
    ASSUME NodeInv, NodeInv',
           \/ Shutdown \/ Startup \/ StartupGenesis
           \/ StartupHead \/ StartupChecks \/ StartupBestBranch
           \/ ReplayIrreversible \/ ReplayReversible \/ ReplayEnds
    PROVE  [Chain!Next]_(Chain!chainVars)
<1>1. StateTypes /\ blog' = blog /\ LogHead' = LogHead
  <2>1. blog' = blog
    BY DEF Shutdown, Startup, StartupGenesis, StartupHead, StartupChecks, StartupBestBranch,
       ReplayIrreversible, ReplayReversible, ReplayEnds
  <2> QED
    BY <2>1 DEF NodeInv, BaseInv, LogHead
<1>2. CASE ~Serving'
  BY <1>1, <1>2, TipFacts, ChainSteps
<1>3. CASE Serving'
  <2>1. CASE StartupChecks \/ ReplayIrreversible
    <3>1. ~Serving /\ pc' \notin {"append", "advance"}
      <4>1. CASE StartupChecks
        <5>1. pc' \in {"best", "idle", "replaylog", "replay", "failed"}
          BY <4>1, ReplayOrEndFacts, ReturnControl DEF StartupChecks, NodeInv, BaseInv
        <5> QED
          BY <4>1, <5>1 DEF StartupChecks, Serving
      <4>2. CASE ReplayIrreversible
        BY <4>2, ReturnControl DEF ReplayIrreversible, Serving, Continue
      <4> QED
        BY <2>1, <4>1, <4>2
    <3>2. Tip = LogHead /\ Tip' = chead'
      BY <1>3, <3>1, TipFacts
    <3>3. OnRoot' /\ LogPosition' /\ chead' \in Block
      BY <1>3 DEF NodeInv, BaseInv, StateTypes, PositionInv, ServingInv
    <3>4. LogHead \in Ancestors[chead']
      BY <1>1, <3>1, <3>3 DEF OnRoot, LogPosition
    <3> QED
      BY <1>1, <3>2, <3>3, <3>4, ChainSteps
  <2>2. CASE StartupBestBranch \/ ReplayReversible \/ ReplayEnds
    <3>1. Serving /\ chead' = chead
      BY <2>2 DEF StartupBestBranch, ReplayReversible, ReplayEnds, Serving
    <3> QED
      BY <1>1, <1>3, <3>1, TipFacts, ChainSteps
  <2>3. CASE Shutdown \/ Startup \/ StartupGenesis \/ StartupHead
    BY <1>3, <2>3 DEF Shutdown, Startup, StartupGenesis, StartupHead, Continue, Serving
  <2> QED
    BY <2>1, <2>2, <2>3
<1> QED
  BY <1>2, <1>3

\* The node is a chain of final blocks that only grows, with a tip that never
\* leaves it: every step of a node that is not told to replay, in which
\* commit_block's assert does not fire, is a step or a stutter of the abstract
\* chain.
THEOREM NodeImplementsChain ==
    ASSUME ~MayReplay
    PROVE  Spec /\ CommitTakesHead => ChainSpec
<1>1. Init => Chain!Init
  BY DEF Init, Chain!Init, Serving
<1>2. /\ NodeInv /\ NodeInv' /\ [Next]_vars /\ [CommitMarkValid => head' \in made]_vars
      => [Chain!Next]_(Chain!chainVars)
  <2> SUFFICES ASSUME NodeInv, NodeInv', [Next]_vars, [CommitMarkValid => head' \in made]_vars
               PROVE  [Chain!Next]_(Chain!chainVars)
    OBVIOUS
  <2>1. CASE UNCHANGED vars
    BY <2>1 DEF vars, ctlVars, Serving, LogHead, Chain!chainVars
  <2>2. CASE \E b \in Block : RejectBlock(b)
    BY <2>1, <2>2 DEF RejectBlock
  <2>3. CASE Next
    <3>1. CASE CommitMarkValid => head' \in made
      BY <2>2, <2>3, <3>1, SwitchChain, LogChain, StartChain DEF Next, Step
    <3> QED
      BY <2>1, <3>1
  <2> QED
    BY <2>1, <2>3
<1> QED
  BY <1>1, <1>2, NodeHolds, PTL DEF Spec, CommitTakesHead, ChainSpec, Chain!Spec

-----------------------------------------------------------------------------
(***************************************************************************)
(* Irreversible mode.  The head is the last block logged as long as no     *)
(* append throws: apply_block comes before blog.append there, so one that  *)
(* throws leaves the head one block ahead of the log.                      *)
(***************************************************************************)
AppendsSucceed == [][~AppendThrows]_vars

AtLog == mode = "irreversible" /\ Serving => chead = LogHead

\* AtLog is inductive, given NodeInv.
LEMMA AtLogNext ==
    ASSUME ~MayReplay, NodeInv, NodeInv', AtLog, [Next]_vars, [~AppendThrows]_vars
    PROVE  AtLog'
<1> SUFFICES ASSUME mode' = "irreversible", Serving'
             PROVE  chead' = LogHead'
  BY DEF AtLog
<1>1. BaseInv /\ ControlInv /\ PositionInv /\ StoppedInv
  BY DEF NodeInv, PositionInv
<1>2. ASSUME mode = "irreversible", Serving, chead' = chead, blog' = blog
      PROVE  chead' = LogHead'
  BY <1>2 DEF AtLog, LogHead
<1>3. CASE StartupChecks
  <2>1. pc = "init" /\ mode = "irreversible" /\ UNCHANGED <<chead, blog, root>>
    BY <1>3 DEF StartupChecks, fdbVars
  <2>2. chead = root
    BY <1>1, <2>1 DEF StoppedInv
  <2>3. pc' \notin {"append", "advance"}
    BY <1>3 DEF StartupChecks, ReplayOrEnd, StartupEnds, Throw
  <2>4. LogHead' = root'
    BY <2>3 DEF NodeInv, PositionInv, ServingInv, LogPosition
  <2> QED
    BY <2>1, <2>2, <2>4
<1>4. CASE ReplayIrreversible
  <2>1. pc = "replaylog" /\ caller = "replay" /\ blog' = blog
    BY <1>1, <1>4 DEF ReplayIrreversible, ControlInv, CallInv
  <2>2. PICK b \in Block :
          \/ chead' = b /\ Continue(IF b # LogHead THEN "replaylog" ELSE "replay")
          \/ Throw
    BY <1>4 DEF ReplayIrreversible
  <2>3. ~Throw
    BY <2>1 DEF Throw, Serving
  <2>4. chead' = b /\ b = LogHead
    BY <2>2, <2>3 DEF Continue, Serving
  <2> QED
    BY <2>1, <2>4 DEF LogHead
<1>5. CASE AppendBlock
  <2>1. mode = "irreversible"
    BY <1>5 DEF AppendBlock
  <2>2. PICK b \in Block : chead' = b /\ blog' = Append(blog, b)
    <3>1. first \subseteq Block
      BY <1>1 DEF BaseInv, CallTypes
    <3> QED
      BY <1>5, <2>1, <3>1 DEF AppendBlock, Logged, NextOn
  <2> QED
    BY <1>1, <2>2, LastOfAppend DEF BaseInv, StateTypes, LogHead
<1>6. CASE UNCHANGED vars
  BY <1>2, <1>6 DEF vars, ctlVars, Serving
<1>7. ASSUME Next, ~StartupChecks, ~ReplayIrreversible, ~AppendBlock
      PROVE  chead' = LogHead'
  <2>1. ~Startup /\ ~StartupGenesis /\ ~Crash /\ ~Shutdown /\ ~StartupHead
    BY DEF Startup, StartupGenesis, Crash, Shutdown, StartupHead, Continue, Serving
  <2>2. ~AppendThrows
    <3>1. failures \in Nat
      BY <1>1, NodeAssumption DEF BaseInv, StateTypes
    <3>2. AppendThrows => failures' # failures
      BY <3>1 DEF AppendThrows
    <3> QED
      BY <3>2 DEF vars, ctlVars
  <2>3. ASSUME PopBlock \/ ApplyBlock \/ UnapplyBlock \/ ReapplyBlock \/ CommitMarkValid
        PROVE  FALSE
    <3>1. mode = "irreversible" /\ pc \in {"pop", "apply", "unapply", "mark"}
      BY <2>3 DEF PopBlock, ApplyBlock, UnapplyBlock, ReapplyBlock, CommitMarkValid
    <3> QED
      BY <1>1, <3>1 DEF ControlInv, ModeInv
  <2>4. ASSUME \/ \E b \in Block : PushBlock(b) \/ RejectBlock(b)
               \/ \E b \in Produced : CommitBlock(b)
               \/ StartBlock \/ AbortBlock \/ CommitPush
        PROVE  chead' = LogHead'
    <3>1. mode = "irreversible" /\ pc \in {"idle", "push"} /\ chead' = chead /\ blog' = blog
      BY <2>4 DEF PushBlock, RejectBlock, CommitBlock, StartBlock, AbortBlock, CommitPush,
                  vars, ctlVars
    <3> QED
      BY <1>2, <3>1 DEF Serving
  <2>5. ASSUME MaybeSwitchForks \/ ApplyBlockThrows \/ ReversalOfEmptyBranch
        PROVE  chead' = LogHead'
    <3>1. /\ mode = "irreversible" /\ pc \in {"switch", "apply", "unapply"}
          /\ chead' = chead /\ blog' = blog
      BY <2>5 DEF MaybeSwitchForks, ApplyBlockThrows, ReversalOfEmptyBranch
    <3> QED
      BY <1>2, <3>1 DEF Serving
  <2>6. ASSUME \/ LogIrreversible \/ AppendApplyThrows \/ AdvanceToLogHead
               \/ StartupBestBranch \/ ReplayReversible \/ ReplayEnds
        PROVE  chead' = LogHead'
    <3>1. /\ mode = "irreversible" /\ pc \in {"log", "append", "advance", "best", "replay"}
          /\ chead' = chead /\ blog' = blog
      BY <2>6 DEF LogIrreversible, AppendApplyThrows, AdvanceToLogHead, StartupBestBranch,
                  ReplayReversible, ReplayEnds
    <3> QED
      BY <1>2, <3>1 DEF Serving
  <2> QED
    BY <1>7, <2>1, <2>2, <2>3, <2>4, <2>5, <2>6 DEF Next, Step
<1> QED
  BY <1>3, <1>4, <1>5, <1>6, <1>7

\* In irreversible mode the node's state is that of the last block logged,
\* after every call, restart, crash and change of mode, when no append throws.
THEOREM NodeIrreversibleHeadIsLogged ==
    ASSUME ~MayReplay
    PROVE  Spec /\ AppendsSucceed => []IrreversibleHeadIsLogged
<1>1. Init => AtLog
  BY LastOfAppend DEF Init, AtLog, LogHead, SeqExt!Last
<1>2. NodeInv /\ NodeInv' /\ AtLog /\ [Next]_vars /\ [~AppendThrows]_vars => AtLog'
  BY AtLogNext
<1>3. AtLog => IrreversibleHeadIsLogged
  BY DEF AtLog, IrreversibleHeadIsLogged, Idle, Serving
<1> QED
  BY <1>1, <1>2, <1>3, NodeHolds, PTL DEF Spec, AppendsSucceed

-----------------------------------------------------------------------------
(***************************************************************************)
(* The undo stack.  Its sessions are those of a branch from the committed  *)
(* block on, and its top is the block whose state the database holds.      *)
(***************************************************************************)
Stacked(b, u) ==
    \A i \in 1..Len(u) : u[i] # Genesis /\ Prev[u[i]] = IF i = 1 THEN b ELSE u[i - 1]

Top(b, u) == IF u = <<>> THEN b ELSE SeqExt!Last(u)

\* A branch has one block of each number.
LEMMA SameNumber ==
    ASSUME NEW x \in Block, NEW a \in Ancestors[x], NEW c \in Ancestors[x],
           BlockNum[a] = BlockNum[c]
    PROVE  a = c
<1>1. a \in Block /\ c \in Block
  BY AncestorsSelf
<1>2. BlockNum[a] \in Nat /\ BlockNum[c] \in Nat
  BY <1>1, BlockNumAssumption
<1>3. CASE a \in Ancestors[c]
  BY <1>1, <1>2, <1>3, AncestorNum
<1>4. CASE c \in Ancestors[a]
  BY <1>1, <1>2, <1>4, AncestorNum
<1> QED
  BY <1>3, <1>4, AncestorsLinear

\* A session is pushed.
LEMMA StackAppend ==
    ASSUME NEW b \in Block, NEW u \in Seq(Block), Stacked(b, u),
           NEW c \in Block \ {Genesis}, Prev[c] = Top(b, u)
    PROVE  Stacked(b, Append(u, c)) /\ Top(b, Append(u, c)) = c
<1> DEFINE v == Append(u, c)
           n == Len(u)
<1>1. /\ n \in Nat /\ Len(v) = n + 1 /\ v # <<>> /\ SeqExt!Last(v) = c
      /\ v[n + 1] = c /\ \A i \in 1..n : v[i] = u[i]
  BY LastOfAppend
<1>2. n = 0 => u = <<>>
  OBVIOUS
<1>3. n # 0 => Prev[c] = u[n]
  BY LastOfSeq DEF Top
<1> HIDE DEF v, n
<1>4. ASSUME NEW i \in 1..(n + 1)
      PROVE  v[i] # Genesis /\ Prev[v[i]] = IF i = 1 THEN b ELSE v[i - 1]
  <2>1. CASE i = n + 1
    <3>1. CASE n = 0
      BY <1>1, <1>2, <2>1, <3>1 DEF Top
    <3>2. CASE n # 0
      <4>1. i # 1 /\ i - 1 = n /\ n \in 1..n
        BY <1>1, <2>1, <3>2
      <4> QED
        BY <1>1, <1>3, <2>1, <3>2, <4>1
    <3> QED
      BY <3>1, <3>2
  <2>2. CASE i \in 1..n
    <3>1. u[i] # Genesis /\ Prev[u[i]] = IF i = 1 THEN b ELSE u[i - 1]
      BY <2>2 DEF Stacked, n
    <3>2. v[i] = u[i] /\ (i # 1 => v[i - 1] = u[i - 1])
      BY <1>1, <2>2
    <3> QED
      BY <3>1, <3>2
  <2> QED
    BY <1>1, <2>1, <2>2
<1>5. Stacked(b, v) /\ Top(b, v) = c
  BY <1>1, <1>4 DEF Stacked, Top
<1> QED
  BY <1>5 DEF v

\* A sequence without its last element, and without its first.
LEMMA PartFacts ==
    ASSUME NEW u \in Seq(Block), NEW n \in Nat \ {0}, n = Len(u)
    PROVE  /\ SubSeq(u, 1, n - 1) \in Seq(Block) /\ Len(SubSeq(u, 1, n - 1)) = n - 1
           /\ \A i \in 1..(n - 1) : SubSeq(u, 1, n - 1)[i] = u[i]
           /\ SubSeq(u, 2, n) \in Seq(Block) /\ Len(SubSeq(u, 2, n)) = n - 1
           /\ \A i \in 1..(n - 1) : SubSeq(u, 2, n)[i] = u[i + 1]
<1>1. \A i \in 1..n : u[i] \in Block
  OBVIOUS
<1>2. PICK m \in Nat : m = n - 1
  OBVIOUS
<1>3. m \in Int /\ n \in Int /\ \A i \in 1..m : u[i] \in Block
  BY <1>1, <1>2
<1>4. /\ SubSeq(u, 1, m) \in Seq(Block) /\ Len(SubSeq(u, 1, m)) = IF 1 <= m THEN m - 1 + 1 ELSE 0
      /\ \A i \in 1..(m - 1 + 1) : SubSeq(u, 1, m)[i] = u[1 + i - 1]
  BY <1>3, SubSeqProperties
<1>5. m - 1 + 1 = m /\ \A i \in 1..m : 1 + i - 1 = i
  BY <1>3
<1>6. (1 <= m \/ m = 0) /\ 1..m = 1..(n - 1)
  BY <1>2
<1>7. /\ SubSeq(u, 2, n) \in Seq(Block) /\ Len(SubSeq(u, 2, n)) = IF 2 <= n THEN n - 2 + 1 ELSE 0
      /\ \A i \in 1..(n - 2 + 1) : SubSeq(u, 2, n)[i] = u[2 + i - 1]
  BY <1>1, <1>3, SubSeqProperties
<1>8. /\ n - 2 + 1 = n - 1 /\ (2 <= n \/ n - 1 = 0)
      /\ \A i \in 1..(n - 1) : 2 + i - 1 = i + 1
  OBVIOUS
<1>9. /\ SubSeq(u, 1, m) \in Seq(Block) /\ Len(SubSeq(u, 1, m)) = m
      /\ \A i \in 1..m : SubSeq(u, 1, m)[i] = u[i]
  BY <1>4, <1>5, <1>6
<1>10. /\ SubSeq(u, 2, n) \in Seq(Block) /\ Len(SubSeq(u, 2, n)) = n - 1
       /\ \A i \in 1..(n - 1) : SubSeq(u, 2, n)[i] = u[i + 1]
  BY <1>7, <1>8
<1> QED
  BY <1>2, <1>9, <1>10

\* A session is undone.
LEMMA StackPop ==
    ASSUME NEW b \in Block, NEW u \in Seq(Block), Stacked(b, u), u # <<>>
    PROVE  /\ Stacked(b, SeqExt!Front(u))
           /\ Top(b, u) # Genesis /\ Top(b, SeqExt!Front(u)) = Prev[Top(b, u)]
<1> DEFINE v == SeqExt!Front(u)
           n == Len(u)
<1>1. n \in Nat \ {0} /\ Top(b, u) = u[n]
  BY LastOfSeq DEF Top
<1>2. v \in Seq(Block) /\ Len(v) = n - 1 /\ \A i \in 1..(n - 1) : v[i] = u[i]
  <2>1. v = SubSeq(u, 1, n - 1)
    BY DEF SeqExt!Front
  <2>2. PICK w : w = SubSeq(u, 1, n - 1)
    OBVIOUS
  <2>3. w \in Seq(Block) /\ Len(w) = n - 1 /\ \A i \in 1..(n - 1) : w[i] = u[i]
    BY <1>1, <2>2, PartFacts
  <2>4. v = w
    BY <2>1, <2>2
  <2> QED
    <3> HIDE DEF v, n
    <3> QED BY <2>3, <2>4
<1>3. \A i \in 1..n : u[i] # Genesis /\ Prev[u[i]] = IF i = 1 THEN b ELSE u[i - 1]
  BY DEF Stacked
<1> HIDE DEF v, n
<1>4. Stacked(b, v)
  <2> SUFFICES ASSUME NEW i \in 1..(n - 1)
               PROVE  v[i] # Genesis /\ Prev[v[i]] = IF i = 1 THEN b ELSE v[i - 1]
    BY <1>2 DEF Stacked
  <2>1. i \in 1..n /\ (i # 1 => i - 1 \in 1..(n - 1))
    BY <1>1
  <2> QED
    BY <1>2, <1>3, <2>1
<1>5. Top(b, v) = Prev[u[n]] /\ u[n] # Genesis
  <2>1. n \in 1..n
    BY <1>1
  <2>2. CASE n = 1
    <3>1. v = <<>>
      BY <1>2, <2>2
    <3> QED
      BY <1>3, <2>1, <2>2, <3>1 DEF Top
  <2>3. CASE n # 1
    <3>1. v # <<>> /\ n - 1 \in 1..(n - 1)
      BY <1>1, <1>2, <2>3
    <3>2. Top(b, v) = v[n - 1]
      BY <1>2, <3>1, LastOfSeq DEF Top
    <3> QED
      BY <1>2, <1>3, <2>1, <2>3, <3>1, <3>2
  <2> QED
    BY <2>2, <2>3
<1> QED
  BY <1>1, <1>4, <1>5 DEF v

\* The numbers of the sessions, and the first of them below all.
LEMMA StackNum ==
    ASSUME NEW b \in Block, NEW u \in Seq(Block), Stacked(b, u)
    PROVE  /\ Top(b, u) \in Block
           /\ BlockNum[Top(b, u)] = BlockNum[b] + Len(u)
           /\ b \in Ancestors[Top(b, u)]
           /\ \A i \in 1..Len(u) :
                /\ u[i] \in Block /\ BlockNum[u[i]] = BlockNum[b] + i
                /\ b \in Ancestors[u[i]] /\ u[1] \in Ancestors[u[i]]
<1> DEFINE Fine(i) == /\ u[i] \in Block /\ BlockNum[u[i]] = BlockNum[b] + i
                      /\ b \in Ancestors[u[i]] /\ u[1] \in Ancestors[u[i]]
           T == {n \in Nat : n \in 1..Len(u) => Fine(n)}
<1>1. Len(u) \in Nat /\ BlockNum[b] \in Nat /\ \A i \in 1..Len(u) : u[i] \in Block
  BY BlockNumAssumption
<1>2. ASSUME NEW i \in 1..Len(u), NEW p \in Block, Prev[u[i]] = p, b \in Ancestors[p],
             BlockNum[p] = BlockNum[b] + i - 1, i = 1 \/ u[1] \in Ancestors[p]
      PROVE  Fine(i)
  <2>1. u[i] \in Block \ {Genesis}
    BY <1>1 DEF Stacked
  <2>2. BlockNum[u[i]] = BlockNum[p] + 1 /\ BlockNum[p] \in Nat
    BY <2>1, <1>2, BlockNumAssumption
  <2>3. Ancestors[u[i]] = {u[i]} \cup Ancestors[p]
    BY <2>1, <1>2, ChildFacts
  <2>4. BlockNum[u[i]] = BlockNum[b] + i
    <3>1. PICK x, y \in Nat, z \in Nat : x = BlockNum[u[i]] /\ y = BlockNum[p] /\ z = BlockNum[b]
      BY <1>1, <2>2
    <3>2. x = y + 1 /\ y = z + i - 1 /\ i \in Nat
      BY <1>1, <1>2, <2>2, <3>1
    <3> QED
      BY <3>1, <3>2
  <2> QED
    BY <1>2, <2>1, <2>3, <2>4
<1>3. 0 \in T
  OBVIOUS
<1>4. ASSUME NEW n \in Nat, n \in T
      PROVE  n + 1 \in T
  <2> HIDE DEF Fine
  <2> SUFFICES ASSUME n + 1 \in 1..Len(u)
               PROVE  Fine(n + 1)
    OBVIOUS
  <2>1. Prev[u[n + 1]] = IF n + 1 = 1 THEN b ELSE u[n]
    BY DEF Stacked
  <2>2. CASE n = 0
    <3>1. Prev[u[n + 1]] = b /\ BlockNum[b] = BlockNum[b] + (n + 1) - 1 /\ n + 1 = 1
      BY <1>1, <2>1, <2>2
    <3> QED
      BY <3>1, <1>2, AncestorsSelf
  <2>3. CASE n # 0
    <3>1. n \in 1..Len(u)
      BY <1>1, <2>3
    <3>2. Fine(n)
      BY <1>4, <3>1
    <3>3. /\ Prev[u[n + 1]] = u[n] /\ BlockNum[u[n]] = BlockNum[b] + (n + 1) - 1
          /\ u[n] \in Block /\ b \in Ancestors[u[n]] /\ u[1] \in Ancestors[u[n]]
      BY <1>1, <2>1, <2>3, <3>2 DEF Fine
    <3> QED
      BY <3>3, <1>2
  <2> QED
    BY <2>2, <2>3
<1>5. Nat \subseteq T
  <2> HIDE DEF T
  <2> QED
    BY <1>3, <1>4, InductiveSet
<1>6. \A i \in 1..Len(u) : Fine(i)
  BY <1>1, <1>5
<1>7. CASE u = <<>>
  BY <1>1, <1>7, AncestorsSelf DEF Top
<1>8. CASE u # <<>>
  <2>1. Top(b, u) = u[Len(u)] /\ Len(u) \in 1..Len(u)
    BY <1>8, LastOfSeq DEF Top
  <2> QED
    BY <1>6, <2>1
<1> QED
  BY <1>6, <1>7, <1>8

\* Everything but the first session stays when that one is committed.
LEMMA StackCommit ==
    ASSUME NEW b \in Block, NEW u \in Seq(Block), Stacked(b, u), u # <<>>
    PROVE  /\ Stacked(u[1], SubSeq(u, 2, Len(u)))
           /\ Top(u[1], SubSeq(u, 2, Len(u))) = Top(b, u)
<1> DEFINE n == Len(u)
           v == SubSeq(u, 2, n)
<1>1. n \in Nat \ {0} /\ Top(b, u) = u[n]
  BY LastOfSeq DEF Top
<1>2. v \in Seq(Block) /\ Len(v) = n - 1 /\ \A i \in 1..(n - 1) : v[i] = u[i + 1]
  BY <1>1, PartFacts
<1>3. \A i \in 1..n : u[i] # Genesis /\ Prev[u[i]] = IF i = 1 THEN b ELSE u[i - 1]
  BY DEF Stacked
<1> HIDE DEF v, n
<1>4. Stacked(u[1], v)
  <2> SUFFICES ASSUME NEW i \in 1..(n - 1)
               PROVE  v[i] # Genesis /\ Prev[v[i]] = IF i = 1 THEN u[1] ELSE v[i - 1]
    BY <1>2 DEF Stacked
  <2>1. /\ i + 1 \in 1..n /\ i + 1 # 1 /\ (i + 1) - 1 = i
        /\ i # 1 => i - 1 \in 1..(n - 1) /\ (i - 1) + 1 = i
    BY <1>1
  <2>2. v[i] # Genesis /\ Prev[v[i]] = u[i]
    BY <1>2, <1>3, <2>1
  <2> QED
    BY <1>2, <2>1, <2>2
<1>5. Top(u[1], v) = u[n]
  <2>1. CASE n = 1
    <3>1. v = <<>>
      BY <1>2, <2>1
    <3> QED
      BY <2>1, <3>1 DEF Top
  <2>2. CASE n # 1
    <3>1. v # <<>> /\ n - 1 \in 1..(n - 1) /\ (n - 1) + 1 = n
      BY <1>1, <1>2, <2>2
    <3>2. Top(u[1], v) = v[n - 1]
      BY <1>2, <3>1, LastOfSeq DEF Top
    <3> QED
      BY <1>2, <3>1, <3>2
  <2> QED
    BY <2>1, <2>2
<1> QED
  BY <1>1, <1>4, <1>5 DEF v, n

\* A block of the top's branch that comes right after the committed one is the
\* first session's.
LEMMA FirstSession ==
    ASSUME NEW b \in Block, NEW u \in Seq(Block), Stacked(b, u),
           NEW c \in Block \ {Genesis}, Prev[c] = b, c \in Ancestors[Top(b, u)]
    PROVE  u # <<>> /\ u[1] = c
<1>1. /\ Top(b, u) \in Block /\ BlockNum[Top(b, u)] = BlockNum[b] + Len(u)
      /\ \A i \in 1..Len(u) : /\ u[i] \in Block /\ BlockNum[u[i]] = BlockNum[b] + i
                              /\ u[1] \in Ancestors[u[i]]
  BY StackNum
<1>2. BlockNum[c] = BlockNum[b] + 1 /\ BlockNum[b] \in Nat /\ BlockNum[c] \in Nat
  BY BlockNumAssumption
<1>3. u # <<>>
  <2> SUFFICES ASSUME u = <<>>
               PROVE  FALSE
    OBVIOUS
  <2>1. c \in Ancestors[b]
    BY DEF Top
  <2> QED
    BY <1>2, <2>1, AncestorNum
<1>4. Top(b, u) = u[Len(u)] /\ Len(u) \in 1..Len(u) /\ 1 \in 1..Len(u)
  BY <1>3, LastOfSeq DEF Top
<1>5. u[1] \in Ancestors[Top(b, u)] /\ BlockNum[u[1]] = BlockNum[c]
  BY <1>1, <1>2, <1>4
<1> QED
  BY <1>1, <1>3, <1>5, SameNumber

\* kv_db.commit of the next block to log drops that session only.
LEMMA CommitSession ==
    ASSUME base \in Block, undo \in Seq(Block), Stacked(base, undo),
           NEW c \in Block \ {Genesis}, Prev[c] = base, c \in Ancestors[StateBlock],
           Committed(c)
    PROVE  Stacked(base, undo)' /\ StateBlock' = StateBlock
<1>1. StateBlock = Top(base, undo) /\ StateBlock' = Top(base', undo')
  BY DEF StateBlock, Top
<1>2. undo # <<>> /\ undo[1] = c
  BY <1>1, FirstSession
<1>3. BlockNum[c] - BlockNum[base] + 1 = 2
  BY BlockNumAssumption
<1>4. base' = undo[1] /\ undo' = SubSeq(undo, 2, Len(undo))
  BY <1>2, <1>3 DEF Committed
<1>5. /\ Stacked(undo[1], SubSeq(undo, 2, Len(undo)))
      /\ Top(undo[1], SubSeq(undo, 2, Len(undo))) = Top(base, undo)
  BY <1>2, StackCommit
<1> QED
  BY <1>1, <1>4, <1>5

-----------------------------------------------------------------------------
(***************************************************************************)
(* The state is that of the head.  While commit_block logs what its block  *)
(* makes irreversible, the session of that block is not yet on the stack:  *)
(* the state is then one block behind the head.  Three things may separate *)
(* the two for good, and are assumed not to happen:                        *)
(*   - the assert of commit_block fires (CommitTakesHead);                 *)
(*   - blog.append throws inside commit_block (CommitsLog), which then     *)
(*     undoes the session of a block that is the head already;             *)
(*   - the node is stopped while the fork database's head is not its own   *)
(*     (StopsAtForkHead), which a switch that failed may leave: the state  *)
(*     of the one is then opened with the head of the other.               *)
(***************************************************************************)
CommitsLog == [][~(AppendThrows /\ caller = "commit")]_vars

StopsAtForkHead == [][Shutdown => chead = head]_vars

InCommit == caller = "commit" /\ pc # "mark"

\* The steps of commit_block, and where the state is in them.
CommitInv ==
    /\ caller = "commit" => ~thrown /\ pc \in {"mark", "log", "append", "advance", "push"}
    /\ InCommit => chead # Genesis /\ Prev[chead] = StateBlock /\ \A b \in made : b = chead
    /\ pc = "mark" => \E b \in made : made = {b}

\* What log_irreversible commits is below the head.
LogBelowHead ==
    pc = "append" /\ mode # "irreversible" => \A b \in first : b # chead

\* The state a stopped node will start with.
StopState ==
    /\ pc = "down" => \A f \in saved : f.head = StateBlock
    /\ pc \in {"startup", "init", "replaylog"} /\ caller = "replay" => chead = StateBlock
    /\ pc = "startup" /\ caller # "replay" => head = StateBlock
    /\ pc = "init" /\ caller # "replay" => chead \in {base, StateBlock}
    /\ pc = "replaylog" => caller = "replay"

UndoInv ==
    /\ Stacked(base, undo)
    /\ Serving /\ ~InCommit => StateBlock = chead
    /\ CommitInv /\ LogBelowHead /\ StopState

\* A step after which the state is that of the head.
LEMMA AtHeadAgain ==
    ASSUME Stacked(base, undo)', StateBlock' = chead', caller' # "commit",
           pc' \notin {"down", "startup", "init", "mark"},
           pc' = "append" => mode' = "irreversible",
           pc' = "replaylog" => caller' = "replay"
    PROVE  UndoInv'
<1>1. CommitInv'
  BY DEF CommitInv, InCommit
<1>2. LogBelowHead'
  BY DEF LogBelowHead
<1>3. StopState'
  BY DEF StopState
<1> QED
  BY <1>1, <1>2, <1>3 DEF UndoInv

\* What UndoInv says of a call that is not commit_block's.
LEMMA AtHeadNow ==
    ASSUME UndoInv, NodeInv, Serving, caller # "commit"
    PROVE  /\ Stacked(base, undo) /\ StateBlock = chead
           /\ base \in Block /\ undo \in Seq(Block) /\ chead \in Block
           /\ UNCHANGED <<base, undo>> => Stacked(base, undo)' /\ StateBlock' = StateBlock
BY DEF UndoInv, InCommit, NodeInv, BaseInv, StateTypes, Stacked, StateBlock

\* The steps that leave the head and the state alone.
LEMMA UndoSame ==
    ASSUME UndoInv, NodeInv,
           \/ \E b \in Block : PushBlock(b)
           \/ StartBlock \/ AbortBlock \/ MaybeSwitchForks \/ ApplyBlockThrows
           \/ ReversalOfEmptyBranch \/ AppendApplyThrows \/ StartupBestBranch
           \/ ReplayReversible \/ ReplayEnds
    PROVE  UndoInv'
<1>1. Serving /\ UNCHANGED <<base, undo, chead>>
  <2>1. Serving
    BY DEF PushBlock, StartBlock, AbortBlock, MaybeSwitchForks, ApplyBlockThrows,
       ReversalOfEmptyBranch, AppendApplyThrows, StartupBestBranch, ReplayReversible, ReplayEnds,
       Serving
  <2> QED
    BY <2>1 DEF PushBlock, StartBlock, AbortBlock, MaybeSwitchForks, ApplyBlockThrows,
       ReversalOfEmptyBranch, AppendApplyThrows, StartupBestBranch, ReplayReversible, ReplayEnds
<1>2. caller # "commit"
  <2>1. CASE AppendApplyThrows
    BY <2>1 DEF AppendApplyThrows, NodeInv, ControlInv, ModeInv
  <2>2. CASE ~AppendApplyThrows
    <3>1. pc \in {"idle", "switch", "apply", "unapply", "best", "replay"}
      BY <2>2 DEF PushBlock, StartBlock, AbortBlock, MaybeSwitchForks, ApplyBlockThrows,
         ReversalOfEmptyBranch, StartupBestBranch, ReplayReversible, ReplayEnds
    <3> QED
      BY <3>1 DEF UndoInv, CommitInv
  <2> QED
    BY <2>1, <2>2
<1>3. Stacked(base, undo)' /\ StateBlock' = chead'
  BY <1>1, <1>2, AtHeadNow
<1>4. /\ caller' # "commit"
      /\ pc' \in {"log", "switch", "idle", "best", "replay", "failed", "apply", "pop", "unapply",
                  "crashed", "advance"}
  <2>1. CASE Return \/ Throw
    <3>1. caller' # "commit"
      BY <1>2, <2>1 DEF Return, Throw
    <3> QED
      BY <2>1, <3>1, ReturnControl
  <2>2. CASE ~(Return \/ Throw)
    BY <1>2, <2>2 DEF PushBlock, StartBlock, AbortBlock, MaybeSwitchForks, ApplyBlockThrows,
       ReversalOfEmptyBranch, AppendApplyThrows, StartupBestBranch, ReplayReversible, ReplayEnds,
       Continue, StartupEnds, callVars
  <2> QED
    BY <2>1, <2>2
<1> QED
  BY <1>3, <1>4, AtHeadAgain

\* pop_block undoes the session of the head.
LEMMA UndoPop ==
    ASSUME UndoInv, NodeInv, PopBlock \/ UnapplyBlock
    PROVE  UndoInv'
<1>1. /\ Serving /\ pc \in {"pop", "unapply"} /\ PoppedHead
      /\ caller' = caller /\ pc' \in {"pop", "apply", "unapply"}
  BY DEF PopBlock, UnapplyBlock, Continue, callVars, Serving
<1>2. caller # "commit"
  BY <1>1 DEF UndoInv, CommitInv
<1>3. /\ Stacked(base, undo) /\ StateBlock = chead
      /\ base \in Block /\ undo \in Seq(Block) /\ chead \in Block
  BY <1>1, <1>2, AtHeadNow
<1>4. chead # base
  <2>1. SwitchInv /\ LogHead = root /\ base = LogHead
    BY <1>1, RunFacts DEF ServingInv, CallPosition, LogPosition, NodeInv, BaseInv, StageInv
  <2> QED
    BY <1>1, <2>1 DEF PopBlock, UnapplyBlock, SwitchInv
<1>5. undo # <<>>
  BY <1>3, <1>4 DEF StateBlock
<1>6. base' = base /\ undo' = SeqExt!Front(undo) /\ chead' = Prev[chead]
  BY <1>1, <1>5 DEF PoppedHead
<1>7. StateBlock = Top(base, undo) /\ StateBlock' = Top(base', undo')
  BY DEF StateBlock, Top
<1>8. Stacked(base, SeqExt!Front(undo)) /\ Top(base, SeqExt!Front(undo)) = Prev[Top(base, undo)]
  BY <1>3, <1>5, StackPop
<1>9. Stacked(base, undo)' /\ StateBlock' = chead'
  BY <1>3, <1>6, <1>7, <1>8
<1> QED
  BY <1>1, <1>2, <1>9, AtHeadAgain

\* A block that is applied on the head puts its session on the stack.
LEMMA UndoPush ==
    ASSUME base \in Block, undo \in Seq(Block), Stacked(base, undo),
           NEW b \in Block \ {Genesis}, Prev[b] = StateBlock,
           base' = base, undo' = Append(undo, b)
    PROVE  Stacked(base, undo)' /\ StateBlock' = b
<1>1. StateBlock = Top(base, undo) /\ StateBlock' = Top(base', undo')
  BY DEF StateBlock, Top
<1>2. Stacked(base, Append(undo, b)) /\ Top(base, Append(undo, b)) = b
  BY <1>1, StackAppend
<1> QED
  BY <1>1, <1>2

\* The blocks of a switch are applied.
LEMMA UndoApply ==
    ASSUME UndoInv, NodeInv, ApplyBlock \/ ReapplyBlock
    PROVE  UndoInv'
<1>1. Serving /\ pc \in {"apply", "unapply"}
  BY DEF ApplyBlock, ReapplyBlock, Serving
<1>2. caller # "commit"
  BY <1>1 DEF UndoInv, CommitInv
<1>3. /\ Stacked(base, undo) /\ StateBlock = chead
      /\ base \in Block /\ undo \in Seq(Block) /\ chead \in Block
      /\ UNCHANGED <<base, undo>> => Stacked(base, undo)' /\ StateBlock' = StateBlock
  BY <1>1, <1>2, AtHeadNow
<1>4. /\ caller' # "commit" /\ pc' \in {"apply", "log", "unapply", "idle", "failed"}
  BY <1>1, <1>2 DEF ApplyBlock, ReapplyBlock, Continue, Throw, callVars
<1>5. PICK b \in first \cup second :
        /\ Prev[b] = chead
        /\ \/ base' = base /\ undo' = Append(undo, b) /\ chead' = b
           \/ UNCHANGED <<base, undo, chead>>
  BY DEF ApplyBlock, ReapplyBlock, NextOn, Applied
<1>6. b \in Block \ {Genesis}
  <2>1. SwitchInv /\ root \in Block
    BY <1>1, RunFacts DEF ServingInv, CallPosition
  <2>2. b \in Block /\ b # root /\ root \in Ancestors[b]
    BY <2>1 DEF SwitchInv, NodeInv, BaseInv, CallTypes
  <2> QED
    BY <2>1, <2>2, StepBack
<1>7. Stacked(base, undo)' /\ StateBlock' = chead'
  <2>1. CASE UNCHANGED <<base, undo, chead>>
    BY <1>3, <2>1
  <2>2. CASE base' = base /\ undo' = Append(undo, b) /\ chead' = b
    BY <1>3, <1>5, <1>6, <2>2, UndoPush
  <2> QED
    BY <1>5, <2>1, <2>2
<1> QED
  BY <1>4, <1>7, AtHeadAgain

\* commit_block: the block becomes the head, then its session is pushed.
LEMMA UndoProduce ==
    ASSUME UndoInv, NodeInv, CommitMarkValid => head' \in made,
           (\E b \in Produced : CommitBlock(b)) \/ CommitMarkValid \/ CommitPush
    PROVE  UndoInv'
<1>0. base \in Block /\ undo \in Seq(Block) /\ chead \in Block
  BY DEF NodeInv, BaseInv, StateTypes
<1>1. ASSUME NEW b \in Produced, CommitBlock(b)
      PROVE  UndoInv'
  <2>1. /\ pc = "idle" /\ Serving /\ pc' = "mark" /\ caller' = "commit" /\ thrown' = FALSE
        /\ made' = {b} /\ UNCHANGED <<base, undo, chead>>
    BY <1>1 DEF CommitBlock, Serving
  <2>2. caller # "commit"
    BY <2>1 DEF UndoInv, CommitInv
  <2>3. Stacked(base, undo)' /\ StateBlock' = chead'
    BY <2>1, <2>2, AtHeadNow
  <2>4. CommitInv' /\ LogBelowHead' /\ StopState'
    BY <2>1 DEF CommitInv, InCommit, LogBelowHead, StopState
  <2> QED
    BY <2>3, <2>4 DEF UndoInv
<1>2. CASE CommitMarkValid
  <2>1. /\ pc = "mark" /\ Serving /\ caller = "commit" /\ chead' = head' /\ head' \in made
        /\ UNCHANGED <<base, undo>> /\ ServingInv
    BY <1>2, RunFacts DEF CommitMarkValid, Serving, NodeInv, ControlInv, CallInv
  <2>2. PICK b \in made : made = {b}
    BY <2>1 DEF UndoInv, CommitInv
  <2>3. chead' = b /\ head' = b /\ b \in Block \ {Genesis} /\ Prev[b] = chead
    BY <2>1, <2>2, NodeAssumption DEF ServingInv, CallPosition, NodeInv, BaseInv, CallTypes
  <2>4. Continue("log")
    BY <1>2, <2>2, <2>3 DEF CommitMarkValid
  <2>5. pc' = "log" /\ caller' = "commit" /\ made' = made /\ thrown' = thrown
    BY <2>1, <2>4 DEF Continue, callVars
  <2>6. StateBlock = chead /\ Stacked(base, undo)
    BY <2>1 DEF UndoInv, InCommit
  <2>7. Stacked(base, undo)' /\ StateBlock' = StateBlock
    BY <2>1, <2>6 DEF StateBlock, Stacked
  <2>8. CommitInv'
    <3>1. ~thrown'
      BY <2>1, <2>5 DEF UndoInv, CommitInv
    <3> QED
      BY <2>2, <2>3, <2>5, <2>6, <2>7, <3>1 DEF CommitInv, InCommit
  <2>9. LogBelowHead' /\ StopState' /\ InCommit'
    BY <2>5 DEF LogBelowHead, StopState, InCommit
  <2> QED
    BY <2>7, <2>8, <2>9 DEF UndoInv
<1>3. CASE CommitPush
  <2>1. pc = "push" /\ caller = "commit" /\ chead' = chead /\ base' = base /\ Return
    BY <1>3 DEF CommitPush, NodeInv, ControlInv, CallInv
  <2>2. /\ Stacked(base, undo) /\ chead # Genesis /\ Prev[chead] = StateBlock
        /\ \A b \in made : b = chead
    BY <2>1 DEF UndoInv, CommitInv, InCommit
  <2>3. undo' = Append(undo, chead)
    BY <1>3, <2>2 DEF CommitPush
  <2>4. Stacked(base, undo)' /\ StateBlock' = chead'
    BY <1>0, <2>1, <2>2, <2>3, UndoPush
  <2>5. pc' = "idle" /\ caller' # "commit"
    BY <2>1 DEF Return
  <2> QED
    BY <2>4, <2>5, AtHeadAgain
<1> QED
  BY <1>1, <1>2, <1>3

\* A step of log_irreversible that leaves the state's position to the head.
LEMMA LogKeepsState ==
    ASSUME UndoInv, NodeInv, pc \in {"log", "append", "advance"}, mode' = mode,
           Stacked(base, undo)', StateBlock' = StateBlock, chead' = chead,
           UNCHANGED <<made, caller, thrown>>, pc' \in {"append", "advance", "push"},
           pc' = "push" => caller = "commit",
           pc' = "append" /\ mode # "irreversible" => \A b \in first' : b # chead
    PROVE  UndoInv'
<1>1. CommitInv'
  BY DEF UndoInv, CommitInv, InCommit
<1>2. LogBelowHead' /\ StopState'
  BY DEF LogBelowHead, StopState
<1>3. Serving /\ Serving' /\ (InCommit' <=> InCommit)
  BY DEF Serving, InCommit
<1> QED
  BY <1>1, <1>2, <1>3 DEF UndoInv

\* Leaving log_irreversible.
LEMMA LogEnds ==
    ASSUME UndoInv, NodeInv, pc \in {"log", "advance"}, mode' = mode,
           UNCHANGED <<base, undo, chead>>,
           LogReturns \/ (thrown /\ LogThrows)
    PROVE  UndoInv'
<1>1. Stacked(base, undo)' /\ StateBlock' = StateBlock
  BY DEF UndoInv, Stacked, StateBlock
<1>2. CASE caller = "commit"
  <2>1. ~thrown
    BY <1>2 DEF UndoInv, CommitInv
  <2>2. Continue("push")
    BY <1>2, <2>1 DEF LogReturns
  <2>3. pc' = "push" /\ UNCHANGED <<made, caller, thrown>>
    BY <2>2 DEF Continue, callVars
  <2> QED
    BY <1>1, <1>2, <2>3, LogKeepsState
<1>3. CASE caller # "commit"
  <2>1. StateBlock = chead
    BY <1>3 DEF UndoInv, InCommit, Serving
  <2>2. Return \/ Throw
    BY <1>3 DEF LogReturns, LogThrows
  <2>3. caller' # "commit" /\ pc' \in {"idle", "failed", "best", "replay"}
    BY <1>3, <2>2 DEF Return, Throw
  <2> QED
    BY <1>1, <2>1, <2>3, AtHeadAgain
<1> QED
  BY <1>2, <1>3

\* What has become irreversible is looked up, and the root is advanced.
LEMMA UndoLog ==
    ASSUME UndoInv, NodeInv, LogIrreversible \/ AdvanceToLogHead
    PROVE  UndoInv'
<1>1. CASE AdvanceToLogHead
  <2>1. /\ pc = "advance" /\ mode' = mode /\ UNCHANGED <<base, undo, chead>>
        /\ LogReturns \/ (thrown /\ LogThrows)
    BY <1>1 DEF AdvanceToLogHead
  <2> QED
    BY <2>1, LogEnds
<1>2. CASE LogIrreversible /\ LogReturns
  <2>1. pc = "log" /\ mode' = mode /\ UNCHANGED <<base, undo, chead>>
    BY <1>2 DEF LogIrreversible
  <2> QED
    BY <1>2, <2>1, LogEnds
<1>3. CASE LogIrreversible /\ ~LogReturns
  <2>1. pc = "log" /\ mode' = mode /\ UNCHANGED <<base, undo, chead>> /\ Serving
    BY <1>3 DEF LogIrreversible, Serving
  <2>2. PICK h, n : /\ h = IF mode = "irreversible" THEN PendingHead ELSE head
                    /\ n = DposLib[h]
    OBVIOUS
  <2>3. first' = FetchBranch(h, n) /\ pc' = "append" /\ UNCHANGED <<made, caller, thrown>>
    BY <1>3, <2>2 DEF LogIrreversible
  <2>4. chead = head /\ chead \in Block /\ index \subseteq Block \ {Genesis}
    BY <2>1, RunFacts DEF ServingInv, HeadPosition
  <2>5. ASSUME mode # "irreversible", NEW b \in first', b = chead
        PROVE  FALSE
    <3>1. h = chead /\ b \in index /\ BlockNum[b] <= DposLib[chead]
      BY <2>2, <2>3, <2>4, <2>5, FetchBranchInIndex DEF FetchBranch
    <3>2. chead \in Block \ {Genesis}
      BY <2>4, <2>5, <3>1
    <3>3. DposLib[chead] < BlockNum[chead] /\ DposLib[chead] \in Nat /\ BlockNum[chead] \in Nat
      BY <3>2, DposLibAssumption, BlockNumAssumption
    <3> QED
      BY <2>5, <3>1, <3>3
  <2>6. Stacked(base, undo)' /\ StateBlock' = StateBlock
    BY <2>1 DEF UndoInv, Stacked, StateBlock
  <2> QED
    BY <2>1, <2>3, <2>5, <2>6, LogKeepsState
<1> QED
  BY <1>1, <1>2, <1>3

\* The next block is logged and its revision committed, or the append throws.
LEMMA UndoAppend ==
    ASSUME UndoInv, NodeInv, ~(AppendThrows /\ caller = "commit"), AppendBlock \/ AppendThrows
    PROVE  UndoInv'
<1>0. /\ base \in Block /\ undo \in Seq(Block) /\ chead \in Block /\ Stacked(base, undo)
      /\ pc = "append" /\ Serving /\ mode' = mode
  BY DEF UndoInv, NodeInv, BaseInv, StateTypes, AppendBlock, AppendThrows, Serving
<1>1. ASSUME AppendBlock, mode # "irreversible"
      PROVE  UndoInv'
  <2>1. PICK b \in NextOn(first, LogHead) : Logged(b) /\ Committed(b) /\ chead' = chead
    BY <1>1 DEF AppendBlock
  <2>2. b \in Block \ {Genesis} /\ Prev[b] = LogHead /\ b \in first
    BY <1>0, NextToLog DEF NextOn
  <2>3. base = LogHead
    BY <1>0 DEF NodeInv, BaseInv, StageInv
  <2>4. b \in Ancestors[chead] /\ b # chead
    BY <1>0, <1>1, <2>2, RunFacts DEF ServingInv, CallPosition, UndoInv, LogBelowHead
  <2>5. b \in Ancestors[StateBlock]
    <3>1. CASE caller = "commit"
      <4>1. chead # Genesis /\ Prev[chead] = StateBlock
        BY <1>0, <3>1 DEF UndoInv, CommitInv, InCommit
      <4>2. Ancestors[chead] = {chead} \cup Ancestors[StateBlock]
        BY <1>0, <4>1, ChildFacts
      <4> QED
        BY <2>4, <4>2
    <3>2. CASE caller # "commit"
      BY <1>0, <2>4, <3>2, AtHeadNow
    <3> QED
      BY <3>1, <3>2
  <2>6. Stacked(base, undo)' /\ StateBlock' = StateBlock
    BY <1>0, <2>1, <2>2, <2>3, <2>5, CommitSession
  <2>7. pc' \in {"append", "advance"} /\ UNCHANGED <<first, made, caller, thrown>>
    BY <2>1 DEF Logged, Continue, callVars
  <2>8. \A c \in first' : c # chead
    BY <1>0, <1>1, <2>7 DEF UndoInv, LogBelowHead
  <2> QED
    BY <1>0, <2>1, <2>6, <2>7, <2>8, LogKeepsState
<1>2. ASSUME AppendBlock, mode = "irreversible"
      PROVE  UndoInv'
  <2>1. PICK b : chead' = b /\ base' = b /\ undo' = <<>> /\ Logged(b)
    BY <1>2 DEF AppendBlock
  <2>2. Stacked(base, undo)' /\ StateBlock' = chead'
    BY <2>1 DEF Stacked, StateBlock
  <2>3. caller = "push" /\ caller' = caller /\ pc' \in {"append", "advance"}
    BY <1>0, <1>2, <2>1 DEF Logged, Continue, callVars, NodeInv, ControlInv, ModeInv
  <2> QED
    BY <1>0, <1>2, <2>2, <2>3, AtHeadAgain
<1>3. ASSUME AppendThrows
      PROVE  UndoInv'
  <2>1. caller # "commit" /\ caller' = caller /\ pc' = "advance"
    BY <1>3 DEF AppendThrows
  <2>2. /\ StateBlock = chead
        /\ UNCHANGED <<base, undo>> => Stacked(base, undo)' /\ StateBlock' = StateBlock
    BY <1>0, <2>1, AtHeadNow
  <2>3. PICK b \in NextOn(first, LogHead) :
           \/ CanApply(b) /\ base' = base /\ undo' = Append(undo, b) /\ chead' = b
           \/ UNCHANGED <<base, undo, chead>>
    BY <1>3 DEF AppendThrows, Applied
  <2>4. b \in Block \ {Genesis}
    BY <1>0, NextToLog
  <2>5. Stacked(base, undo)' /\ StateBlock' = chead'
    <3>1. CASE UNCHANGED <<base, undo, chead>>
      BY <2>2, <3>1
    <3>2. CASE CanApply(b) /\ base' = base /\ undo' = Append(undo, b) /\ chead' = b
      <4>1. Prev[b] = StateBlock
        BY <2>2, <3>2 DEF CanApply
      <4> QED
        BY <1>0, <2>4, <3>2, <4>1, UndoPush
    <3> QED
      BY <2>3, <3>1, <3>2
  <2> QED
    BY <2>1, <2>5, AtHeadAgain
<1> QED
  BY <1>1, <1>2, <1>3

\* Stopping, and starting up to the checks of init().
LEMMA UndoStop ==
    ASSUME UndoInv, NodeInv, ~MayReplay, Shutdown => chead = head,
           Shutdown \/ Crash \/ Startup \/ StartupGenesis \/ StartupHead
    PROVE  UndoInv'
<1>1. ASSUME Stacked(base, undo)', StopState', caller' # "commit",
             pc' \in {"down", "startup", "init"}
      PROVE  UndoInv'
  <2>1. CommitInv' /\ LogBelowHead' /\ ~Serving'
    BY <1>1 DEF CommitInv, InCommit, LogBelowHead, Serving
  <2> QED
    BY <1>1, <2>1 DEF UndoInv
<1>2. UNCHANGED <<base, undo>> => Stacked(base, undo)' /\ StateBlock' = StateBlock
  BY DEF UndoInv, Stacked, StateBlock
<1>3. CASE Shutdown
  <2>1. /\ pc = "idle" /\ Serving /\ pc' = "down" /\ caller' = caller /\ chead = head
        /\ saved' = {Contents} /\ UNCHANGED <<base, undo>>
    BY <1>3 DEF Shutdown, Close, Serving
  <2>2. caller # "commit"
    BY <2>1 DEF UndoInv, CommitInv
  <2>3. StateBlock = chead
    BY <2>1, <2>2, AtHeadNow
  <2>4. \A f \in saved' : f.head = StateBlock'
    BY <1>2, <2>1, <2>3 DEF Contents
  <2>5. StopState'
    BY <2>1, <2>4 DEF StopState
  <2> QED
    BY <1>1, <1>2, <2>1, <2>2, <2>5
<1>4. CASE Crash
  <2>1. pc' = "down" /\ caller' = "none" /\ saved' = {} /\ UNCHANGED <<base, undo>>
    BY <1>4 DEF Crash, Reset, IsOpen
  <2>2. StopState'
    BY <2>1 DEF StopState
  <2> QED
    BY <1>1, <1>2, <2>1, <2>2
<1>5. CASE Startup
  <2>1. /\ pc = "down" /\ pc' = "startup" /\ caller' = "startup" /\ UNCHANGED <<base, undo>>
        /\ \E f \in saved : head' = f.head
    BY <1>5 DEF Startup, Open
  <2>2. head' = StateBlock'
    BY <1>2, <2>1 DEF UndoInv, StopState
  <2>3. StopState'
    BY <2>1, <2>2 DEF StopState
  <2> QED
    BY <1>1, <1>2, <2>1, <2>3
<1>6. CASE StartupGenesis
  <2>1. /\ pc' = "startup" /\ caller' = "replay"
        /\ chead' = Genesis /\ base' = Genesis /\ undo' = <<>>
    BY <1>6 DEF StartupGenesis
  <2>2. Stacked(base, undo)' /\ StateBlock' = chead'
    BY <2>1 DEF Stacked, StateBlock
  <2>3. StopState'
    BY <2>1, <2>2 DEF StopState
  <2> QED
    BY <1>1, <2>1, <2>2, <2>3
<1>7. CASE StartupHead
  <2>1. /\ pc = "startup" /\ pc' = "init" /\ caller' = caller /\ UNCHANGED <<base, undo>>
        /\ chead' = IF caller = "replay" THEN chead ELSE head'
        /\ head' \in {head, root}
    BY <1>7 DEF StartupHead, Continue, callVars, RollbackHeadToRoot, fdbVars
  <2>2. caller # "commit"
    BY <2>1 DEF UndoInv, CommitInv
  <2>3. CASE caller = "replay"
    <3>1. chead' = StateBlock'
      BY <1>2, <2>1, <2>3 DEF UndoInv, StopState
    <3>2. StopState'
      BY <2>1, <2>3, <3>1 DEF StopState
    <3> QED
      BY <1>1, <1>2, <2>1, <2>2, <3>2
  <2>4. CASE caller # "replay"
    <3>1. root = LogHead /\ base = LogHead
      BY <2>1, <2>4 DEF NodeInv, BaseInv, StageInv, PositionInv, StoppedInv
    <3>2. head = StateBlock
      BY <2>1, <2>4 DEF UndoInv, StopState
    <3>3. chead' \in {base', StateBlock'}
      BY <1>2, <2>1, <2>4, <3>1, <3>2
    <3>4. StopState'
      BY <2>1, <2>4, <3>3 DEF StopState
    <3> QED
      BY <1>1, <1>2, <2>1, <2>2, <3>4
  <2> QED
    BY <2>3, <2>4
<1> QED
  BY <1>3, <1>4, <1>5, <1>6, <1>7

\* init() undoes what the state has beyond the head.
LEMMA UndoChecks ==
    ASSUME UndoInv, NodeInv, StartupChecks
    PROVE  UndoInv'
<1>1. /\ pc = "init" /\ UNCHANGED <<base, chead>> /\ caller \in {"startup", "replay"}
      /\ base \in Block /\ undo \in Seq(Block) /\ chead \in Block /\ Stacked(base, undo)
  BY DEF StartupChecks, UndoInv, NodeInv, BaseInv, StateTypes, StageInv
<1>2. CASE Throw /\ UNCHANGED undo
  <2>1. pc' = "failed" /\ caller' = "none"
    BY <1>1, <1>2 DEF Throw
  <2>2. Stacked(base, undo)'
    BY <1>1, <1>2 DEF Stacked
  <2>3. CommitInv' /\ LogBelowHead' /\ StopState' /\ ~Serving'
    BY <2>1 DEF CommitInv, InCommit, LogBelowHead, StopState, Serving
  <2> QED
    BY <2>2, <2>3 DEF UndoInv
<1>3. CASE ReplayOrEnd /\ undo' = SubSeq(undo, 1, BlockNum[chead] - BlockNum[base])
  <2>1. /\ pc' \in {"best", "idle", "replaylog", "replay"} /\ caller' # "commit"
        /\ pc' = "replaylog" => caller' = "replay"
    BY <1>1, <1>3 DEF ReplayOrEnd, StartupEnds
  <2>2. chead \in {base, StateBlock}
    BY <1>1 DEF UndoInv, StopState
  <2>3. CASE chead = base
    <3>1. BlockNum[chead] - BlockNum[base] = 0
      BY <1>1, <2>3, BlockNumAssumption
    <3>2. undo' = <<>>
      BY <1>3, <3>1, SubSeqEmpty
    <3>3. Stacked(base, undo)' /\ StateBlock' = chead'
      BY <1>1, <2>3, <3>2 DEF Stacked, StateBlock
    <3> QED
      BY <2>1, <3>3, AtHeadAgain
  <2>4. CASE chead = StateBlock
    <3>1. StateBlock = Top(base, undo)
      BY DEF StateBlock, Top
    <3>2. BlockNum[chead] = BlockNum[base] + Len(undo)
      BY <1>1, <2>4, <3>1, StackNum
    <3>3. BlockNum[chead] - BlockNum[base] = Len(undo)
      BY <1>1, <3>2, BlockNumAssumption
    <3>4. undo' = undo
      BY <1>1, <1>3, <3>3
    <3>5. Stacked(base, undo)' /\ StateBlock' = chead'
      BY <1>1, <2>4, <3>4 DEF Stacked, StateBlock
    <3> QED
      BY <2>1, <3>5, AtHeadAgain
  <2> QED
    BY <2>2, <2>3, <2>4
<1> QED
  BY <1>2, <1>3 DEF StartupChecks

\* The blocks of the log are executed without undo sessions.
LEMMA UndoReplayLog ==
    ASSUME UndoInv, NodeInv, ReplayIrreversible
    PROVE  UndoInv'
<1>1. pc = "replaylog" /\ caller = "replay" /\ StateBlock = chead /\ Stacked(base, undo)
  BY DEF ReplayIrreversible, UndoInv, StopState
<1>2. CASE Throw /\ UNCHANGED <<base, undo, chead>>
  <2>1. pc' = "failed" /\ caller' = "none"
    BY <1>1, <1>2 DEF Throw
  <2>2. Stacked(base, undo)' /\ StateBlock' = chead'
    BY <1>1, <1>2 DEF Stacked, StateBlock
  <2> QED
    BY <2>1, <2>2, AtHeadAgain
<1>3. ASSUME NEW b, chead' = b, base' = b, undo' = <<>>,
             Continue(IF b # LogHead THEN "replaylog" ELSE "replay")
      PROVE  UndoInv'
  <2>1. pc' \in {"replaylog", "replay"} /\ caller' = "replay"
    BY <1>1, <1>3 DEF Continue, callVars
  <2>2. Stacked(base, undo)' /\ StateBlock' = chead'
    BY <1>3 DEF Stacked, StateBlock
  <2> QED
    BY <2>1, <2>2, AtHeadAgain
<1> QED
  BY <1>2, <1>3 DEF ReplayIrreversible

\* The hypotheses on a step.
UndoStep ==
    /\ CommitMarkValid => head' \in made
    /\ ~(AppendThrows /\ caller = "commit")
    /\ Shutdown => chead = head

\* UndoInv is inductive, given NodeInv.
LEMMA UndoNext ==
    ASSUME ~MayReplay, NodeInv, UndoInv, [Next]_vars, [UndoStep]_vars
    PROVE  UndoInv'
<1>1. CASE UNCHANGED vars
  BY <1>1 DEF vars, ctlVars, callVars, fdbVars, UndoInv, Stacked, StateBlock, Serving, InCommit,
     CommitInv, LogBelowHead, StopState
<1>2. CASE \E b \in Block : RejectBlock(b)
  BY <1>1, <1>2 DEF RejectBlock
<1>3. CASE Next /\ UndoStep
  BY <1>2, <1>3, UndoSame, UndoPop, UndoApply, UndoProduce, UndoLog, UndoAppend, UndoStop,
     UndoChecks, UndoReplayLog DEF Next, Step, UndoStep
<1> QED
  BY <1>1, <1>3

\* The state of a new node.
LEMMA UndoInit == Init => UndoInv
<1> SUFFICES ASSUME Init
             PROVE  UndoInv
  OBVIOUS
<1>1. /\ undo = <<>> /\ base = Genesis /\ chead = Genesis /\ pc = "idle" /\ caller = "none"
  BY DEF Init
<1>2. Stacked(base, undo) /\ StateBlock = chead
  BY <1>1 DEF Stacked, StateBlock
<1>3. CommitInv /\ LogBelowHead /\ StopState
  BY <1>1 DEF CommitInv, InCommit, LogBelowHead, StopState
<1> QED
  BY <1>2, <1>3 DEF UndoInv

\* UndoInv holds as long as the three hypotheses do.
LEMMA UndoHolds ==
    ASSUME ~MayReplay
    PROVE  Spec /\ CommitTakesHead /\ CommitsLog /\ StopsAtForkHead => [](NodeInv /\ UndoInv)
<1>1. /\ [CommitMarkValid => head' \in made]_vars
      /\ [~(AppendThrows /\ caller = "commit")]_vars
      /\ [Shutdown => chead = head]_vars
      => [UndoStep]_vars
  BY DEF UndoStep
<1>2. NodeInv /\ UndoInv /\ [Next]_vars /\ [UndoStep]_vars => UndoInv'
  BY UndoNext
<1> QED
  BY <1>1, <1>2, UndoInit, NodeHolds, PTL DEF Spec, CommitTakesHead, CommitsLog, StopsAtForkHead

\* Between calls the state database is at the head: start_block's assert on
\* the revision holds and the state is that of the block the head points to,
\* through fork switches that fail half way, production, restarts, crashes
\* and changes of mode.
THEOREM NodeStateMatchesHead ==
    ASSUME ~MayReplay
    PROVE  Spec /\ CommitTakesHead /\ CommitsLog /\ StopsAtForkHead => []StateMatchesHead
<1>1. ASSUME NodeInv, UndoInv, Idle
      PROVE  Revision = BlockNum[chead] /\ StateBlock = chead
  <2>1. caller # "commit" /\ Serving
    BY <1>1 DEF UndoInv, CommitInv, Idle, Serving
  <2>2. /\ Stacked(base, undo) /\ StateBlock = chead
        /\ base \in Block /\ undo \in Seq(Block)
    BY <1>1, <2>1, AtHeadNow
  <2>3. BlockNum[Top(base, undo)] = BlockNum[base] + Len(undo)
    BY <2>2, StackNum
  <2>4. Top(base, undo) = StateBlock
    BY DEF StateBlock, Top
  <2> QED
    BY <2>2, <2>3, <2>4 DEF Revision
<1>2. NodeInv /\ UndoInv => StateMatchesHead
  BY <1>1 DEF StateMatchesHead
<1> QED
  BY <1>2, UndoHolds, PTL

-----------------------------------------------------------------------------
(***************************************************************************)
(* The reversible blocks.  While the node runs they are the blocks of the  *)
(* head's branch above the log; while it replays them, those of a branch   *)
(* the head is on; while it is stopped, those of a branch above the log,   *)
(* and that of the saved head if there is one.                             *)
(***************************************************************************)
AboveOf(t, l) == {b \in Ancestors[t] : BlockNum[b] > BlockNum[l]}

Stored == {r \in rev : BlockNum[r] > BlockNum[LogHead]}

\* The block being produced, and the steps of a replay.
RevControl ==
    /\ pc = "mark" => \E b \in made : made = {b}
    /\ caller = "replay" =>
         pc \in {"startup", "init", "replaylog", "replay", "apply", "log", "append", "advance"}
    /\ pc = "apply" /\ caller = "replay" => second = {} /\ \E b \in rev : first = {b}

RevServing ==
    Serving /\ mode # "irreversible" /\ caller # "replay" => rev = AboveOf(chead, LogHead)

RevReplay ==
    Serving /\ mode # "irreversible" /\ caller = "replay" =>
        \E t \in Block : chead \in Ancestors[t] /\ rev = AboveOf(t, LogHead)

\* t is the block the stored branch ends with, and the head when there is one.
StopBranch(t) ==
    /\ LogHead \in Ancestors[t] /\ Stored = AboveOf(t, LogHead)
    /\ Stored # {} =>
         /\ pc = "down" => \A f \in saved : f.head = t
         /\ pc = "startup" /\ caller # "replay" => head = t
         /\ pc = "init" /\ caller # "replay" /\ mode # "irreversible" => head = t

RevStopped ==
    pc \in {"down", "startup", "init", "replaylog"} =>
        /\ pc = "replaylog" /\ mode # "irreversible" => rev = Stored
        /\ \E t \in Block : StopBranch(t)

RevInv == RevControl /\ RevServing /\ RevReplay /\ RevStopped

\* A block is added to the branch, or popped from it.
LEMMA AboveChild ==
    ASSUME NEW b \in Block \ {Genesis}, NEW l \in Ancestors[Prev[b]]
    PROVE  /\ AboveOf(b, l) = AboveOf(Prev[b], l) \cup {b}
           /\ {r \in AboveOf(b, l) : BlockNum[r] # BlockNum[b]} = AboveOf(Prev[b], l)
<1>1. /\ Prev[b] \in Block /\ Ancestors[b] = {b} \cup Ancestors[Prev[b]]
      /\ b \notin Ancestors[Prev[b]]
  BY ChildFacts
<1>2. l \in Block /\ Ancestors[Prev[b]] \subseteq Block
  BY <1>1, AncestorsSelf
<1>3. /\ BlockNum[b] = BlockNum[Prev[b]] + 1 /\ BlockNum[Prev[b]] \in Nat /\ BlockNum[b] \in Nat
      /\ BlockNum[l] \in Nat /\ \A r \in Ancestors[Prev[b]] : BlockNum[r] \in Nat
  BY <1>1, <1>2, BlockNumAssumption
<1>4. \A r \in Ancestors[Prev[b]] : r = Prev[b] \/ BlockNum[r] < BlockNum[Prev[b]]
  BY <1>1, AncestorNum
<1>5. \A r \in Ancestors[Prev[b]] : BlockNum[r] < BlockNum[b]
  BY <1>3, <1>4
<1>6. BlockNum[b] > BlockNum[l]
  BY <1>3, <1>5
<1>7. AboveOf(b, l) = AboveOf(Prev[b], l) \cup {b}
  BY <1>1, <1>6 DEF AboveOf
<1>8. \A r \in AboveOf(Prev[b], l) : BlockNum[r] # BlockNum[b]
  BY <1>3, <1>5 DEF AboveOf
<1> QED
  BY <1>7, <1>8

\* The log grows.
LEMMA AboveLog ==
    ASSUME NEW t \in Block, NEW l \in Block, NEW m \in Block \ {Genesis}, Prev[m] = l
    PROVE  {r \in AboveOf(t, l) : BlockNum[r] > BlockNum[m]} = AboveOf(t, m)
<1>1. BlockNum[m] = BlockNum[l] + 1 /\ BlockNum[l] \in Nat /\ BlockNum[m] \in Nat
  BY BlockNumAssumption
<1>2. \A r \in Ancestors[t] : BlockNum[r] \in Nat
  BY AncestorsSelf, BlockNumAssumption
<1>3. \A r \in Ancestors[t] : BlockNum[r] > BlockNum[m] => BlockNum[r] > BlockNum[l]
  BY <1>1, <1>2
<1> QED
  BY <1>3 DEF AboveOf

\* Nothing is above the log on the log's own branch.
LEMMA AboveNothing ==
    ASSUME NEW l \in Block
    PROVE  AboveOf(l, l) = {}
<1>1. \A r \in Ancestors[l] : r \in Block /\ BlockNum[r] \in Nat /\ BlockNum[l] \in Nat
  BY AncestorsSelf, BlockNumAssumption
<1>2. \A r \in Ancestors[l] : r = l \/ BlockNum[r] < BlockNum[l]
  BY AncestorNum
<1>3. \A r \in Ancestors[l] : ~(BlockNum[r] > BlockNum[l])
  BY <1>1, <1>2
<1> QED
  BY <1>3 DEF AboveOf

\* A block of the branch with nothing stored right after it ends the branch.
LEMMA AboveEnds ==
    ASSUME NEW t \in Block, NEW c \in Ancestors[t], NEW l \in Ancestors[c],
           \A b \in AboveOf(t, l) : BlockNum[b] # BlockNum[c] + 1
    PROVE  t = c
<1> SUFFICES ASSUME t # c
             PROVE  FALSE
  OBVIOUS
<1>1. c \in Block /\ l \in Block
  BY AncestorsSelf
<1>2. PICK d \in Ancestors[t] \ {Genesis} : Prev[d] = c
  BY ChildOnBranch
<1>3. d \in Block
  BY AncestorsSelf
<1>4. BlockNum[d] = BlockNum[c] + 1 /\ BlockNum[c] \in Nat /\ BlockNum[l] \in Nat
  BY <1>1, <1>2, <1>3, BlockNumAssumption
<1>5. l = c \/ BlockNum[l] < BlockNum[c]
  BY <1>1, AncestorNum
<1>6. BlockNum[d] > BlockNum[l]
  BY <1>4, <1>5
<1> QED
  BY <1>2, <1>4, <1>6 DEF AboveOf

\* The head of a running node is built on the last block logged.
LEMMA OnLog ==
    ASSUME NodeInv, Serving
    PROVE  LogHead \in Ancestors[chead] /\ LogHead \in Block /\ chead \in Block
BY RunFacts DEF ServingInv, LogPosition

\* The steps that may begin, go on with or leave a replay.
LEMMA RevControlNext ==
    ASSUME NodeInv, RevControl, [Next]_vars
    PROVE  RevControl'
<1>0. CallInv
  BY DEF NodeInv, ControlInv
<1>1. CASE UNCHANGED vars
  BY <1>1 DEF vars, ctlVars, callVars, RevControl
<1>2. CASE \E b \in Block : RejectBlock(b)
  BY <1>1, <1>2 DEF RejectBlock
<1>3. ASSUME pc' # "mark", pc' # "apply",
             caller' = "replay" =>
               pc' \in {"startup", "init", "replaylog", "replay", "log", "append", "advance"}
      PROVE  RevControl'
  BY <1>3 DEF RevControl
<1>4. CASE Return \/ Throw
  <2>1. pc' \notin {"mark", "apply"} /\ (caller' = "replay" => pc' = "replay")
    BY <1>4 DEF Return, Throw
  <2> QED
    BY <1>3, <2>1
<1>5. ASSUME \/ \E b \in Block : PushBlock(b)
             \/ StartBlock \/ AbortBlock \/ Shutdown \/ Crash \/ Startup \/ StartupGenesis
             \/ StartupHead \/ LogIrreversible \/ AppendBlock \/ AppendApplyThrows \/ AppendThrows
             \/ AdvanceToLogHead \/ StartupBestBranch \/ ReplayEnds
             \/ CommitPush,
             ~(Return \/ Throw)
      PROVE  RevControl'
  <2>1. pc' \notin {"mark", "apply"}
    BY <1>5 DEF PushBlock, StartBlock, AbortBlock, Shutdown, Crash, Startup, StartupGenesis,
       StartupHead, LogIrreversible, AppendBlock, AppendApplyThrows, AppendThrows,
       AdvanceToLogHead, StartupBestBranch, ReplayEnds, CommitPush, Continue,
       LogReturns, LogThrows, Logged, StartupEnds
  <2>2. ASSUME caller' = "replay"
        PROVE  pc' \in {"startup", "init", "replaylog", "replay", "log", "append", "advance"}
    <3>1. CASE caller # "replay"
      BY <1>5, <2>2, <3>1 DEF PushBlock, StartBlock, AbortBlock, Shutdown, Crash, Startup,
         StartupGenesis, StartupHead, LogIrreversible, AppendBlock, AppendApplyThrows,
         AppendThrows, AdvanceToLogHead, StartupBestBranch, ReplayEnds, CommitPush,
         Continue, LogReturns, LogThrows, Logged, StartupEnds, callVars
    <3>2. CASE caller = "replay"
      BY <1>0, <1>5, <2>2, <3>2 DEF PushBlock, StartBlock, AbortBlock, Shutdown, Crash, Startup,
         StartupGenesis, StartupHead, LogIrreversible, AppendBlock, AppendApplyThrows,
         AppendThrows, AdvanceToLogHead, StartupBestBranch, ReplayEnds, CommitPush,
         Continue, LogReturns, LogThrows, Logged, StartupEnds, callVars, CallInv
    <3> QED
      BY <3>1, <3>2
  <2> QED
    BY <1>3, <2>1, <2>2
<1>6. ASSUME NEW b \in Produced, CommitBlock(b)
      PROVE  RevControl'
  BY <1>6 DEF CommitBlock, RevControl
<1>7. CASE StartupChecks \/ ReplayIrreversible
  <2>1. pc' \notin {"mark", "apply"} /\ (caller' = "replay" => pc' \in {"replaylog", "replay"})
    BY <1>7 DEF StartupChecks, ReplayIrreversible, ReplayOrEnd, StartupEnds, Throw, Continue
  <2> QED
    BY <1>3, <2>1
<1>8. CASE MaybeSwitchForks \/ PopBlock \/ UnapplyBlock \/ ReversalOfEmptyBranch \/ ReapplyBlock
  <2>1. caller # "replay" /\ (caller' = caller \/ Return \/ Throw)
    BY <1>0, <1>8 DEF MaybeSwitchForks, PopBlock, UnapplyBlock, ReversalOfEmptyBranch, ReapplyBlock,
       Continue, callVars, CallInv, RevControl
  <2>2. CASE caller' = caller
    <3>1. pc' # "mark" \/ Return \/ Throw
      BY <1>8 DEF MaybeSwitchForks, PopBlock, UnapplyBlock, ReversalOfEmptyBranch, ReapplyBlock,
         Continue
    <3> QED
      BY <1>4, <2>1, <2>2, <3>1 DEF RevControl
  <2> QED
    BY <1>4, <2>1, <2>2
<1>9. CASE CommitMarkValid
  BY <1>0, <1>3, <1>4, <1>9 DEF CommitMarkValid, Continue, callVars, CallInv
<1>10. CASE ReplayReversible
  <2>1. PICK b \in Block :
          \/ b \in rev /\ rev' = rev /\ first' = {b} /\ second' = {} /\ pc' = "apply"
          \/ Throw
    BY <1>10 DEF ReplayReversible
  <2> QED
    BY <1>4, <2>1 DEF RevControl
<1>11. CASE ApplyBlock
  <2>1. PICK b \in NextOn(first, chead) :
          Continue(IF NextOn(first, b) = {} THEN "log" ELSE "apply")
    BY <1>11 DEF ApplyBlock
  <2>2. caller' = caller /\ pc' = IF NextOn(first, b) = {} THEN "log" ELSE "apply"
    BY <2>1 DEF Continue, callVars
  <2>3. ASSUME caller = "replay"
        PROVE  NextOn(first, b) = {}
    <3>1. PICK c \in rev : first = {c}
      BY <1>11, <2>3 DEF ApplyBlock, RevControl
    <3>2. b = c /\ Prev[b] = chead /\ b \in Block /\ chead \in Block /\ b # Genesis
      <4>1. pc = "apply" /\ Serving
        BY <1>11 DEF ApplyBlock, Serving
      <4>2. SwitchInv /\ root \in Block /\ chead \in Block
        BY <4>1, RunFacts DEF ServingInv, CallPosition
      <4>3. b \in first /\ Prev[b] = chead /\ b \in Block
        BY DEF NextOn, NodeInv, BaseInv, CallTypes
      <4>4. b # root /\ root \in Ancestors[b]
        BY <4>2, <4>3 DEF SwitchInv
      <4> QED
        BY <3>1, <4>2, <4>3, <4>4, StepBack
    <3>3. Prev[b] # b
      BY <3>2, ChildFacts, AncestorsSelf
    <3> QED
      BY <3>1, <3>2, <3>3 DEF NextOn
  <2> QED
    BY <1>3, <2>2, <2>3 DEF RevControl
<1>12. CASE ApplyBlockThrows
  <2>1. PICK b \in NextOn(first, chead) :
          Throw \/ (~(first = {b} /\ second = {}) /\ Continue("unapply"))
    BY <1>12 DEF ApplyBlockThrows
  <2>2. CASE Throw
    BY <1>4, <2>2
  <2>3. CASE ~(first = {b} /\ second = {}) /\ Continue("unapply")
    <3>1. caller # "replay"
      BY <1>12, <2>1, <2>3 DEF ApplyBlockThrows, RevControl, NextOn
    <3> QED
      BY <1>3, <2>3, <3>1 DEF Continue, callVars
  <2> QED
    BY <2>1, <2>2, <2>3
<1> QED
  BY <1>1, <1>2, <1>4, <1>5, <1>6, <1>7, <1>8, <1>9, <1>10, <1>11, <1>12 DEF Next, Step

\* A step after which the node runs.
LEMMA RevRuns ==
    ASSUME RevControl', pc' \notin {"down", "startup", "init", "replaylog"},
           \/ pc' = "failed" \/ mode' = "irreversible"
           \/ caller' # "replay" /\ rev' = AboveOf(chead', LogHead')
           \/ caller' = "replay" /\ \E t \in Block : /\ chead' \in Ancestors[t]
                                                   /\ rev' = AboveOf(t, LogHead')
    PROVE  RevInv'
<1>1. RevStopped'
  BY DEF RevStopped
<1>2. RevServing'
  BY DEF RevServing, Serving
<1>3. RevReplay'
  BY DEF RevReplay, Serving
<1> QED
  BY <1>1, <1>2, <1>3 DEF RevInv

\* A step after which it is stopped or starting.
LEMMA RevStops ==
    ASSUME RevControl', pc' \in {"down", "startup", "init", "replaylog"},
           pc' = "replaylog" /\ mode' # "irreversible" => rev' = Stored',
           NEW t \in Block, StopBranch(t)'
    PROVE  RevInv'
<1>1. RevStopped'
  BY DEF RevStopped
<1>2. RevServing' /\ RevReplay'
  BY DEF RevServing, RevReplay, Serving
<1> QED
  BY <1>1, <1>2 DEF RevInv

\* The steps that leave the head, the log and the reversible blocks alone.
LEMMA RevSame ==
    ASSUME NodeInv, RevInv, RevControl',
           \/ \E b \in Block : PushBlock(b)
           \/ StartBlock \/ AbortBlock
           \/ \E b \in Produced : CommitBlock(b)
           \/ MaybeSwitchForks \/ ApplyBlockThrows \/ ReversalOfEmptyBranch
           \/ LogIrreversible \/ AppendApplyThrows \/ AdvanceToLogHead \/ CommitPush
           \/ StartupBestBranch \/ ReplayReversible
           \/ (AppendThrows /\ mode # "irreversible")
    PROVE  RevInv'
<1>1. Serving /\ UNCHANGED <<chead, rev, blog, mode>>
  <2>1. Serving
    BY DEF PushBlock, StartBlock, AbortBlock, CommitBlock, MaybeSwitchForks, ApplyBlockThrows,
       ReversalOfEmptyBranch, LogIrreversible, AppendApplyThrows, AdvanceToLogHead, CommitPush,
       StartupBestBranch, ReplayReversible, AppendThrows, Serving
  <2> QED
    BY <2>1 DEF PushBlock, StartBlock, AbortBlock, CommitBlock, MaybeSwitchForks, ApplyBlockThrows,
       ReversalOfEmptyBranch, LogIrreversible, AppendApplyThrows, AdvanceToLogHead, CommitPush,
       StartupBestBranch, ReplayReversible, AppendThrows
<1>2. /\ pc' \notin {"down", "startup", "init", "replaylog"}
      /\ pc' = "failed" \/ (caller' = "replay" /\ caller = "replay")
                        \/ (caller' # "replay" /\ caller # "replay")
  <2>1. CASE Return
    BY <2>1 DEF Return
  <2>2. CASE Throw
    BY <2>2 DEF Throw
  <2>3. CASE ~(Return \/ Throw)
    <3>1. /\ pc' \notin {"down", "startup", "init", "replaylog"}
          /\ \/ caller' = caller
             \/ pc \in {"idle", "best"} /\ caller' # "replay"
      BY <1>1, <2>3 DEF PushBlock, StartBlock, AbortBlock, CommitBlock, MaybeSwitchForks,
         ApplyBlockThrows, ReversalOfEmptyBranch, LogIrreversible, AppendApplyThrows,
         AdvanceToLogHead, CommitPush, StartupBestBranch, ReplayReversible, AppendThrows,
         LogReturns, LogThrows, Continue, callVars, Serving
    <3> QED
      BY <3>1 DEF NodeInv, ControlInv, CallInv
  <2> QED
    BY <2>1, <2>2, <2>3
<1>3. LogHead' = LogHead
  BY <1>1 DEF LogHead
<1>4. CASE mode # "irreversible" /\ caller' # "replay" /\ caller # "replay"
  <2>1. rev' = AboveOf(chead', LogHead')
    BY <1>1, <1>3, <1>4 DEF RevInv, RevServing
  <2> QED
    BY <1>2, <1>4, <2>1, RevRuns
<1>5. CASE mode # "irreversible" /\ caller' = "replay" /\ caller = "replay"
  <2>1. \E t \in Block : chead' \in Ancestors[t] /\ rev' = AboveOf(t, LogHead')
    BY <1>1, <1>3, <1>5 DEF RevInv, RevReplay
  <2> QED
    BY <1>2, <1>5, <2>1, RevRuns
<1>6. CASE mode = "irreversible" \/ pc' = "failed"
  BY <1>1, <1>2, <1>6, RevRuns
<1> QED
  BY <1>2, <1>4, <1>5, <1>6

\* A block is popped.
LEMMA RevPop ==
    ASSUME NodeInv, RevInv, RevControl', PopBlock \/ UnapplyBlock
    PROVE  RevInv'
<1>1. /\ Serving /\ pc \in {"pop", "unapply"} /\ blog' = blog /\ mode' = mode
      /\ caller' = caller /\ pc' \in {"pop", "apply", "unapply"}
      /\ rev' = {r \in rev : BlockNum[r] # BlockNum[chead]} /\ chead' = Prev[chead]
  BY DEF PopBlock, UnapplyBlock, Continue, callVars, PoppedHead, Serving
<1>2. caller # "replay" /\ mode # "irreversible"
  BY <1>1 DEF RevInv, RevControl, NodeInv, ControlInv, ModeInv
<1>3. rev = AboveOf(chead, LogHead) /\ LogHead' = LogHead
  BY <1>1, <1>2 DEF RevInv, RevServing, LogHead
<1>4. chead # LogHead /\ chead \in Block /\ LogHead \in Block /\ LogHead \in Ancestors[chead]
  <2>1. SwitchInv /\ LogHead = root
    BY <1>1, RunFacts DEF ServingInv, CallPosition, LogPosition
  <2>2. chead # root
    BY <1>1, <2>1 DEF PopBlock, UnapplyBlock, SwitchInv
  <2> QED
    BY <1>1, <2>1, <2>2, OnLog
<1>5. chead # Genesis /\ LogHead \in Ancestors[Prev[chead]]
  BY <1>4, StepBack
<1>6. rev' = AboveOf(chead', LogHead')
  BY <1>1, <1>3, <1>4, <1>5, AboveChild
<1> QED
  BY <1>1, <1>2, <1>6, RevRuns

\* A block is applied.
LEMMA RevApply ==
    ASSUME NodeInv, RevInv, RevControl', ApplyBlock \/ ReapplyBlock
    PROVE  RevInv'
<1>1. Serving /\ pc \in {"apply", "unapply"} /\ blog' = blog /\ mode' = mode
  BY DEF ApplyBlock, ReapplyBlock, Serving
<1>2. mode # "irreversible" /\ LogHead' = LogHead
  BY <1>1 DEF NodeInv, ControlInv, ModeInv, LogHead
<1>3. PICK b \in first \cup second :
        /\ Prev[b] = chead
        /\ \/ chead' = b /\ rev' = rev \cup {b}
           \/ UNCHANGED <<chead, rev>> /\ ReapplyBlock
        /\ ApplyBlock => b \in first /\ chead' = b /\ rev' = rev \cup {b}
  BY <1>2 DEF ApplyBlock, ReapplyBlock, NextOn, Applied
<1>4. b \in Block \ {Genesis}
  <2>1. SwitchInv /\ root \in Block
    BY <1>1, RunFacts DEF ServingInv, CallPosition
  <2>2. b \in Block /\ b # root /\ root \in Ancestors[b]
    BY <2>1 DEF SwitchInv, NodeInv, BaseInv, CallTypes
  <2> QED
    BY <2>1, <2>2, StepBack
<1>5. /\ pc' \notin {"down", "startup", "init", "replaylog"}
      /\ caller # "replay" => caller' # "replay"
      /\ ApplyBlock => caller' = caller
  BY DEF ApplyBlock, ReapplyBlock, Continue, Throw, callVars
<1>6. CASE caller # "replay"
  <2>1. rev = AboveOf(chead, LogHead)
    BY <1>1, <1>2, <1>6 DEF RevInv, RevServing
  <2>2. AboveOf(b, LogHead) = AboveOf(chead, LogHead) \cup {b}
    BY <1>1, <1>3, <1>4, OnLog, AboveChild
  <2>3. rev' = AboveOf(chead', LogHead')
    BY <1>2, <1>3, <2>1, <2>2
  <2> QED
    BY <1>5, <1>6, <2>3, RevRuns
<1>7. CASE caller = "replay"
  <2>1. pc = "apply" /\ ApplyBlock
    BY <1>1, <1>7 DEF RevInv, RevControl, ReapplyBlock
  <2>2. PICK c \in rev : first = {c}
    BY <1>7, <2>1 DEF RevInv, RevControl
  <2>3. b \in rev /\ chead' = b /\ rev' = rev /\ caller' = "replay"
    BY <1>3, <1>5, <1>7, <2>1, <2>2
  <2>4. PICK t \in Block : rev = AboveOf(t, LogHead)
    BY <1>1, <1>2, <1>7 DEF RevInv, RevReplay
  <2>5. b \in Ancestors[t]
    BY <2>3, <2>4 DEF AboveOf
  <2> QED
    BY <1>2, <1>5, <2>3, <2>4, <2>5, RevRuns
<1> QED
  BY <1>6, <1>7

\* The block that is produced becomes the head and a reversible block.
LEMMA RevProduce ==
    ASSUME NodeInv, RevInv, RevControl', CommitMarkValid, head' \in made
    PROVE  RevInv'
<1>1. pc = "mark" /\ Serving /\ chead' = head' /\ blog' = blog /\ mode' = mode /\ caller = "commit"
  BY DEF CommitMarkValid, Serving, NodeInv, ControlInv, CallInv
<1>2. PICK b \in made : made = {b}
  BY <1>1 DEF RevInv, RevControl
<1>3. head' = b /\ rev' = rev \cup {b} /\ Continue("log")
  BY <1>2 DEF CommitMarkValid
<1>4. caller' = "commit" /\ pc' = "log"
  BY <1>1, <1>3 DEF Continue, callVars
<1>5. b \in Block \ {Genesis} /\ Prev[b] = chead
  BY <1>1, <1>2, NodeAssumption, RunFacts DEF ServingInv, CallPosition, NodeInv, BaseInv, CallTypes
<1>6. mode # "irreversible"
  BY <1>1 DEF NodeInv, ControlInv, ModeInv
<1>7. rev = AboveOf(chead, LogHead) /\ LogHead' = LogHead
  BY <1>1, <1>6 DEF RevInv, RevServing, LogHead
<1>8. AboveOf(b, LogHead) = AboveOf(chead, LogHead) \cup {b}
  BY <1>1, <1>5, OnLog, AboveChild
<1>9. rev' = AboveOf(chead', LogHead')
  BY <1>1, <1>3, <1>7, <1>8
<1> QED
  BY <1>4, <1>9, RevRuns

\* The log grows, and drops the reversible blocks up to the one logged.
LEMMA RevAppend ==
    ASSUME NodeInv, RevInv, RevControl', AppendBlock \/ (AppendThrows /\ mode = "irreversible")
    PROVE  RevInv'
<1>1. Serving /\ pc = "append" /\ mode' = mode
  BY DEF AppendBlock, AppendThrows, Serving
<1>2. CASE mode = "irreversible"
  <2>1. pc' \in {"append", "advance"}
    BY DEF AppendBlock, AppendThrows, Logged, Continue
  <2> QED
    BY <1>1, <1>2, <2>1, RevRuns
<1>3. CASE mode # "irreversible"
  <2>1. PICK b \in NextOn(first, LogHead) : Logged(b) /\ chead' = chead
    BY <1>3 DEF AppendBlock
  <2>2. b \in Block \ {Genesis} /\ Prev[b] = LogHead
    BY <1>1, NextToLog
  <2>3. LogHead' = b
    BY <2>1, <2>2, LogGrows DEF Logged, NodeInv, BaseInv
  <2>4. rev' = {r \in rev : BlockNum[r] > BlockNum[b]} /\ caller' = caller
        /\ pc' \in {"append", "advance"}
    BY <2>1 DEF Logged, Continue, callVars
  <2>5. LogHead \in Block /\ chead \in Block
    BY <1>1, OnLog
  <2>6. CASE caller # "replay"
    <3>1. rev = AboveOf(chead, LogHead)
      BY <1>1, <1>3, <2>6 DEF RevInv, RevServing
    <3>2. rev' = AboveOf(chead', LogHead')
      BY <2>1, <2>2, <2>3, <2>4, <2>5, <3>1, AboveLog
    <3> QED
      BY <2>4, <2>6, <3>2, RevRuns
  <2>7. CASE caller = "replay"
    <3>1. PICK t \in Block : chead \in Ancestors[t] /\ rev = AboveOf(t, LogHead)
      BY <1>1, <1>3, <2>7 DEF RevInv, RevReplay
    <3>2. rev' = AboveOf(t, LogHead')
      BY <2>2, <2>3, <2>4, <2>5, <3>1, AboveLog
    <3> QED
      BY <2>1, <2>4, <2>7, <3>1, <3>2, RevRuns
  <2> QED
    BY <2>6, <2>7
<1> QED
  BY <1>2, <1>3

\* What is stored when the process ends.
LEMMA StoredBranch ==
    ASSUME NodeInv, RevInv, pc \notin {"down", "failed", "crashed"}
    PROVE  \E t \in Block :
             /\ LogHead \in Ancestors[t] /\ Stored = AboveOf(t, LogHead)
             /\ pc = "append" /\ mode # "irreversible" => first \subseteq Ancestors[t]
<1>1. LogHead \in Block /\ LogHead \in Ancestors[LogHead]
  BY LogHeadNum, AncestorsSelf DEF NodeInv, BaseInv
<1>2. CASE ~Serving
  BY <1>2 DEF Serving, RevInv, RevStopped, StopBranch
<1>3. CASE Serving /\ mode = "irreversible"
  <2>1. rev = {}
    BY <1>3 DEF Serving, NodeInv, ControlInv, ModeInv
  <2>2. Stored = AboveOf(LogHead, LogHead)
    BY <1>1, <2>1, AboveNothing DEF Stored
  <2> QED
    BY <1>1, <1>3, <2>2
<1>4. CASE Serving /\ mode # "irreversible"
  <2>1. /\ LogHead \in Ancestors[chead] /\ chead \in Block
        /\ pc = "append" => first \subseteq Ancestors[chead]
    BY <1>4, OnLog, RunFacts DEF ServingInv, CallPosition
  <2>2. PICK t \in Block : chead \in Ancestors[t] /\ rev = AboveOf(t, LogHead)
    <3>1. CASE caller # "replay"
      BY <1>4, <2>1, <3>1, AncestorsSelf DEF RevInv, RevServing
    <3>2. CASE caller = "replay"
      BY <1>4, <3>2 DEF RevInv, RevReplay
    <3> QED
      BY <3>1, <3>2
  <2>3. Ancestors[chead] \subseteq Ancestors[t]
    BY <2>2, AncestorsTransitive
  <2>4. Stored = AboveOf(t, LogHead)
    BY <2>2 DEF Stored, AboveOf
  <2> QED
    BY <2>1, <2>3, <2>4
<1> QED
  BY <1>2, <1>3, <1>4

\* A crash, also one between blog.append and the removal of what it logged.
LEMMA RevCrash ==
    ASSUME NodeInv, RevInv, RevControl', Crash
    PROVE  RevInv'
<1>1. PICK t \in Block :
         /\ LogHead \in Ancestors[t] /\ Stored = AboveOf(t, LogHead)
         /\ pc = "append" /\ mode # "irreversible" => first \subseteq Ancestors[t]
  BY StoredBranch DEF Crash
<1>2. pc' = "down" /\ saved' = {} /\ rev' = rev
  BY DEF Crash, Reset, IsOpen
<1>3. CASE blog' = blog
  <2>1. LogHead' = LogHead /\ Stored' = Stored
    BY <1>2, <1>3 DEF Stored, LogHead
  <2>2. StopBranch(t)'
    BY <1>1, <1>2, <2>1 DEF StopBranch
  <2> QED
    BY <1>2, <2>2, RevStops
<1>4. CASE blog' # blog
  <2>1. pc = "append" /\ \E b \in NextOn(first, LogHead) : blog' = Append(blog, b)
    BY <1>4 DEF Crash
  <2>2. PICK b \in NextOn(first, LogHead) : blog' = Append(blog, b)
    BY <2>1
  <2>3. b \in Block \ {Genesis} /\ Prev[b] = LogHead /\ b \in first
    BY <2>1, NextToLog DEF NextOn
  <2>4. LogHead' = b
    BY <2>2, <2>3, LogGrows DEF NodeInv, BaseInv
  <2>5. LogHead \in Block /\ b \in Ancestors[b]
    BY <1>1, <2>3, AncestorsSelf
  <2>6. Stored' = {r \in rev : BlockNum[r] > BlockNum[b]}
    BY <1>2, <2>4 DEF Stored
  <2>7. CASE mode = "irreversible"
    <3>1. rev = {}
      BY <2>1, <2>7 DEF NodeInv, ControlInv, ModeInv
    <3>2. Stored' = AboveOf(b, LogHead')
      BY <2>3, <2>4, <2>6, <3>1, AboveNothing
    <3>3. StopBranch(b)'
      BY <1>2, <2>4, <2>5, <3>2 DEF StopBranch
    <3> QED
      BY <1>2, <2>3, <3>3, RevStops
  <2>8. CASE mode # "irreversible"
    <3>1. b \in Ancestors[t]
      BY <1>1, <2>1, <2>3, <2>8
    <3>2. BlockNum[b] = BlockNum[LogHead] + 1 /\ BlockNum[LogHead] \in Nat
      BY <2>3, <2>5, BlockNumAssumption
    <3>3. \A r \in rev : BlockNum[r] \in Nat
      BY BlockNumAssumption DEF NodeInv, BaseInv, StateTypes
    <3>4. \A r \in rev : BlockNum[r] > BlockNum[b] => BlockNum[r] > BlockNum[LogHead]
      BY <3>2, <3>3
    <3>5. Stored' = {r \in Stored : BlockNum[r] > BlockNum[b]}
      BY <2>6, <3>4 DEF Stored
    <3>6. Stored' = AboveOf(t, LogHead')
      BY <1>1, <2>3, <2>4, <2>5, <3>5, AboveLog
    <3>7. StopBranch(t)'
      BY <1>2, <2>4, <3>1, <3>6 DEF StopBranch
    <3> QED
      BY <1>2, <3>7, RevStops
  <2> QED
    BY <2>7, <2>8
<1> QED
  BY <1>3, <1>4

\* Stopping, and starting up to the checks of init().
LEMMA RevStop ==
    ASSUME NodeInv, RevInv, RevControl', ~MayReplay, Shutdown => chead = head,
           Shutdown \/ Startup \/ StartupGenesis \/ StartupHead
    PROVE  RevInv'
<1>1. rev' = rev /\ LogHead' = LogHead /\ Stored' = Stored
  BY DEF Shutdown, Startup, StartupGenesis, StartupHead, LogHead, Stored
<1>2. CASE Shutdown
  <2>1. pc = "idle" /\ Serving /\ pc' = "down" /\ saved' = {Contents} /\ chead = head
    BY <1>2 DEF Shutdown, Close, Serving
  <2>2. caller # "replay"
    BY <2>1 DEF NodeInv, ControlInv, CallInv
  <2>3. PICK t \in Block : /\ LogHead \in Ancestors[t] /\ Stored = AboveOf(t, LogHead)
                           /\ Stored # {} => t = head
    <3>1. CASE mode = "irreversible"
      <4>1. Stored = {}
        BY <2>1, <3>1 DEF NodeInv, ControlInv, ModeInv, Stored
      <4>2. PICK t \in Block : LogHead \in Ancestors[t] /\ Stored = AboveOf(t, LogHead)
        BY <2>1, StoredBranch
      <4> QED
        BY <4>1, <4>2
    <3>2. CASE mode # "irreversible"
      <4>1. LogHead \in Ancestors[chead] /\ chead \in Block
        BY <2>1, OnLog
      <4>2. rev = AboveOf(chead, LogHead)
        BY <2>1, <2>2, <3>2 DEF RevInv, RevServing
      <4>3. Stored = AboveOf(chead, LogHead)
        BY <4>2 DEF Stored, AboveOf
      <4> QED
        BY <2>1, <4>1, <4>3
    <3> QED
      BY <3>1, <3>2
  <2>4. \A f \in saved' : f.head = head
    BY <2>1 DEF Contents
  <2>5. StopBranch(t)'
    BY <1>1, <2>1, <2>3, <2>4 DEF StopBranch
  <2> QED
    BY <2>1, <2>5, RevStops
<1>3. CASE Startup \/ StartupGenesis \/ StartupHead
  <2>1. pc \in {"down", "startup"} /\ pc' \in {"startup", "init"}
    BY <1>3 DEF Startup, StartupGenesis, StartupHead, Continue
  <2>2. PICK t \in Block : StopBranch(t)
    BY <2>1 DEF RevInv, RevStopped
  <2>3. CASE StartupGenesis
    <3>1. pc' = "startup" /\ caller' = "replay"
      BY <2>3 DEF StartupGenesis
    <3>2. StopBranch(t)'
      BY <1>1, <2>2, <3>1 DEF StopBranch
    <3> QED
      BY <3>1, <3>2, RevStops
  <2>4. CASE Startup
    <3>1. pc = "down" /\ pc' = "startup" /\ \E f \in saved : head' = f.head
      BY <2>4 DEF Startup, Open
    <3>2. StopBranch(t)'
      BY <1>1, <2>2, <3>1 DEF StopBranch
    <3> QED
      BY <3>1, <3>2, RevStops
  <2>5. CASE StartupHead
    <3>1. /\ pc = "startup" /\ pc' = "init" /\ caller' = caller /\ mode' = mode
          /\ mode # "irreversible" => head' = head
      BY <2>5 DEF StartupHead, Continue, callVars, fdbVars
    <3>2. StopBranch(t)'
      BY <1>1, <2>2, <3>1 DEF StopBranch
    <3> QED
      BY <3>1, <3>2, RevStops
  <2> QED
    BY <1>3, <2>3, <2>4, <2>5
<1> QED
  BY <1>2, <1>3

\* The blocks of the log are executed, and the end of a replay.
LEMMA RevReplays ==
    ASSUME NodeInv, RevInv, RevControl', ReplayIrreversible \/ ReplayEnds
    PROVE  RevInv'
<1>1. rev' = rev /\ LogHead' = LogHead /\ Stored' = Stored /\ mode' = mode /\ caller = "replay"
  BY DEF ReplayIrreversible, ReplayEnds, LogHead, Stored, NodeInv, ControlInv, CallInv
<1>2. CASE ReplayIrreversible /\ Throw
  <2>1. pc' = "failed"
    BY <1>1, <1>2 DEF Throw
  <2> QED
    BY <2>1, RevRuns
<1>3. CASE ReplayIrreversible /\ ~Throw
  <2>1. PICK b : pc = "replaylog" /\ chead' = b /\ Continue(IF b # LogHead THEN "replaylog" ELSE "replay")
    BY <1>3 DEF ReplayIrreversible
  <2>2. PICK t \in Block : StopBranch(t)
    BY <2>1 DEF RevInv, RevStopped
  <2>3. mode # "irreversible" => rev = Stored
    BY <2>1 DEF RevInv, RevStopped
  <2>4. caller' = "replay"
    BY <1>1, <2>1 DEF Continue, callVars
  <2>5. CASE b # LogHead
    <3>1. pc' = "replaylog"
      BY <2>1, <2>5 DEF Continue
    <3>2. StopBranch(t)'
      BY <1>1, <2>2, <3>1 DEF StopBranch
    <3> QED
      BY <1>1, <2>3, <3>1, <3>2, RevStops
  <2>6. CASE b = LogHead
    <3>1. pc' = "replay" /\ chead' = LogHead
      BY <2>1, <2>6 DEF Continue
    <3>2. chead' \in Ancestors[t] /\ (mode # "irreversible" => rev' = AboveOf(t, LogHead'))
      BY <1>1, <2>2, <2>3, <3>1 DEF StopBranch
    <3> QED
      BY <1>1, <2>4, <3>1, <3>2, RevRuns
  <2> QED
    BY <2>5, <2>6
<1>4. CASE ReplayEnds
  <2>1. /\ pc = "replay" /\ Serving /\ chead' = chead /\ pc' \in {"best", "idle"}
        /\ caller' # "replay" /\ \A b \in rev : BlockNum[b] # BlockNum[chead] + 1
    BY <1>4 DEF ReplayEnds, StartupEnds, Serving
  <2>2. CASE mode = "irreversible"
    BY <1>1, <2>1, <2>2, RevRuns
  <2>3. CASE mode # "irreversible"
    <3>1. PICK t \in Block : chead \in Ancestors[t] /\ rev = AboveOf(t, LogHead)
      BY <1>1, <2>1, <2>3 DEF RevInv, RevReplay
    <3>2. t = chead
      BY <2>1, <3>1, OnLog, AboveEnds
    <3> QED
      BY <1>1, <2>1, <3>1, <3>2, RevRuns
  <2> QED
    BY <2>2, <2>3
<1> QED
  BY <1>2, <1>3, <1>4

\* init() started from a state: what it keeps are the blocks of the head's branch.
LEMMA KeptIsBranch ==
    ASSUME NodeInv, RevInv, pc = "init", caller = "startup", mode # "irreversible",
           BlockNum[chead] <= LastStoredNum
    PROVE  /\ KeptReversible = AboveOf(chead, LogHead)
           /\ ~(LastStoredNum > BlockNum[chead])
<1>1. /\ chead = head /\ root = LogHead /\ IsOpen /\ FdbInv /\ StateTypes /\ LogInv
      /\ KeptReversible = Stored
  BY DEF NodeInv, BaseInv, StageInv, PositionInv, StoppedInv, IsOpen, KeptReversible, Stored
<1>2. chead \in Block /\ LogHead \in Block /\ LogHead \in Ancestors[chead]
  BY <1>1, HeadOnRoot, LogHeadNum DEF StateTypes
<1>3. BlockNum[chead] \in Nat /\ BlockNum[LogHead] \in Nat
  BY <1>2, BlockNumAssumption
<1>4. LogHead = chead \/ BlockNum[LogHead] < BlockNum[chead]
  BY <1>2, AncestorNum
<1>5. PICK r \in KeptReversible \cup {LogHead} : LastStoredNum = BlockNum[r]
  BY <1>1, LastStoredFacts
<1>6. PICK t \in Block : StopBranch(t)
  BY DEF RevInv, RevStopped
<1>7. CASE Stored = {}
  <2>1. LastStoredNum = BlockNum[LogHead]
    BY <1>1, <1>5, <1>7
  <2>2. chead = LogHead
    BY <1>3, <1>4, <2>1
  <2> QED
    BY <1>1, <1>2, <1>3, <1>7, <2>1, <2>2, AboveNothing
<1>8. CASE Stored # {}
  <2>1. t = chead /\ Stored = AboveOf(t, LogHead)
    BY <1>1, <1>6, <1>8 DEF StopBranch
  <2>2. r \in Ancestors[chead] /\ r \in Block
    BY <1>1, <1>2, <1>5, <2>1, AncestorsSelf DEF AboveOf
  <2>3. BlockNum[r] \in Nat /\ (r = chead \/ BlockNum[r] < BlockNum[chead])
    BY <1>2, <2>2, AncestorNum, BlockNumAssumption
  <2>4. ~(LastStoredNum > BlockNum[chead])
    BY <1>3, <1>5, <2>3
  <2> QED
    BY <1>1, <2>1, <2>4
<1> QED
  BY <1>7, <1>8

\* init() started from the genesis state: a replay begins, or nothing is stored.
LEMMA GenesisStored ==
    ASSUME NodeInv, pc = "init", caller = "replay", mode # "irreversible"
    PROVE  /\ ~(LastStoredNum > BlockNum[chead]) => KeptReversible = AboveOf(chead, LogHead)
           /\ ~(BlockNum[chead] < BlockNum[LogHead]) => chead = LogHead
<1>1. chead = Genesis /\ StateTypes /\ LogInv
  BY DEF NodeInv, BaseInv, StageInv
<1>2. /\ LogHead \in Block /\ BlockNum[LogHead] \in Nat /\ BlockNum[Genesis] \in Nat
      /\ BlockNum[LogHead] >= BlockNum[Genesis]
      /\ BlockNum[LogHead] = BlockNum[Genesis] => LogHead = Genesis
  BY <1>1, LogHeadNum
<1>3. ~(BlockNum[chead] < BlockNum[LogHead]) => chead = LogHead
  BY <1>1, <1>2
<1>4. ASSUME ~(LastStoredNum > BlockNum[chead])
      PROVE  KeptReversible = AboveOf(chead, LogHead)
  <2>1. /\ LastStoredNum \in Nat /\ BlockNum[LogHead] <= LastStoredNum
        /\ \A r \in KeptReversible : BlockNum[r] <= LastStoredNum
    BY <1>1, LastStoredFacts
  <2>2. chead = LogHead /\ LastStoredNum = BlockNum[LogHead]
    BY <1>1, <1>2, <1>3, <1>4, <2>1
  <2>3. \A r \in KeptReversible : BlockNum[r] \in Nat /\ BlockNum[r] > BlockNum[LogHead]
    BY <1>1, BlockNumAssumption DEF KeptReversible, StateTypes
  <2>4. KeptReversible = {}
    BY <1>2, <2>1, <2>2, <2>3
  <2> QED
    BY <1>2, <2>2, <2>4, AboveNothing
<1> QED
  BY <1>3, <1>4

\* The checks of init().
LEMMA RevChecks ==
    ASSUME NodeInv, RevInv, RevControl', StartupChecks
    PROVE  RevInv'
<1>1. /\ pc = "init" /\ caller \in {"startup", "replay"} /\ UNCHANGED <<chead, blog, mode>>
      /\ LogHead' = LogHead /\ LogHead \in Block
  BY LogHeadNum DEF StartupChecks, NodeInv, BaseInv, StageInv, LogHead
<1>2. CASE Throw
  <2>1. pc' = "failed"
    BY <1>1, <1>2 DEF Throw
  <2> QED
    BY <2>1, RevRuns
<1>3. CASE ~Throw
  <2>1. ReversibleBlocksMatch /\ rev' = KeptReversible /\ ReplayOrEnd
    BY <1>3 DEF StartupChecks
  <2>2. /\ pc' \in {"best", "idle", "replaylog", "replay"}
        /\ LastStoredNum > BlockNum[chead] =>
             /\ caller' = "replay"
             /\ pc' = IF BlockNum[chead] < BlockNum[LogHead] THEN "replaylog" ELSE "replay"
        /\ ~(LastStoredNum > BlockNum[chead]) => caller' # "replay" /\ pc' \in {"best", "idle"}
    BY <2>1 DEF ReplayOrEnd, StartupEnds
  <2>3. CASE mode = "irreversible"
    <3>1. rev' = {} /\ Stored' = {}
      BY <2>1, <2>3 DEF KeptReversible, Stored
    <3>2. CASE pc' = "replaylog"
      <4>1. PICK l \in Block : l = LogHead
        BY <1>1
      <4>2. StopBranch(l)'
        BY <1>1, <3>1, <4>1, AboveNothing, AncestorsSelf DEF StopBranch
      <4> QED
        BY <1>1, <2>3, <3>2, <4>2, RevStops
    <3>3. CASE pc' # "replaylog"
      BY <1>1, <2>2, <2>3, <3>3, RevRuns
    <3> QED
      BY <3>2, <3>3
  <2>4. CASE mode # "irreversible" /\ caller = "startup"
    <3>1. BlockNum[chead] <= LastStoredNum
      BY <2>1, <2>4 DEF ReversibleBlocksMatch
    <3>2. KeptReversible = AboveOf(chead, LogHead) /\ ~(LastStoredNum > BlockNum[chead])
      BY <1>1, <2>4, <3>1, KeptIsBranch
    <3>3. rev' = AboveOf(chead', LogHead') /\ caller' # "replay" /\ pc' \in {"best", "idle"}
      BY <1>1, <2>1, <2>2, <3>2
    <3> QED
      BY <3>3, RevRuns
  <2>5. CASE mode # "irreversible" /\ caller = "replay"
    <3>1. PICK t \in Block : StopBranch(t)
      BY <1>1 DEF RevInv, RevStopped
    <3>2. rev' = Stored /\ Stored' = rev'
      BY <1>1, <2>1, <2>5 DEF KeptReversible, Stored
    <3>3. CASE ~(LastStoredNum > BlockNum[chead])
      <4>1. rev' = AboveOf(chead', LogHead') /\ caller' # "replay" /\ pc' \in {"best", "idle"}
        BY <1>1, <2>1, <2>2, <2>5, <3>3, GenesisStored
      <4> QED
        BY <4>1, RevRuns
    <3>4. CASE LastStoredNum > BlockNum[chead] /\ BlockNum[chead] < BlockNum[LogHead]
      <4>1. pc' = "replaylog" /\ caller' = "replay"
        BY <2>2, <3>4
      <4>2. StopBranch(t)'
        BY <1>1, <3>1, <3>2, <4>1 DEF StopBranch
      <4> QED
        BY <3>2, <4>1, <4>2, RevStops
    <3>5. CASE LastStoredNum > BlockNum[chead] /\ ~(BlockNum[chead] < BlockNum[LogHead])
      <4>1. pc' = "replay" /\ caller' = "replay" /\ chead = LogHead
        BY <1>1, <2>2, <2>5, <3>5, GenesisStored
      <4>2. chead' \in Ancestors[t] /\ rev' = AboveOf(t, LogHead')
        BY <1>1, <3>1, <3>2, <4>1 DEF StopBranch
      <4> QED
        BY <4>1, <4>2, RevRuns
    <3> QED
      BY <3>3, <3>4, <3>5
  <2> QED
    BY <1>1, <2>3, <2>4, <2>5
<1> QED
  BY <1>2, <1>3

\* RevInv is inductive, given NodeInv.
LEMMA RevNext ==
    ASSUME ~MayReplay, NodeInv, RevInv, [Next]_vars,
           [CommitMarkValid => head' \in made]_vars, [Shutdown => chead = head]_vars
    PROVE  RevInv'
<1>1. CASE UNCHANGED vars
  BY <1>1 DEF vars, ctlVars, callVars, fdbVars, RevInv, RevControl, RevServing, RevReplay,
     RevStopped, StopBranch, Stored, LogHead, Serving
<1>2. RevControl'
  BY RevControlNext DEF RevInv
<1>3. CASE \E b \in Block : RejectBlock(b)
  BY <1>1, <1>3 DEF RejectBlock
<1>4. ASSUME Next, CommitMarkValid => head' \in made, Shutdown => chead = head
      PROVE  RevInv'
  BY <1>2, <1>3, <1>4, RevSame, RevPop, RevApply, RevProduce, RevAppend, RevCrash, RevStop,
     RevReplays, RevChecks DEF Next, Step
<1> QED
  BY <1>1, <1>4

\* The reversible blocks of a new node.
LEMMA RevInit == Init => RevInv
<1> SUFFICES ASSUME Init
             PROVE  RevInv
  OBVIOUS
<1>1. chead = Genesis /\ blog = <<Genesis>> /\ rev = {} /\ pc = "idle" /\ caller = "none"
  BY DEF Init
<1>2. LogHead = Genesis
  BY <1>1 DEF LogHead, SeqExt!Last
<1>3. rev = AboveOf(chead, LogHead)
  BY <1>1, <1>2, BlockAssumption, AboveNothing
<1> QED
  BY <1>1, <1>3 DEF RevInv, RevControl, RevServing, RevReplay, RevStopped

\* Between calls the reversible blocks are those of the head's branch above
\* the log: through pops, failed switches, production, crashes between the
\* append to the log and their removal, and replays, a restart finds no gap
\* and no block of another branch.
THEOREM NodeReversibleIsBranch ==
    ASSUME ~MayReplay
    PROVE  Spec /\ CommitTakesHead /\ StopsAtForkHead => []ReversibleIsBranch
<1>1. /\ NodeInv /\ RevInv /\ [Next]_vars
      /\ [CommitMarkValid => head' \in made]_vars /\ [Shutdown => chead = head]_vars
      => RevInv'
  BY RevNext
<1>2. ASSUME NodeInv, RevInv, Idle, mode # "irreversible"
      PROVE  rev = {b \in Ancestors[chead] : BlockNum[b] > BlockNum[LogHead]}
  <2>1. Serving /\ caller # "replay"
    BY <1>2 DEF Idle, Serving, NodeInv, ControlInv, CallInv
  <2> QED
    BY <1>2, <2>1 DEF RevInv, RevServing, AboveOf
<1>3. NodeInv /\ RevInv => ReversibleIsBranch
  BY <1>2 DEF ReversibleIsBranch
<1> QED
  BY <1>1, <1>3, RevInit, NodeHolds, PTL DEF Spec, CommitTakesHead, StopsAtForkHead

-----------------------------------------------------------------------------
(***************************************************************************)
(* A restart resumes.  A stopped node's file has the node's own head.      *)
(***************************************************************************)
SavedHead ==
    /\ pc = "down" => \A f \in saved : f.head = chead
    /\ pc = "startup" /\ caller # "replay" => head = chead

\* SavedHead is inductive.
LEMMA SavedHeadNext ==
    ASSUME ~MayReplay, NodeInv, SavedHead, [Next]_vars, [Shutdown => chead = head]_vars
    PROVE  SavedHead'
<1>1. CASE UNCHANGED vars
  BY <1>1 DEF vars, ctlVars, callVars, fdbVars, SavedHead
<1>2. CASE pc' \notin {"down", "startup"}
  BY <1>2 DEF SavedHead
<1>3. CASE Shutdown /\ chead = head
  BY <1>3 DEF Shutdown, Close, Contents, SavedHead
<1>4. CASE Crash
  BY <1>4 DEF Crash, Reset, IsOpen, SavedHead
<1>5. CASE Startup
  BY <1>5 DEF Startup, Open, SavedHead
<1>6. CASE StartupGenesis
  BY <1>6 DEF StartupGenesis, SavedHead
<1>7. CASE \E b \in Block : RejectBlock(b)
  BY <1>1, <1>7 DEF RejectBlock
<1>8. ASSUME Next, ~Shutdown, ~Crash, ~Startup, ~StartupGenesis, ~(\E b \in Block : RejectBlock(b))
      PROVE  pc' \notin {"down", "startup"}
  <2>1. CASE Return \/ Throw
    BY <2>1 DEF Return, Throw
  <2>2. CASE ~(Return \/ Throw)
    BY <1>8, <2>2 DEF Next, Step, PushBlock, StartBlock, AbortBlock, CommitBlock, MaybeSwitchForks,
       PopBlock, ApplyBlock, ApplyBlockThrows, UnapplyBlock, ReversalOfEmptyBranch, ReapplyBlock,
       LogIrreversible, AppendBlock, AppendApplyThrows, AppendThrows, AdvanceToLogHead,
       CommitMarkValid, CommitPush, StartupHead, StartupChecks, StartupBestBranch,
       ReplayIrreversible, ReplayReversible, ReplayEnds, LogReturns, LogThrows, Logged, Continue,
       ReplayOrEnd, StartupEnds
  <2> QED
    BY <2>1, <2>2
<1> QED
  BY <1>1, <1>2, <1>3, <1>4, <1>5, <1>6, <1>7, <1>8

\* A node that is started from its own state comes back at the block it was
\* stopped at (in irreversible mode, at the root), and nothing it has stored
\* is beyond that block.
THEOREM NodeRestartResumes ==
    ASSUME ~MayReplay
    PROVE  Spec /\ CommitTakesHead /\ StopsAtForkHead => RestartResumes
<1>1. Init => SavedHead
  BY DEF Init, SavedHead
<1>2. /\ NodeInv /\ RevInv /\ [Next]_vars
      /\ [CommitMarkValid => head' \in made]_vars /\ [Shutdown => chead = head]_vars
      => RevInv'
  BY RevNext
<1>3. NodeInv /\ SavedHead /\ [Next]_vars /\ [Shutdown => chead = head]_vars => SavedHead'
  BY SavedHeadNext
<1>4. ASSUME NodeInv, RevInv, SavedHead, StartupHead, caller = "startup"
      PROVE  /\ chead' = IF mode = "irreversible" THEN root ELSE chead
             /\ LastStoredNum <= BlockNum[chead']
  <2>1. /\ pc = "startup" /\ head = chead /\ chead' = head'
        /\ head' = IF mode = "irreversible" THEN root ELSE head
    BY <1>4 DEF StartupHead, SavedHead, RollbackHeadToRoot, fdbVars
  <2>2. root = LogHead /\ IsOpen /\ FdbInv /\ StateTypes /\ LogInv
    BY <1>4, <2>1 DEF NodeInv, BaseInv, StageInv, PositionInv, StoppedInv, IsOpen
  <2>3. head \in Block /\ root \in Block /\ root \in Ancestors[head] /\ root \in Ancestors[root]
    BY <2>2, HeadOnRoot, AncestorsSelf DEF FdbInv, FdbTypeOK
  <2>4. PICK r \in KeptReversible \cup {LogHead} : LastStoredNum = BlockNum[r]
    BY <2>2, LastStoredFacts
  <2>5. r \in Ancestors[chead'] /\ chead' \in Block
    <3>1. CASE r = LogHead
      BY <2>1, <2>2, <2>3, <3>1
    <3>2. CASE r \in KeptReversible
      <4>1. mode # "irreversible" /\ r \in Stored
        BY <3>2 DEF KeptReversible, Stored
      <4>2. PICK t \in Block : StopBranch(t)
        BY <1>4, <2>1 DEF RevInv, RevStopped
      <4>3. head = t /\ r \in Ancestors[t]
        BY <1>4, <2>1, <4>1, <4>2 DEF StopBranch, AboveOf
      <4> QED
        BY <2>1, <2>3, <4>1, <4>3
    <3> QED
      BY <2>4, <3>1, <3>2
  <2>6. r \in Block /\ BlockNum[r] \in Nat /\ BlockNum[chead'] \in Nat
    BY <2>5, AncestorsSelf, BlockNumAssumption
  <2>7. r = chead' \/ BlockNum[r] < BlockNum[chead']
    BY <2>5, AncestorNum
  <2>8. LastStoredNum <= BlockNum[chead']
    BY <2>4, <2>6, <2>7
  <2> QED
    BY <2>1, <2>8
<1>5. NodeInv /\ RevInv /\ SavedHead =>
        [StartupHead /\ caller = "startup" =>
           /\ chead' = IF mode = "irreversible" THEN root ELSE chead
           /\ LastStoredNum <= BlockNum[chead']]_vars
  BY <1>4
<1> QED
  BY <1>1, <1>2, <1>3, <1>5, RevInit, NodeHolds, PTL
     DEF Spec, CommitTakesHead, StopsAtForkHead, RestartResumes

-----------------------------------------------------------------------------
(***************************************************************************)
(* The reversal of a failed switch.  A block the fork database calls valid *)
(* has been executed under some fee rate; when the cached rate does not    *)
(* decide whether a block can be executed, it can be executed again.       *)
(***************************************************************************)
RatesDoNotMatter == \A b \in Block : Reproducible[b] \in {{}, Rate}

ValidInv ==
    /\ \A b \in validated : Reproducible[b] # {}
    /\ \A f \in saved : \A b \in f.validated : Reproducible[b] # {}
    /\ pc = "mark" => \A b \in made : Reproducible[b] # {}

\* ValidInv is inductive.
LEMMA ValidNext ==
    ASSUME NodeInv, ValidInv, [Next]_vars
    PROVE  ValidInv'
<1>0. ASSUME validated' \subseteq validated, saved' = saved,
             pc' # "mark" \/ UNCHANGED <<pc, made>>
      PROVE  ValidInv'
  BY <1>0 DEF ValidInv
<1>1. CASE UNCHANGED vars
  BY <1>1 DEF vars, ctlVars, callVars, fdbVars, ValidInv
<1>2. CASE \E b \in Block : RejectBlock(b)
  BY <1>1, <1>2 DEF RejectBlock
<1>3. ASSUME NEW b \in Produced, CommitBlock(b)
      PROVE  ValidInv'
  BY <1>3 DEF CommitBlock, Add, ValidInv
<1>4. ASSUME NEW b, MarkValidOnce(b), Reproducible[b] # {}, pc' # "mark"
      PROVE  ValidInv'
  <2>1. validated' \subseteq validated \cup {b} /\ saved' = saved
    BY <1>4 DEF MarkValidOnce, MarkValid, fdbVars
  <2> QED
    BY <1>4, <2>1 DEF ValidInv
<1>5. CASE ApplyBlock
  <2>1. PICK b : CanApply(b) /\ MarkValidOnce(b) /\ pc' # "mark"
    BY <1>5 DEF ApplyBlock, Continue
  <2> QED
    BY <1>4, <2>1 DEF CanApply
<1>6. CASE (AppendBlock \/ AppendThrows) /\ mode = "irreversible"
  <2>1. PICK b : CanApply(b) /\ MarkValidOnce(b) /\ pc' # "mark"
    BY <1>6 DEF AppendBlock, AppendThrows, Logged, Continue
  <2> QED
    BY <1>4, <2>1 DEF CanApply
<1>7. CASE CommitMarkValid
  <2>1. PICK b \in made : pc = "mark" /\ MarkValid(b) /\ pc' # "mark"
    BY <1>7 DEF CommitMarkValid, Continue, Throw
  <2>2. validated' = validated \cup {b} /\ saved' = saved
    BY <2>1 DEF MarkValid
  <2> QED
    BY <2>1, <2>2 DEF ValidInv
<1>8. CASE Shutdown
  BY <1>8 DEF Shutdown, Close, Contents, ValidInv
<1>9. CASE Startup \/ StartupGenesis
  <2>1. pc' = "startup" /\ (Open \/ UNCHANGED fdbVars)
    BY <1>9 DEF Startup, StartupGenesis
  <2> QED
    BY <2>1 DEF Open, fdbVars, ValidInv
<1>10. ASSUME Crash \/ StartupHead \/ AdvanceToLogHead \/ ReplayIrreversible \/ ReplayReversible
              \/ ApplyBlockThrows \/ (\E b \in Block : PushBlock(b))
       PROVE  ValidInv'
  <2>1. validated' \subseteq validated /\ saved' = saved
    BY <1>10 DEF Crash, StartupHead, AdvanceToLogHead, ReplayIrreversible, ReplayReversible,
       ApplyBlockThrows, PushBlock, Reset, RollbackHeadToRoot, AdvanceRoot, Add, Remove, fdbVars
  <2>2. pc' # "mark"
    BY <1>10 DEF Crash, StartupHead, AdvanceToLogHead, ReplayIrreversible, ReplayReversible,
       ApplyBlockThrows, PushBlock, LogReturns, LogThrows, Return, Throw, Continue
  <2> QED
    BY <1>0, <2>1, <2>2
<1>11. ASSUME \/ StartBlock \/ AbortBlock \/ MaybeSwitchForks \/ PopBlock \/ UnapplyBlock
              \/ ReversalOfEmptyBranch \/ ReapplyBlock \/ LogIrreversible
              \/ ((AppendBlock \/ AppendThrows) /\ mode # "irreversible") \/ AppendApplyThrows
              \/ CommitPush \/ StartupChecks \/ StartupBestBranch \/ ReplayEnds
       PROVE  ValidInv'
  <2>1. UNCHANGED fdbVars
    BY <1>11 DEF StartBlock, AbortBlock, MaybeSwitchForks, PopBlock, UnapplyBlock,
       ReversalOfEmptyBranch, ReapplyBlock, LogIrreversible, AppendBlock, AppendThrows,
       AppendApplyThrows, CommitPush, StartupChecks, StartupBestBranch, ReplayEnds
  <2>2. pc' # "mark"
    <3>1. CASE Return \/ Throw
      BY <3>1 DEF Return, Throw
    <3>2. CASE ~(Return \/ Throw)
      BY <1>11, <3>2 DEF StartBlock, AbortBlock, MaybeSwitchForks, PopBlock, UnapplyBlock,
         ReversalOfEmptyBranch, ReapplyBlock, LogIrreversible, AppendBlock, AppendThrows,
         AppendApplyThrows, CommitPush, StartupChecks, StartupBestBranch, ReplayEnds, LogReturns,
         Logged, ReplayOrEnd, StartupEnds, Continue
    <3> QED
      BY <3>1, <3>2
  <2> QED
    BY <1>0, <2>1, <2>2 DEF fdbVars
<1> QED
  BY <1>1, <1>2, <1>3, <1>5, <1>6, <1>7, <1>8, <1>9, <1>10, <1>11 DEF Next, Step

\* A block on the head can be applied if the fee rate lets it be executed: the
\* state is that of the head.
LEMMA StateApplies ==
    ASSUME NodeInv, UndoInv, Serving, caller # "commit",
           NEW b, Prev[b] = chead, rate \in Reproducible[b]
    PROVE  CanApply(b)
<1>1. Stacked(base, undo) /\ StateBlock = chead /\ base \in Block /\ undo \in Seq(Block)
  BY AtHeadNow
<1>2. Top(base, undo) = StateBlock
  BY DEF StateBlock, Top
<1>3. BlockNum[Top(base, undo)] = BlockNum[base] + Len(undo)
  BY <1>1, StackNum
<1>4. Revision = BlockNum[chead]
  BY <1>1, <1>2, <1>3 DEF Revision
<1> QED
  BY <1>1, <1>4 DEF CanApply

\* A validated block has been executed, and can be again.
LEMMA OldBranchApplies ==
    ASSUME RatesDoNotMatter, NodeInv, UndoInv, ValidInv, pc = "unapply",
           NEW b \in NextOn(second, chead)
    PROVE  CanApply(b) /\ b \in Block /\ b # Prev[b]
<1>1. Serving
  BY DEF Serving
<1>2. caller # "commit" /\ SwitchInv /\ root \in Block
  BY <1>1, RunFacts DEF UndoInv, CommitInv, ServingInv, CallPosition
<1>3. /\ b \in second /\ Prev[b] = chead /\ b \in Block /\ b \in validated
      /\ b # root /\ root \in Ancestors[b] /\ rate \in Rate
  BY <1>2 DEF NextOn, SwitchInv, NodeInv, BaseInv, CallTypes, StateTypes
<1>4. rate \in Reproducible[b]
  BY <1>3 DEF ValidInv, RatesDoNotMatter
<1>5. b # Prev[b]
  BY <1>2, <1>3, StepBack, ChildFacts, AncestorsSelf
<1> QED
  BY <1>1, <1>2, <1>3, <1>4, <1>5, StateApplies

-----------------------------------------------------------------------------
(***************************************************************************)
(* The fork choice.  When no call is in progress no block of the index is  *)
(* preferred to the head.  While a push is handled only the pushed block,  *)
(* or blocks built on the branch being applied, may be; a block that       *)
(* throws is removed with everything that is built on it, and the reversal *)
(* ends at the tip it began with.                                          *)
(***************************************************************************)
IsBest(h) == \A x \in index : ~FirstPreferred(x, h)

\* Between calls, and on the way into a switch.
BestAtRest ==
    /\ pc = "idle" => IsBest(chead) /\ (~thrown => chead = head)
    /\ pc = "best" \/ (pc = "switch" /\ caller = "startup") => chead = head
    /\ pc = "switch" /\ caller = "push" =>
         \E b \in Block : \A x \in index : FirstPreferred(x, chead) => x = b

\* o is the tip to which a failed switch of a push comes back, and only what is
\* built on the whole new branch is preferred to it.
ComesBackTo(o) ==
    /\ \A b \in Block : first = {b} /\ second = {} => o = Prev[b]
    /\ \A a \in second : NextOn(second, a) = {} => a = o
    /\ \A x \in index : FirstPreferred(x, o) => pc # "unapply" /\ first \subseteq Ancestors[x]

BestInSwitch ==
    pc \in {"pop", "apply", "unapply"} =>
        /\ caller \in {"push", "startup", "replay"}
        /\ pc # "unapply" => \A n \in first : NextOn(first, n) = {} => IsBest(n)
        /\ caller = "push" => \E o \in Block : ComesBackTo(o)

\* The steps after a switch or in commit_block.
BestInCall ==
    /\ pc = "mark" => \A x \in index : FirstPreferred(x, chead) => x \in made
    /\ pc \in {"log", "append", "advance", "push"} => IsBest(chead)
    /\ pc = "push" => chead = head

\* A replay has only the branch it is on.
BestInReplay ==
    caller = "replay" =>
        IF pc = "apply" THEN \A b \in first : index \subseteq Ancestors[b]
        ELSE index \subseteq Ancestors[chead]

BestServing ==
    Serving /\ mode # "irreversible" =>
        BestAtRest /\ BestInSwitch /\ BestInCall /\ BestInReplay

\* A stopped node that has stored blocks had a best head.
BestStopped ==
    /\ pc = "down" => \A f \in saved : \/ f.head = f.root \/ Stored = {}
                                       \/ \A x \in f.index : ~FirstPreferred(x, f.head)
    /\ pc \in {"startup", "init"} => caller = "replay" \/ head = root \/ Stored = {} \/ IsBest(head)

BestInv == BestServing /\ BestStopped

\* The other direction of the weak order.
LEMMA PreferredIfNot ==
    ASSUME NEW x \in Block, NEW h \in Block, NEW n \in Block,
           FirstPreferred(x, h), ~FirstPreferred(x, n)
    PROVE  FirstPreferred(n, h)
<1>1. /\ DposLib[x] \in Nat /\ DposLib[h] \in Nat /\ DposLib[n] \in Nat
      /\ BlockNum[x] \in Nat /\ BlockNum[h] \in Nat /\ BlockNum[n] \in Nat
  BY BlockNumAssumption, DposLibAssumption
<1> QED
  BY <1>1 DEF FirstPreferred

\* The fork database's head is in the index unless it is the root, and the
\* root is preferred to no head.
LEMMA HeadNotBelow ==
    ASSUME NodeInv, Serving
    PROVE  head \in index \cup {root} /\ ~FirstPreferred(root, chead)
<1>1. head \in validated \cup {root} /\ validated \subseteq index
  BY RunFacts, HeadOnRoot
<1>2. /\ root \in Block /\ chead \in Block /\ root \in Ancestors[chead]
  BY RunFacts
<1>3. CASE root = chead
  BY <1>1, <1>2, <1>3, PreferredIrreflexive
<1>4. CASE root # chead
  <2>1. FirstPreferred(chead, root)
    BY <1>2, <1>4, PreferredToAncestors
  <2>2. /\ DposLib[chead] \in Nat /\ DposLib[root] \in Nat
        /\ BlockNum[chead] \in Nat /\ BlockNum[root] \in Nat
    BY <1>2, BlockNumAssumption, DposLibAssumption
  <2> QED
    BY <1>1, <2>1, <2>2 DEF FirstPreferred
<1> QED
  BY <1>1, <1>3, <1>4

\* What the invariant says of a running node that is not in irreversible mode,
\* and what a step has to show.
LEMMA BestRuns ==
    /\ BestInv /\ Serving /\ mode # "irreversible"
       => BestAtRest /\ BestInSwitch /\ BestInCall /\ BestInReplay
    /\ /\ pc' \notin {"down", "startup", "init"}
       /\ \/ mode' = "irreversible" \/ ~Serving'
          \/ BestAtRest' /\ BestInSwitch' /\ BestInCall' /\ BestInReplay'
       => BestInv'
BY DEF BestInv, BestServing, BestStopped

\* A call is over and the head is what it was, or the fork database's.
LEMMA BestRests ==
    ASSUME pc' \in {"idle", "best", "failed", "crashed"}, caller' # "replay",
           pc' = "idle" => IsBest(chead)' /\ (thrown' \/ chead' = head'),
           pc' = "best" => chead' = head'
    PROVE  BestInv'
<1>1. BestAtRest' /\ BestInSwitch' /\ BestInCall' /\ BestInReplay'
  BY DEF BestAtRest, BestInSwitch, BestInCall, BestInReplay
<1> QED
  BY <1>1, BestRuns

\* push_block: only the pushed block may be preferred to the head.
LEMMA BestPush ==
    ASSUME NodeInv, BestInv, NEW b \in Block, PushBlock(b)
    PROVE  BestInv'
<1>1. Serving /\ pc = "idle" /\ caller' = "push" /\ UNCHANGED <<mode, chead>>
      /\ pc' = IF mode = "irreversible" THEN "log" ELSE "switch"
  BY DEF PushBlock, Serving
<1>2. CASE mode = "irreversible"
  BY <1>1, <1>2, BestRuns
<1>3. CASE mode # "irreversible"
  <2>1. index' = index \cup {b}
    BY <1>1, RunFacts, AddFacts DEF PushBlock
  <2>2. IsBest(chead)
    BY <1>1, <1>3, BestRuns DEF BestAtRest
  <2>3. BestAtRest'
    BY <1>1, <1>3, <2>1, <2>2 DEF BestAtRest, IsBest
  <2>4. BestInSwitch' /\ BestInCall' /\ BestInReplay'
    BY <1>1, <1>3 DEF BestInSwitch, BestInCall, BestInReplay
  <2> QED
    BY <1>1, <1>3, <2>3, <2>4, BestRuns
<1> QED
  BY <1>2, <1>3

\* The last block of a branch found by maybe_switch_forks is its tip.
LEMMA LastOfBranch ==
    ASSUME NEW t \in Block, NEW u \in Block, NEW n \in Ancestors[t] \ Ancestors[u],
           \A d \in Ancestors[t] \ Ancestors[u] : Prev[d] # n
    PROVE  n = t
<1> SUFFICES ASSUME n # t
             PROVE  FALSE
  OBVIOUS
<1>1. PICK d \in Ancestors[t] \ {Genesis} : Prev[d] = n
  BY ChildOnBranch
<1>2. d \notin Ancestors[u]
  BY <1>1, AncestorsClosed
<1> QED
  BY <1>1, <1>2

\* maybe_switch_forks: the new branch ends with a best block, and if any block
\* is preferred to the old tip, only the new one is.
LEMMA BestMaybeSwitch ==
    ASSUME NodeInv, BestInv, MaybeSwitchForks
    PROVE  BestInv'
<1>1. Serving /\ pc = "switch" /\ mode # "irreversible" /\ caller \in {"push", "startup"}
  BY DEF MaybeSwitchForks, Serving, NodeInv, ControlInv, ModeInv, CallInv
<1>2. UNCHANGED <<root, head, index, validated, chead, mode>>
  BY DEF MaybeSwitchForks, fdbVars
<1>3. PICK new : new = PendingHead
  OBVIOUS
<1>4. /\ new \in Block /\ new \in index \cup {root}
      /\ new = head \/ (new \in index /\ FirstPreferred(new, head))
      /\ IsBest(new)
  BY <1>1, <1>3, RunFacts, PendingHeadFacts DEF NodeInv, BaseInv, Known, IsBest
<1>5. /\ chead \in Block /\ chead \in validated \cup {root} /\ index \subseteq Block
      /\ \A b \in index : b # root
      /\ \A b \in validated : ~FirstPreferred(b, head)
  BY <1>1, RunFacts DEF FdbInv, HeadIsBestValidated, BestValidated
<1>6. CASE new = chead
  <2>1. Return
    BY <1>3, <1>6 DEF MaybeSwitchForks
  <2>2. pc' \in {"idle", "best"} /\ caller' # "replay"
    BY <1>1, <2>1 DEF Return
  <2>3. chead = head
    BY <1>4, <1>5, <1>6
  <2>4. IsBest(chead)'
    BY <1>2, <1>4, <1>6 DEF IsBest
  <2> QED
    BY <1>2, <2>2, <2>3, <2>4, BestRests
<1>7. CASE new # chead
  <2>1. /\ first' = Ancestors[new] \ Ancestors[chead]
        /\ second' = Ancestors[chead] \ Ancestors[new]
        /\ pc' \in {"apply", "pop"} /\ caller' = caller
    BY <1>3, <1>7 DEF MaybeSwitchForks
  <2>2. ASSUME NEW n \in first', NextOn(first', n) = {}
        PROVE  IsBest(n)'
    <3>1. n \in Ancestors[new] \ Ancestors[chead] /\ \A d \in first' : Prev[d] # n
      BY <2>1, <2>2 DEF NextOn
    <3>2. n = new
      BY <1>4, <1>5, <2>1, <3>1, LastOfBranch
    <3> QED
      BY <1>2, <1>4, <3>2 DEF IsBest
  <2>3. ASSUME caller = "push", NEW o, o = chead
        PROVE  ComesBackTo(o)'
    <3>1. PICK p \in Block : \A x \in index : FirstPreferred(x, chead) => x = p
      BY <1>1, <2>3, BestRuns DEF BestAtRest
    <3>2. ASSUME NEW x \in index, FirstPreferred(x, chead)
          PROVE  x = new
      <4>1. x = p /\ x \in Block /\ ~FirstPreferred(x, new)
        BY <1>4, <1>5, <3>1, <3>2 DEF IsBest
      <4>2. FirstPreferred(new, chead)
        BY <1>4, <1>5, <3>2, <4>1, PreferredIfNot
      <4>3. new \in index
        BY <1>4, <1>5, <4>2, HeadNotBelow, <1>1
      <4> QED
        BY <3>1, <4>1, <4>2, <4>3
    <3>3. \A x \in index' : FirstPreferred(x, chead) => first' \subseteq Ancestors[x]
      BY <1>2, <2>1, <3>2
    <3>4. \A a \in second' : NextOn(second', a) = {} => a = chead
      <4> SUFFICES ASSUME NEW a \in second', NextOn(second', a) = {}
                   PROVE  a = chead
        OBVIOUS
      <4>1. a \in Ancestors[chead] \ Ancestors[new] /\ \A d \in second' : Prev[d] # a
        BY <2>1 DEF NextOn
      <4> QED
        BY <1>4, <1>5, <2>1, <4>1, LastOfBranch
    <3>5. ASSUME NEW b \in Block, first' = {b}, second' = {}
          PROVE  chead = Prev[b]
      <4>1. b \in Ancestors[new] /\ b \notin Ancestors[chead] /\ chead \in Ancestors[new]
        BY <1>5, <2>1, <3>5, AncestorsSelf
      <4>2. b # chead /\ chead # new
        BY <1>5, <1>7, <4>1, AncestorsSelf
      <4>3. PICK d \in Ancestors[new] \ {Genesis} : Prev[d] = chead
        BY <1>4, <4>1, <4>2, ChildOnBranch
      <4>4. d \notin Ancestors[chead]
        BY <1>4, <1>5, <4>3, AncestorsSelf, ChildFacts
      <4> QED
        BY <2>1, <3>5, <4>3, <4>4
    <3> QED
      BY <1>2, <2>1, <2>3, <3>3, <3>4, <3>5 DEF ComesBackTo, NextOn
  <2>4. BestInSwitch'
    <3>1. \A n \in first' : NextOn(first', n) = {} => IsBest(n)'
      BY <2>2
    <3>2. caller' = "push" => \E o \in Block : ComesBackTo(o)'
      BY <1>5, <2>1, <2>3
    <3> QED
      BY <1>1, <2>1, <3>1, <3>2 DEF BestInSwitch, NextOn, IsBest
  <2>5. BestAtRest' /\ BestInCall' /\ BestInReplay'
    BY <1>1, <2>1 DEF BestAtRest, BestInCall, BestInReplay
  <2> QED
    BY <2>1, <2>4, <2>5, BestRuns
<1> QED
  BY <1>6, <1>7

\* Pops within a switch change nothing that the choice depends on.
LEMMA BestPop ==
    ASSUME NodeInv, RevInv, BestInv, PopBlock \/ UnapplyBlock
    PROVE  BestInv'
<1>1. /\ Serving /\ pc \in {"pop", "unapply"} /\ mode # "irreversible" /\ caller # "replay"
  BY DEF PopBlock, UnapplyBlock, Serving, NodeInv, ControlInv, ModeInv, RevInv, RevControl
<1>2. /\ UNCHANGED <<index, first, second, caller, mode>>
      /\ pc' \in {"pop", "apply", "unapply"} /\ (pc = "unapply" <=> pc' = "unapply")
  BY DEF PopBlock, UnapplyBlock, fdbVars, Continue, callVars
<1>3. BestInSwitch
  BY <1>1, BestRuns
<1>4. BestInSwitch'
  BY <1>1, <1>2, <1>3 DEF BestInSwitch, ComesBackTo, NextOn, IsBest
<1>5. BestAtRest' /\ BestInCall' /\ BestInReplay'
  BY <1>1, <1>2 DEF BestAtRest, BestInCall, BestInReplay
<1> QED
  BY <1>2, <1>4, <1>5, BestRuns

\* After the last block of the new branch the head is a best block.
LEMMA BestApply ==
    ASSUME NodeInv, BestInv, ApplyBlock
    PROVE  BestInv'
<1>1. Serving /\ pc = "apply" /\ mode # "irreversible"
  BY DEF ApplyBlock, Serving, NodeInv, ControlInv, ModeInv
<1>2. PICK b \in NextOn(first, chead) :
         /\ chead' = b /\ MarkValidOnce(b)
         /\ Continue(IF NextOn(first, b) = {} THEN "log" ELSE "apply")
  BY DEF ApplyBlock
<1>3. index' = index
  BY <1>2 DEF MarkValidOnce, MarkValid, fdbVars
<1>4. /\ UNCHANGED <<first, second, caller>> /\ b \in first
      /\ pc' = IF NextOn(first, b) = {} THEN "log" ELSE "apply"
  BY <1>2 DEF Continue, callVars, NextOn
<1>5. BestInSwitch /\ BestInReplay
  BY <1>1, BestRuns
<1>6. CASE NextOn(first, b) = {}
  <2>1. pc' = "log" /\ IsBest(chead)'
    BY <1>1, <1>2, <1>3, <1>4, <1>5, <1>6 DEF BestInSwitch, IsBest
  <2>2. BestAtRest' /\ BestInSwitch' /\ BestInCall'
    BY <2>1 DEF BestAtRest, BestInSwitch, BestInCall
  <2>3. BestInReplay'
    BY <1>1, <1>2, <1>3, <1>4, <1>5, <2>1 DEF BestInReplay
  <2> QED
    BY <2>1, <2>2, <2>3, BestRuns
<1>7. CASE NextOn(first, b) # {}
  <2>1. pc' = "apply"
    BY <1>4, <1>7
  <2>2. BestInSwitch'
    BY <1>1, <1>3, <1>4, <1>5, <2>1 DEF BestInSwitch, ComesBackTo, NextOn, IsBest
  <2>3. BestAtRest' /\ BestInCall' /\ BestInReplay'
    BY <1>1, <1>3, <1>4, <1>5, <2>1 DEF BestAtRest, BestInCall, BestInReplay
  <2> QED
    BY <2>1, <2>2, <2>3, BestRuns
<1> QED
  BY <1>6, <1>7

\* A block that throws was never valid, so the fork database's head is not built
\* on it and remove() does not throw.
LEMMA ThrowsRemoved ==
    ASSUME RatesDoNotMatter, NodeInv, UndoInv, ValidInv, pc = "apply",
           NEW b \in NextOn(first, chead), ~CanApply(b)
    PROVE  /\ b \in Block \ {Genesis} /\ head \notin RemoveQueue(b, index)
           /\ \A x \in index : b \in Ancestors[x] => x \in RemoveQueue(b, index)
<1>1. Serving
  BY DEF Serving
<1>2. /\ caller # "commit" /\ SwitchInv /\ FdbInv /\ root \in Block /\ head \in Block
      /\ validated \subseteq index /\ index \subseteq Block \ {Genesis} /\ IsOpen
      /\ ValidClosed(root, validated)
  BY <1>1, RunFacts DEF UndoInv, CommitInv, ServingInv, CallPosition
<1>3. /\ b \in first /\ Prev[b] = chead /\ b \in Block
      /\ b # root /\ root \in Ancestors[b] /\ rate \in Rate
  BY <1>2 DEF NextOn, SwitchInv, NodeInv, BaseInv, CallTypes, StateTypes
<1>4. b \notin validated /\ b # Genesis
  <2>1. rate \notin Reproducible[b]
    BY <1>1, <1>2, <1>3, StateApplies
  <2>2. Reproducible[b] = {}
    BY <1>3, <2>1 DEF RatesDoNotMatter
  <2> QED
    BY <1>2, <1>3, <2>2, StepBack DEF ValidInv
<1>5. b \notin Ancestors[root] /\ Ancestors[root] \subseteq Ancestors[b]
  BY <1>2, <1>3, AncestorsAntisymmetric, AncestorsTransitive
<1>6. head \in validated \cup {root}
  BY <1>2, HeadOnRoot
<1>7. b \notin Ancestors[head]
  <2>1. CASE head = root
    BY <1>5, <2>1
  <2>2. CASE head \in validated
    BY <1>2, <1>4, <1>5, <2>2, ValidatedBranch
  <2> QED
    BY <1>6, <2>1, <2>2
<1>8. head \notin RemoveQueue(b, index)
  BY <1>2, <1>7, AncestorsSelf DEF RemoveQueue
<1>9. ASSUME NEW x \in index, b \in Ancestors[x]
      PROVE  x \in RemoveQueue(b, index)
  <2>1. Ancestors[x] \ Ancestors[root] \subseteq index
    BY <1>2, BranchInIndex DEF FdbInv, Linked
  <2> QED
    BY <1>5, <1>9, <2>1 DEF RemoveQueue
<1> QED
  BY <1>3, <1>4, <1>8, <1>9

\* What throws goes with all that is built on it: no block that is left is
\* preferred to the old tip.
LEMMA BestThrows ==
    ASSUME RatesDoNotMatter, NodeInv, UndoInv, RevInv, ValidInv, BestInv, ApplyBlockThrows
    PROVE  BestInv'
<1>1. Serving /\ pc = "apply" /\ mode # "irreversible" /\ chead' = chead /\ mode' = mode
  BY DEF ApplyBlockThrows, Serving, NodeInv, ControlInv, ModeInv
<1>2. PICK b \in NextOn(first, chead) :
         /\ ~CanApply(b)
         /\ IF head \in RemoveQueue(b, index)
            THEN UNCHANGED fdbVars /\ Throw
            ELSE /\ Remove(b)
                 /\ IF first = {b} /\ second = {} THEN Throw ELSE Continue("unapply")
  BY DEF ApplyBlockThrows
<1>3. /\ b \in first /\ Prev[b] = chead
      /\ b \in Block \ {Genesis}
      /\ \A x \in index : b \in Ancestors[x] => x \in RemoveQueue(b, index)
      /\ Remove(b)
      /\ IF first = {b} /\ second = {} THEN Throw ELSE Continue("unapply")
  BY <1>1, <1>2, ThrowsRemoved DEF NextOn
<1>4. index' = index \ RemoveQueue(b, index)
  BY <1>3 DEF Remove
<1>5. \A x \in index' : x \in index /\ b \notin Ancestors[x]
  BY <1>3, <1>4
<1>6. BestInSwitch
  BY <1>1, BestRuns
<1>7. caller \in {"push", "startup", "replay"}
      /\ (caller = "replay" => first = {b} /\ second = {})
  BY <1>1, <1>3, <1>6 DEF BestInSwitch, RevInv, RevControl
<1>8. CASE caller = "push"
  <2>1. PICK o \in Block : ComesBackTo(o)
    BY <1>1, <1>6, <1>8 DEF BestInSwitch
  <2>2. \A x \in index' : ~FirstPreferred(x, o)
    BY <1>3, <1>5, <2>1 DEF ComesBackTo
  <2>3. CASE first = {b} /\ second = {}
    <3>1. pc' = "idle" /\ thrown' /\ caller' = "none"
      BY <1>3, <1>8, <2>3 DEF Throw
    <3>2. o = chead
      BY <1>3, <2>1, <2>3 DEF ComesBackTo
    <3>3. IsBest(chead)'
      BY <1>1, <2>2, <3>2 DEF IsBest
    <3> QED
      BY <3>1, <3>3, BestRests
  <2>4. CASE ~(first = {b} /\ second = {})
    <3>1. pc' = "unapply" /\ UNCHANGED <<first, second, caller>>
      BY <1>3, <2>4 DEF Continue, callVars
    <3>2. ComesBackTo(o)'
      BY <2>1, <2>2, <3>1 DEF ComesBackTo, NextOn
    <3>3. BestInSwitch'
      BY <1>8, <3>1, <3>2 DEF BestInSwitch
    <3>4. BestAtRest' /\ BestInCall' /\ BestInReplay'
      BY <1>8, <3>1 DEF BestAtRest, BestInCall, BestInReplay
    <3> QED
      BY <3>1, <3>3, <3>4, BestRuns
  <2> QED
    BY <2>3, <2>4
<1>9. CASE caller # "push"
  <2>1. CASE first = {b} /\ second = {}
    <3>1. pc' = "failed"
      BY <1>3, <1>7, <1>9, <2>1 DEF Throw
    <3> QED
      BY <3>1, BestRuns DEF Serving
  <2>2. CASE ~(first = {b} /\ second = {})
    <3>1. pc' = "unapply" /\ caller' = "startup"
      BY <1>3, <1>7, <1>9, <2>2 DEF Continue, callVars
    <3>2. BestAtRest' /\ BestInSwitch' /\ BestInCall' /\ BestInReplay'
      BY <3>1 DEF BestAtRest, BestInSwitch, BestInCall, BestInReplay
    <3> QED
      BY <3>1, <3>2, BestRuns
  <2> QED
    BY <2>1, <2>2
<1> QED
  BY <1>8, <1>9

\* The reversal ends at the old tip.
LEMMA BestReapply ==
    ASSUME RatesDoNotMatter, NodeInv, UndoInv, RevInv, ValidInv, BestInv,
           ReapplyBlock \/ ReversalOfEmptyBranch
    PROVE  BestInv'
<1>1. /\ Serving /\ pc = "unapply" /\ mode # "irreversible" /\ caller # "replay"
      /\ index' = index
  BY DEF ReapplyBlock, ReversalOfEmptyBranch, Serving, NodeInv, ControlInv, ModeInv, RevInv,
     RevControl, fdbVars
<1>2. BestInSwitch
  BY <1>1, BestRuns
<1>3. caller \in {"push", "startup"}
  BY <1>1, <1>2 DEF BestInSwitch
<1>4. CASE ReversalOfEmptyBranch
  <2>1. pc' = "crashed" /\ caller' = caller
    BY <1>4 DEF ReversalOfEmptyBranch, Continue, callVars
  <2> QED
    BY <1>1, <2>1, BestRests
<1>5. CASE ReapplyBlock
  <2>1. PICK b \in NextOn(second, chead) :
           /\ b \in second /\ chead' = b
           /\ IF NextOn(second, b) = {} THEN Throw ELSE Continue("unapply")
    BY <1>1, <1>5, OldBranchApplies DEF ReapplyBlock, NextOn
  <2>2. CASE NextOn(second, b) = {}
    <3>1. pc' = (IF caller = "startup" THEN "failed" ELSE "idle") /\ thrown' /\ caller' = "none"
      BY <1>1, <2>1, <2>2 DEF Throw
    <3>2. ASSUME caller = "push"
          PROVE  IsBest(chead)'
      <4>1. PICK o \in Block : ComesBackTo(o)
        BY <1>1, <1>2, <3>2 DEF BestInSwitch
      <4>2. b = o /\ \A x \in index : ~FirstPreferred(x, o)
        BY <1>1, <2>1, <2>2, <4>1 DEF ComesBackTo
      <4> QED
        BY <1>1, <2>1, <4>2 DEF IsBest
    <3> QED
      BY <1>3, <3>1, <3>2, BestRests
  <2>3. CASE NextOn(second, b) # {}
    <3>1. pc' = "unapply" /\ UNCHANGED <<first, second, caller>>
      BY <2>1, <2>3 DEF Continue, callVars
    <3>2. BestInSwitch'
      BY <1>1, <1>2, <3>1 DEF BestInSwitch, ComesBackTo, NextOn
    <3>3. BestAtRest' /\ BestInCall' /\ BestInReplay'
      BY <1>1, <3>1 DEF BestAtRest, BestInCall, BestInReplay
    <3> QED
      BY <3>1, <3>2, <3>3, BestRuns
  <2> QED
    BY <2>1, <2>2, <2>3
<1> QED
  BY <1>4, <1>5

\* log_irreversible returns or throws, with the head the fork database's.
LEMMA BestLogEnds ==
    ASSUME LogReturns \/ Throw, pc \in {"log", "advance"}, IsBest(chead)', chead' = head',
           caller = "replay" => index' \subseteq Ancestors[chead']
    PROVE  BestInv'
<1>1. /\ pc' \in {"idle", "failed", "push", "best", "replay"}
      /\ caller' = "replay" => caller = "replay"
  BY DEF LogReturns, Throw, Return, Continue, callVars
<1>2. BestAtRest' /\ BestInSwitch' /\ BestInCall'
  BY <1>1 DEF BestAtRest, BestInSwitch, BestInCall
<1>3. BestInReplay'
  BY <1>1 DEF BestInReplay
<1> QED
  BY <1>1, <1>2, <1>3, BestRuns

\* log_irreversible only removes blocks from the index.
LEMMA BestLog ==
    ASSUME NodeInv, BestInv,
           LogIrreversible \/ AppendBlock \/ AppendApplyThrows \/ AppendThrows \/ AdvanceToLogHead
    PROVE  BestInv'
<1>1. Serving /\ pc \in {"log", "append", "advance"} /\ mode' = mode
  BY DEF LogIrreversible, AppendBlock, AppendApplyThrows, AppendThrows, AdvanceToLogHead, Serving
<1>2. pc' \notin {"down", "startup", "init"}
  <2>1. CASE LogReturns \/ LogThrows
    BY <2>1 DEF LogReturns, LogThrows, Return, Throw, Continue
  <2>2. CASE ~(LogReturns \/ LogThrows)
    BY <2>2 DEF LogIrreversible, AppendBlock, AppendApplyThrows, AppendThrows, AdvanceToLogHead,
       Logged, Continue
  <2> QED
    BY <2>1, <2>2
<1>3. CASE mode = "irreversible"
  BY <1>1, <1>2, <1>3, BestRuns
<1>4. CASE mode # "irreversible"
  <2>1. IsBest(chead) /\ (caller = "replay" => index \subseteq Ancestors[chead]) /\ chead = head
    BY <1>1, <1>4, BestRuns, RunFacts DEF BestInCall, BestInReplay, ServingInv, HeadPosition
  <2>2. index' \subseteq index /\ UNCHANGED <<chead, head>>
    BY <1>4 DEF LogIrreversible, AppendBlock, AppendApplyThrows, AppendThrows, AdvanceToLogHead,
       AdvanceRoot, fdbVars
  <2>3. IsBest(chead)' /\ (caller = "replay" => index' \subseteq Ancestors[chead'])
    BY <2>1, <2>2 DEF IsBest
  <2>4. CASE LogReturns \/ LogThrows
    <3>1. pc \in {"log", "advance"}
      BY <1>1, <2>4, <1>4 DEF LogIrreversible, AppendBlock, AppendApplyThrows, AppendThrows,
         AdvanceToLogHead, Logged, LogReturns, LogThrows, Return, Throw, Continue
    <3> QED
      BY <2>1, <2>2, <2>3, <2>4, <3>1, BestLogEnds DEF LogThrows
  <2>5. CASE ~(LogReturns \/ LogThrows)
    <3>1. pc' \in {"append", "advance"} /\ caller' = caller
      BY <2>5 DEF LogIrreversible, AppendBlock, AppendApplyThrows, AppendThrows, AdvanceToLogHead,
         Logged, Continue, callVars
    <3>2. BestAtRest' /\ BestInSwitch' /\ BestInCall' /\ BestInReplay'
      BY <2>3, <3>1 DEF BestAtRest, BestInSwitch, BestInCall, BestInReplay
    <3> QED
      BY <1>2, <3>2, BestRuns
  <2> QED
    BY <2>4, <2>5
<1> QED
  BY <1>3, <1>4

\* The committed block is the only one that is preferred to its predecessor, and
\* nothing the fork database knows is preferred to that: mark_valid makes the
\* block the head and the assert of commit_block does not fire.
LEMMA CommitIsBest ==
    ASSUME NodeInv, RevInv, BestInv, CommitMarkValid
    PROVE  \E b \in made : /\ head' = b /\ chead' = b /\ index' = index
                           /\ \A x \in index : ~FirstPreferred(x, b)
<1>1. Serving /\ pc = "mark" /\ mode # "irreversible"
  BY DEF CommitMarkValid, Serving, NodeInv, ControlInv, ModeInv
<1>2. PICK b \in made : MarkValid(b) /\ chead' = head'
  BY DEF CommitMarkValid
<1>3. /\ made = {b} /\ Prev[b] = chead
      /\ \A x \in index : FirstPreferred(x, chead) => x = b
  BY <1>1, <1>2, BestRuns, RunFacts
     DEF RevInv, RevControl, ServingInv, CallPosition, BestInCall
<1>4. /\ b \in index \ validated /\ index' = index /\ IsOpen
      /\ index \subseteq Block \ {Genesis} /\ chead \in Block /\ head \in Block /\ FdbInv
      /\ \A x \in index : x # root
  BY <1>1, <1>2, RunFacts DEF MarkValid
<1>5. FirstPreferred(b, chead)
  BY <1>3, <1>4, ChildFacts
<1>6. ~FirstPreferred(head, chead)
  BY <1>1, <1>3, <1>4, HeadNotBelow, HeadOnRoot
<1>7. FirstPreferred(b, head)
  BY <1>4, <1>5, <1>6, PreferredOver
<1>8. MarkValidOnce(b)
  BY <1>2, <1>4 DEF MarkValidOnce
<1>9. head' = b
  BY <1>4, <1>7, <1>8, MarkValidOnceFacts
<1>10. ASSUME NEW x \in index, FirstPreferred(x, b)
       PROVE  FALSE
  <2>1. CASE FirstPreferred(x, chead)
    BY <1>3, <1>4, <1>10, <2>1, PreferredIrreflexive
  <2>2. CASE ~FirstPreferred(x, chead)
    <3>1. FirstPreferred(b, x)
      BY <1>4, <1>5, <2>2, PreferredOver
    <3>2. /\ DposLib[b] \in Nat /\ DposLib[x] \in Nat
          /\ BlockNum[b] \in Nat /\ BlockNum[x] \in Nat
      BY <1>4, BlockNumAssumption, DposLibAssumption
    <3> QED
      BY <1>10, <3>1, <3>2 DEF FirstPreferred
  <2> QED
    BY <2>1, <2>2
<1> QED
  BY <1>2, <1>4, <1>9, <1>10

\* The steps of producing a block.
LEMMA BestProduce ==
    ASSUME NodeInv, UndoInv, RevInv, BestInv,
           \/ StartBlock \/ AbortBlock \/ (\E b \in Produced : CommitBlock(b))
           \/ CommitMarkValid \/ CommitPush
    PROVE  BestInv'
<1>1. Serving /\ mode' = mode /\ pc' \notin {"down", "startup", "init"}
  BY DEF StartBlock, AbortBlock, CommitBlock, CommitMarkValid, CommitPush, Serving, Return, Throw,
     Continue, NodeInv, BaseInv, CallTypes
<1>2. CASE mode = "irreversible"
  BY <1>1, <1>2, BestRuns
<1>3. CASE mode # "irreversible"
  <2>0. BestAtRest /\ BestInSwitch /\ BestInCall /\ BestInReplay
    BY <1>1, <1>3, BestRuns
  <2>1. CASE StartBlock \/ AbortBlock
    <3>1. pc = "idle" /\ UNCHANGED <<pc, caller, chead, head, index, thrown>>
      BY <2>1 DEF StartBlock, AbortBlock, fdbVars, callVars
    <3>2. caller = "none"
      BY <3>1 DEF NodeInv, ControlInv, CallInv
    <3>3. IsBest(chead)' /\ (thrown' \/ chead' = head')
      BY <2>0, <3>1 DEF BestAtRest, IsBest
    <3> QED
      BY <3>1, <3>2, <3>3, BestRests
  <2>2. ASSUME NEW b \in Produced, CommitBlock(b)
        PROVE  BestInv'
    <3>1. pc = "idle" /\ pc' = "mark" /\ caller' = "commit" /\ made' = {b} /\ chead' = chead
      BY <2>2 DEF CommitBlock
    <3>2. index' = index \cup {b}
      BY <2>2 DEF CommitBlock, Add
    <3>3. BestInCall'
      BY <2>0, <3>1, <3>2 DEF BestInCall, BestAtRest, IsBest
    <3>4. BestAtRest' /\ BestInSwitch' /\ BestInReplay'
      BY <3>1 DEF BestAtRest, BestInSwitch, BestInReplay
    <3> QED
      BY <1>1, <3>3, <3>4, BestRuns
  <2>3. CASE CommitMarkValid
    <3>1. PICK b \in made : /\ head' = b /\ chead' = b /\ index' = index
                            /\ \A x \in index : ~FirstPreferred(x, b)
      BY <2>3, CommitIsBest
    <3>2. pc = "mark" /\ caller = "commit" /\ made = {b}
      BY <2>3, <3>1 DEF CommitMarkValid, NodeInv, ControlInv, CallInv, RevInv, RevControl
    <3>3. pc' = "log" /\ caller' = "commit"
      BY <2>3, <3>1, <3>2 DEF CommitMarkValid, Continue, callVars
    <3>4. IsBest(chead)'
      BY <3>1 DEF IsBest
    <3>5. BestAtRest' /\ BestInSwitch' /\ BestInCall' /\ BestInReplay'
      BY <3>3, <3>4 DEF BestAtRest, BestInSwitch, BestInCall, BestInReplay
    <3> QED
      BY <1>1, <3>5, BestRuns
  <2>4. CASE CommitPush
    <3>1. pc = "push" /\ caller = "commit" /\ UNCHANGED <<chead, head, index>>
      BY <2>4 DEF CommitPush, fdbVars, NodeInv, ControlInv, CallInv
    <3>2. pc' = "idle" /\ caller' = "none"
      BY <2>4, <3>1 DEF CommitPush, Return
    <3>3. IsBest(chead)' /\ chead' = head'
      BY <2>0, <3>1 DEF BestInCall, IsBest
    <3> QED
      BY <3>2, <3>3, BestRests
  <2> QED
    BY <2>1, <2>2, <2>3, <2>4
<1> QED
  BY <1>2, <1>3

\* No block is preferred to one that is built on it.
LEMMA BestOfBranch ==
    ASSUME NEW t \in Block, NEW ix, ix \subseteq Ancestors[t]
    PROVE  \A x \in ix : ~FirstPreferred(x, t)
<1> SUFFICES ASSUME NEW x \in ix, FirstPreferred(x, t)
             PROVE  FALSE
  OBVIOUS
<1>1. x \in Block
  BY AncestorsSelf
<1>2. x # t
  BY PreferredIrreflexive
<1>3. FirstPreferred(t, x)
  BY <1>2, PreferredToAncestors
<1>4. /\ DposLib[t] \in Nat /\ DposLib[x] \in Nat /\ BlockNum[t] \in Nat /\ BlockNum[x] \in Nat
  BY <1>1, BlockNumAssumption, DposLibAssumption
<1> QED
  BY <1>3, <1>4 DEF FirstPreferred

\* Stopping, and starting up to the checks of init().
LEMMA BestStop ==
    ASSUME ~MayReplay, NodeInv, BestInv, Shutdown => chead = head,
           Shutdown \/ Crash \/ Startup \/ StartupGenesis \/ StartupHead
    PROVE  BestInv'
<1>0. ASSUME pc' \in {"down", "startup", "init"}, BestStopped'
      PROVE  BestInv'
  <2>1. BestServing'
    BY <1>0 DEF BestServing, BestAtRest, BestInSwitch, BestInCall, BestInReplay, Serving
  <2> QED
    BY <1>0, <2>1 DEF BestInv
<1>1. CASE Shutdown
  <2>1. Serving /\ pc = "idle" /\ pc' = "down" /\ UNCHANGED <<rev, blog>>
    BY <1>1 DEF Shutdown, Serving
  <2>2. saved' = {Contents} /\ Stored' = Stored
    BY <1>1, <2>1 DEF Shutdown, Close, Stored, LogHead
  <2>3. head = root \/ Stored = {} \/ \A x \in index : ~FirstPreferred(x, head)
    <3>1. CASE mode = "irreversible"
      BY <2>1, <3>1 DEF NodeInv, ControlInv, ModeInv, Stored
    <3>2. CASE mode # "irreversible"
      BY <1>1, <2>1, <3>2, BestRuns DEF BestAtRest, IsBest
    <3> QED
      BY <3>1, <3>2
  <2>4. BestStopped'
    BY <2>1, <2>2, <2>3 DEF BestStopped, Contents
  <2> QED
    BY <1>0, <2>1, <2>4
<1>2. CASE Crash
  <2>1. pc' = "down" /\ pc # "down"
    BY <1>2 DEF Crash
  <2>2. saved' = {}
    BY <1>2, <2>1 DEF Crash, Reset, NodeInv, BaseInv, StageInv
  <2>3. BestStopped'
    BY <2>1, <2>2 DEF BestStopped
  <2> QED
    BY <1>0, <2>1, <2>3
<1>3. CASE Startup
  <2>1. pc = "down" /\ pc' = "startup" /\ UNCHANGED <<rev, blog>> /\ Open
    BY <1>3 DEF Startup
  <2>2. PICK f \in saved : root' = f.root /\ head' = f.head /\ index' = f.index
    BY <2>1 DEF Open
  <2>3. Stored' = Stored
    BY <2>1 DEF Stored, LogHead
  <2>4. BestStopped'
    BY <2>1, <2>2, <2>3 DEF BestStopped, BestInv, IsBest
  <2> QED
    BY <1>0, <2>1, <2>4
<1>4. CASE StartupGenesis
  <2>1. pc' = "startup" /\ caller' = "replay"
    BY <1>4 DEF StartupGenesis
  <2>2. BestStopped'
    BY <2>1 DEF BestStopped
  <2> QED
    BY <1>0, <2>1, <2>2
<1>5. CASE StartupHead
  <2>1. pc = "startup" /\ pc' = "init" /\ UNCHANGED <<rev, blog, caller>>
    BY <1>5 DEF StartupHead, Continue, callVars
  <2>2. Stored' = Stored
    BY <2>1 DEF Stored, LogHead
  <2>3. head' = root' \/ UNCHANGED <<root, head, index>>
    BY <1>5 DEF StartupHead, RollbackHeadToRoot, fdbVars
  <2>4. BestStopped'
    BY <2>1, <2>2, <2>3 DEF BestStopped, BestInv, IsBest
  <2> QED
    BY <1>0, <2>1, <2>4
<1> QED
  BY <1>1, <1>2, <1>3, <1>4, <1>5

\* What init() finds of a node that was stopped in order: nothing to replay, and
\* if no blocks are stored the head is the root.
LEMMA StoredAtHead ==
    ASSUME NodeInv, RevInv, pc = "init", caller # "replay", mode # "irreversible"
    PROVE  /\ ~(LastStoredNum > BlockNum[chead])
           /\ ReversibleBlocksMatch /\ Stored = {} => head = root
<1>1. root = LogHead /\ IsOpen /\ FdbInv /\ StateTypes /\ LogInv /\ chead = head
  BY DEF NodeInv, BaseInv, StageInv, PositionInv, StoppedInv, IsOpen
<1>2. head \in Block /\ root \in Block /\ root \in Ancestors[head]
  BY <1>1, HeadOnRoot DEF FdbInv, FdbTypeOK
<1>3. PICK r \in KeptReversible \cup {LogHead} : LastStoredNum = BlockNum[r]
  BY <1>1, LastStoredFacts
<1>4. KeptReversible = Stored
  BY DEF KeptReversible, Stored
<1>5. r \in Ancestors[head]
  <2>1. CASE r = LogHead
    BY <1>1, <1>2, <2>1
  <2>2. CASE r \in Stored
    <3>1. PICK t \in Block : StopBranch(t)
      BY DEF RevInv, RevStopped
    <3>2. head = t /\ r \in Ancestors[t]
      BY <2>2, <3>1 DEF StopBranch, AboveOf
    <3> QED
      BY <3>2
  <2> QED
    BY <1>3, <1>4, <2>1, <2>2
<1>6. r \in Block /\ BlockNum[r] \in Nat /\ BlockNum[head] \in Nat /\ BlockNum[root] \in Nat
  BY <1>2, <1>5, AncestorsSelf, BlockNumAssumption
<1>7. r = head \/ BlockNum[r] < BlockNum[head]
  BY <1>2, <1>5, AncestorNum
<1>8. ~(LastStoredNum > BlockNum[chead])
  BY <1>1, <1>3, <1>6, <1>7
<1>9. ASSUME ReversibleBlocksMatch, Stored = {}
      PROVE  head = root
  <2>1. r = root /\ BlockNum[head] <= BlockNum[root]
    BY <1>1, <1>3, <1>4, <1>9 DEF ReversibleBlocksMatch
  <2>2. root = head \/ BlockNum[root] < BlockNum[head]
    BY <1>2, AncestorNum
  <2> QED
    BY <1>6, <2>1, <2>2
<1> QED
  BY <1>8, <1>9

\* init() ends with the head it found, or goes on to the best branch.
LEMMA BestEnds ==
    ASSUME StartupEnds, caller' # "replay", mode' = mode, chead' = head',
           UNCHANGED <<head, root>>, head = root \/ IsBest(chead)' \/ mode = "irreversible"
    PROVE  BestInv'
<1>1. CASE mode = "irreversible"
  BY <1>1, BestRuns DEF StartupEnds
<1>2. CASE mode # "irreversible" /\ head = root
  BY <1>2, BestRests DEF StartupEnds
<1>3. CASE mode # "irreversible" /\ head # root
  BY <1>3, BestRests DEF StartupEnds
<1> QED
  BY <1>1, <1>2, <1>3

\* init().
LEMMA BestChecks ==
    ASSUME NodeInv, RevInv, BestInv, StartupChecks
    PROVE  BestInv'
<1>1. pc = "init" /\ UNCHANGED <<root, head, index, chead, blog, mode>>
  BY DEF StartupChecks, fdbVars
<1>2. /\ chead = head /\ caller \in {"startup", "replay"}
      /\ caller = "replay" => Empty
  BY <1>1 DEF NodeInv, BaseInv, StageInv, PositionInv, StoppedInv
<1>3. CASE Throw
  <2>1. pc' = "failed"
    BY <1>2, <1>3 DEF Throw
  <2> QED
    BY <2>1, BestRuns DEF Serving
<1>4. CASE ~Throw
  <2>1. ReplayOrEnd /\ ReversibleBlocksMatch
    BY <1>4 DEF StartupChecks
  <2>2. CASE LastStoredNum > BlockNum[chead]
    <3>1. pc' \in {"replaylog", "replay"} /\ caller' = "replay"
      BY <2>1, <2>2 DEF ReplayOrEnd
    <3>2. CASE mode = "irreversible"
      BY <1>1, <3>1, <3>2, BestRuns
    <3>3. CASE mode # "irreversible"
      <4>1. index' = {}
        BY <1>1, <1>2, <2>2, <3>3, StoredAtHead DEF Empty
      <4>2. BestAtRest' /\ BestInSwitch' /\ BestInCall' /\ BestInReplay'
        BY <3>1, <4>1 DEF BestAtRest, BestInSwitch, BestInCall, BestInReplay
      <4> QED
        BY <3>1, <4>2, BestRuns
    <3> QED
      BY <3>2, <3>3
  <2>3. CASE ~(LastStoredNum > BlockNum[chead])
    <3>1. StartupEnds
      BY <2>1, <2>3 DEF ReplayOrEnd
    <3>2. caller' # "replay"
      BY <3>1 DEF StartupEnds
    <3>3. head = root \/ IsBest(head) \/ mode = "irreversible"
      <4>1. CASE caller = "replay"
        BY <1>2, <4>1 DEF Empty
      <4>2. CASE caller # "replay"
        BY <1>1, <2>1, <4>2, StoredAtHead DEF BestInv, BestStopped
      <4> QED
        BY <4>1, <4>2
    <3>4. head = root \/ IsBest(chead)' \/ mode = "irreversible"
      BY <1>1, <1>2, <3>3 DEF IsBest
    <3> QED
      BY <1>1, <1>2, <3>1, <3>2, <3>4, BestEnds
  <2> QED
    BY <2>2, <2>3
<1> QED
  BY <1>3, <1>4

\* The search for the best branch after a change from irreversible mode, and the
\* replay of what is stored.
LEMMA BestReplays ==
    ASSUME NodeInv, BestInv,
           StartupBestBranch \/ ReplayIrreversible \/ ReplayReversible \/ ReplayEnds
    PROVE  BestInv'
<1>1. CASE StartupBestBranch
  <2>1. /\ Serving /\ pc = "best" /\ mode # "irreversible" /\ caller = "startup"
        /\ UNCHANGED <<head, index, chead>>
    BY <1>1 DEF StartupBestBranch, Serving, NodeInv, ControlInv, ModeInv, CallInv, fdbVars
  <2>2. chead = head
    BY <2>1, BestRuns DEF BestAtRest
  <2>3. CASE PendingHead # head
    <3>1. pc' = "switch" /\ caller' = "startup"
      BY <1>1, <2>1, <2>3 DEF StartupBestBranch, Continue, callVars
    <3>2. BestAtRest' /\ BestInSwitch' /\ BestInCall' /\ BestInReplay'
      BY <2>1, <2>2, <3>1 DEF BestAtRest, BestInSwitch, BestInCall, BestInReplay
    <3> QED
      BY <3>1, <3>2, BestRuns
  <2>4. CASE PendingHead = head
    <3>1. pc' = "idle" /\ caller' = "none"
      BY <1>1, <2>4 DEF StartupBestBranch
    <3>2. \A b \in index : ~FirstPreferred(b, head)
      BY <2>1, <2>4, RunFacts, PendingHeadFacts DEF NodeInv, BaseInv
    <3>3. IsBest(chead)'
      BY <2>1, <2>2, <3>2 DEF IsBest
    <3> QED
      BY <2>1, <2>2, <3>1, <3>3, BestRests
  <2> QED
    BY <2>3, <2>4
<1>2. CASE ReplayIrreversible
  <2>1. pc = "replaylog" /\ caller = "replay" /\ index = {}
    BY <1>2 DEF ReplayIrreversible, NodeInv, BaseInv, StageInv, PositionInv, StoppedInv
  <2>2. CASE Throw
    <3>1. pc' = "failed"
      BY <2>1, <2>2 DEF Throw
    <3> QED
      BY <3>1, BestRuns DEF Serving
  <2>3. CASE ~Throw
    <3>1. pc' \in {"replaylog", "replay"} /\ caller' = "replay" /\ index' = {}
      BY <1>2, <2>1, <2>3 DEF ReplayIrreversible, Continue, callVars, Reset, fdbVars
    <3>2. BestAtRest' /\ BestInSwitch' /\ BestInCall' /\ BestInReplay'
      BY <3>1 DEF BestAtRest, BestInSwitch, BestInCall, BestInReplay
    <3> QED
      BY <3>1, <3>2, BestRuns
  <2> QED
    BY <2>2, <2>3
<1>3. CASE ReplayReversible
  <2>1. Serving /\ pc = "replay" /\ caller = "replay" /\ mode' = mode
    BY <1>3 DEF ReplayReversible, Serving, NodeInv, ControlInv, CallInv
  <2>2. CASE Throw
    <3>1. pc' = "failed"
      BY <2>1, <2>2 DEF Throw
    <3> QED
      BY <3>1, BestRuns DEF Serving
  <2>3. CASE ~Throw
    <3>1. PICK b \in Block :
             /\ Prev[b] = chead
             /\ IF b \in index THEN UNCHANGED fdbVars ELSE Add(b)
             /\ first' = {b} /\ pc' = "apply" /\ caller' = caller
      BY <1>3, <2>3 DEF ReplayReversible
    <3>2. CASE mode = "irreversible"
      BY <2>1, <3>1, <3>2, BestRuns
    <3>3. CASE mode # "irreversible"
      <4>1. index \subseteq Ancestors[chead]
        BY <2>1, <3>3, BestRuns DEF BestInReplay
      <4>2. index' \subseteq index \cup {b} /\ b # Genesis
        BY <2>1, <3>1, RunFacts DEF Add, fdbVars
      <4>3. index' \subseteq Ancestors[b]
        BY <3>1, <4>1, <4>2, ChildFacts
      <4>4. \A x \in index' : ~FirstPreferred(x, b)
        BY <4>3, BestOfBranch
      <4>5. BestInSwitch'
        BY <2>1, <3>1, <4>4 DEF BestInSwitch, IsBest
      <4>6. BestAtRest' /\ BestInCall' /\ BestInReplay'
        BY <2>1, <3>1, <4>3 DEF BestAtRest, BestInCall, BestInReplay
      <4> QED
        BY <3>1, <4>5, <4>6, BestRuns
    <3> QED
      BY <3>2, <3>3
  <2> QED
    BY <2>2, <2>3
<1>4. CASE ReplayEnds
  <2>1. /\ Serving /\ pc = "replay" /\ caller = "replay"
        /\ UNCHANGED <<root, head, index, chead, mode>> /\ StartupEnds
    BY <1>4 DEF ReplayEnds, Serving, NodeInv, ControlInv, CallInv, fdbVars
  <2>2. caller' # "replay"
    BY <2>1 DEF StartupEnds
  <2>3. chead = head /\ chead \in Block
    BY <2>1, RunFacts DEF ServingInv, HeadPosition
  <2>4. IsBest(chead)' \/ mode = "irreversible"
    <3> SUFFICES ASSUME mode # "irreversible"
                 PROVE  \A x \in index : ~FirstPreferred(x, chead)
      BY <2>1 DEF IsBest
    <3>1. index \subseteq Ancestors[chead]
      BY <2>1, BestRuns DEF BestInReplay
    <3> QED
      BY <2>3, <3>1, BestOfBranch
  <2> QED
    BY <2>1, <2>2, <2>3, <2>4, BestEnds
<1> QED
  BY <1>1, <1>2, <1>3, <1>4

\* BestInv is inductive, given the other invariants.
LEMMA BestNext ==
    ASSUME ~MayReplay, RatesDoNotMatter, NodeInv, UndoInv, RevInv, ValidInv, BestInv,
           [Next]_vars, [Shutdown => chead = head]_vars
    PROVE  BestInv'
<1>1. CASE UNCHANGED vars
  BY <1>1 DEF vars, ctlVars, callVars, fdbVars, BestInv, BestServing, BestStopped, BestAtRest,
     BestInSwitch, BestInCall, BestInReplay, ComesBackTo, IsBest, NextOn, Stored, LogHead, Serving
<1>2. CASE \E b \in Block : RejectBlock(b)
  BY <1>1, <1>2 DEF RejectBlock
<1>3. ASSUME Next, Shutdown => chead = head
      PROVE  BestInv'
  BY <1>2, <1>3, BestPush, BestMaybeSwitch, BestPop, BestApply, BestThrows, BestReapply, BestLog,
     BestProduce, BestStop, BestChecks, BestReplays DEF Next, Step
<1> QED
  BY <1>1, <1>3

\* Together the invariants need no hypothesis on commit_block's assert.
LEMMA BestHolds ==
    ASSUME ~MayReplay, RatesDoNotMatter
    PROVE  Spec /\ CommitsLog /\ StopsAtForkHead
             => [](NodeInv /\ UndoInv /\ RevInv /\ ValidInv /\ BestInv)
<1> DEFINE All == NodeInv /\ UndoInv /\ RevInv /\ ValidInv /\ BestInv
<1>1. Init => UndoInv /\ RevInv /\ ValidInv /\ BestInv
  <2>1. Init => ValidInv
    BY DEF Init, FdbInit, ValidInv
  <2>2. Init => BestInv
    BY DEF Init, FdbInit, BestInv, BestServing, BestStopped, BestAtRest, BestInSwitch, BestInCall,
       BestInReplay, IsBest
  <2> QED
    BY <2>1, <2>2, UndoInit, RevInit
<1>2. ASSUME All, [Next]_vars, [~(AppendThrows /\ caller = "commit")]_vars,
             [Shutdown => chead = head]_vars
      PROVE  UndoInv' /\ RevInv' /\ ValidInv' /\ BestInv'
  <2>1. [CommitMarkValid => head' \in made]_vars
    BY <1>2, CommitIsBest
  <2>2. [UndoStep]_vars
    BY <1>2, <2>1 DEF UndoStep
  <2>3. UndoInv'
    BY <1>2, <2>2, UndoNext
  <2>4. RevInv'
    BY <1>2, <2>1, RevNext
  <2>5. ValidInv'
    BY <1>2, ValidNext
  <2>6. BestInv'
    BY <1>2, BestNext
  <2> QED
    BY <2>3, <2>4, <2>5, <2>6
<1>3. UndoInv /\ RevInv /\ ValidInv /\ BestInv /\ NodeInv
      /\ [Next]_vars /\ [~(AppendThrows /\ caller = "commit")]_vars
      /\ [Shutdown => chead = head]_vars
      => UndoInv' /\ RevInv' /\ ValidInv' /\ BestInv'
  BY <1>2
<1> QED
  BY <1>1, <1>3, NodeHolds, PTL DEF Spec, CommitsLog, StopsAtForkHead

\* Between calls no block the node knows is preferred to its head, even when the
\* last call threw, and the head is the fork database's unless it threw: what
\* maybe_switch_forks decides is right through failed switches, blocks that are
\* invalid in the middle of a branch, production, restarts, crashes with a replay
\* and changes of mode.
THEOREM NodeOnBestBranch ==
    ASSUME ~MayReplay, RatesDoNotMatter
    PROVE  Spec /\ CommitsLog /\ StopsAtForkHead => []OnBestBranch
<1>1. BestInv => OnBestBranch
  <2>1. pc = "idle" => Serving
    BY DEF Serving
  <2> QED
    BY <2>1 DEF BestInv, BestServing, BestAtRest, IsBest, OnBestBranch, Idle
<1> QED
  BY <1>1, BestHolds, PTL

\* The assert of commit_block does not fire ("committed block did not become the
\* new head in fork database"), so that it is no condition of what is proved
\* above when rates do not matter.
THEOREM NodeCommitTakesHead ==
    ASSUME ~MayReplay, RatesDoNotMatter
    PROVE  Spec /\ CommitsLog /\ StopsAtForkHead => CommitTakesHead
<1>1. NodeInv /\ RevInv /\ BestInv => [CommitMarkValid => head' \in made]_vars
  BY CommitIsBest
<1> QED
  BY <1>1, BestHolds, PTL DEF CommitTakesHead

\* When a fork switch fails, every block of the old branch is applied again:
\* the state is that of the common ancestor, each block is executed on its
\* parent's state, and it has been executed before.
THEOREM NodeReapplySucceeds ==
    ASSUME ~MayReplay, RatesDoNotMatter
    PROVE  Spec /\ CommitsLog /\ StopsAtForkHead => ReapplySucceeds
<1>1. ASSUME NodeInv, UndoInv, ValidInv, ReapplyBlock
      PROVE  chead' # chead
  <2>1. pc = "unapply"
    BY <1>1 DEF ReapplyBlock
  <2>2. PICK b \in NextOn(second, chead) : CanApply(b) => chead' = b
    BY <1>1 DEF ReapplyBlock
  <2> QED
    BY <1>1, <2>1, <2>2, OldBranchApplies DEF NextOn
<1>2. NodeInv /\ UndoInv /\ ValidInv => [ReapplyBlock => chead' # chead]_vars
  BY <1>1
<1> QED
  BY <1>2, BestHolds, PTL DEF ReapplySucceeds

\* A block that throws cannot be executed under any rate.
LEMMA ThrowsInvalid ==
    ASSUME RatesDoNotMatter, NodeInv, UndoInv, pc = "apply",
           NEW b \in NextOn(first, chead), ~CanApply(b)
    PROVE  b \in Block /\ Reproducible[b] = {}
<1>1. Serving
  BY DEF Serving
<1>2. caller # "commit" /\ SwitchInv
  BY <1>1, RunFacts DEF UndoInv, CommitInv, ServingInv, CallPosition
<1>3. Prev[b] = chead /\ b \in Block /\ rate \in Rate
  BY DEF NextOn, NodeInv, BaseInv, CallTypes, StateTypes
<1>4. rate \notin Reproducible[b]
  BY <1>1, <1>2, <1>3, StateApplies
<1> QED
  BY <1>3, <1>4 DEF RatesDoNotMatter

\* advance_root drops the new root and what is not built on it.
LEMMA AdvanceDrops ==
    ASSUME FdbInv, NEW r, AdvanceRoot(r), NEW b \in index \ index'
    PROVE  b = root' \/ root' \notin Ancestors[b]
<1>1. /\ root' = r /\ r \in index /\ root \in Block /\ index \in SUBSET (Block \ {Genesis})
      /\ index' = (index \ {r}) \ RemoveQueue(root, index \ {r})
  BY DEF AdvanceRoot, FdbInv, FdbTypeOK
<1> SUFFICES ASSUME b # r, r \in Ancestors[b]
             PROVE  FALSE
  BY <1>1
<1>2. b \in RemoveQueue(root, index \ {r}) /\ r \in Block
  BY <1>1
<1>3. r # root /\ root \in Ancestors[r] /\ b # root
  BY <1>1 DEF FdbInv, Linked, LinkedTo
<1>4. r \notin Ancestors[root]
  BY <1>1, <1>2, <1>3, AncestorsAntisymmetric
<1> QED
  BY <1>2, <1>3, <1>4 DEF RemoveQueue

\* close() leaves the index empty.
LEMMA ClosedIsEmpty == Spec => [](IsOpen \/ index = {})
<1>1. FdbInit => IsOpen \/ index = {}
  BY DEF FdbInit, IsOpen
<1>2. (IsOpen \/ index = {}) /\ [FdbNext]_fdbVars => (IsOpen \/ index = {})'
  BY DEF FdbNext, fdbVars, IsOpen, Add, MarkValid, Remove, AdvanceRoot, RollbackHeadToRoot, Reset,
     Close, Open
<1> QED
  BY <1>1, <1>2, NodeIsFdb, PTL DEF FdbSpec

\* No good block is lost: what leaves the fork database of a node that is not
\* stopped is final, is not on the final branch, or cannot be executed.  The
\* state a block is executed on is its parent's at every step of a switch and
\* of its reversal, so that nothing else makes apply_block throw.
THEOREM NodeOnlyInvalidDropped ==
    ASSUME ~MayReplay, RatesDoNotMatter
    PROVE  Spec /\ CommitsLog /\ StopsAtForkHead => OnlyInvalidDropped
<1> DEFINE Dropped(b) ==
        \/ b = root' \/ root' \notin Ancestors[b]
        \/ \E a \in Ancestors[b] : Reproducible[a] = {}
        \/ pc' = "down"
<1>1. ASSUME NodeInv, UndoInv, IsOpen \/ index = {}, Next, NEW b \in index \ index'
      PROVE  Dropped(b)
  <2>0. FdbInv /\ index \subseteq Block
    BY <1>1 DEF NodeInv, BaseInv, FdbInv, FdbTypeOK
  <2>1. CASE ApplyBlockThrows
    <3>1. PICK x \in NextOn(first, chead) : ~CanApply(x) /\ (Remove(x) \/ UNCHANGED fdbVars)
      BY <2>1 DEF ApplyBlockThrows
    <3>2. x \in Block /\ Reproducible[x] = {}
      BY <1>1, <2>1, <3>1, ThrowsInvalid DEF ApplyBlockThrows
    <3>3. b \in RemoveQueue(x, index)
      BY <1>1, <3>1 DEF Remove, fdbVars
    <3>4. x \in Ancestors[b]
      BY <3>2, <3>3, AncestorsSelf DEF RemoveQueue
    <3> QED
      BY <3>2, <3>4
  <2>2. CASE AdvanceToLogHead
    <3>1. AdvanceRoot(LogHead)
      BY <1>1, <2>2 DEF AdvanceToLogHead, fdbVars
    <3> QED
      BY <1>1, <2>0, <3>1, AdvanceDrops
  <2>3. CASE Shutdown \/ Crash
    BY <2>3 DEF Shutdown, Crash
  <2>4. CASE Startup \/ StartupGenesis
    <3>1. pc = "down" /\ (Open \/ UNCHANGED fdbVars)
      BY <2>4 DEF Startup, StartupGenesis
    <3>2. saved # {} => index = {}
      BY <1>1 DEF IsOpen
    <3> QED
      BY <1>1, <3>1, <3>2 DEF Open, fdbVars
  <2>5. CASE ReplayIrreversible
    BY <1>1, <2>5 DEF ReplayIrreversible, NodeInv, PositionInv, StoppedInv
  <2>6. CASE (\E x \in Block : RejectBlock(x)) \/ (\E x \in Block : PushBlock(x))
             \/ (\E x \in Produced : CommitBlock(x)) \/ ReplayReversible
    <3>1. index \subseteq index'
      BY <2>6 DEF RejectBlock, PushBlock, CommitBlock, ReplayReversible, Add, vars, fdbVars
    <3> QED
      BY <1>1, <3>1
  <2>7. CASE ApplyBlock \/ AppendBlock \/ AppendThrows \/ CommitMarkValid \/ StartupHead
    <3>1. index' = index
      BY <2>7 DEF ApplyBlock, AppendBlock, AppendThrows, CommitMarkValid, StartupHead,
         MarkValidOnce, MarkValid, RollbackHeadToRoot, fdbVars
    <3> QED
      BY <1>1, <3>1
  <2>8. CASE \/ StartBlock \/ AbortBlock \/ MaybeSwitchForks \/ PopBlock \/ UnapplyBlock
             \/ ReversalOfEmptyBranch \/ ReapplyBlock \/ LogIrreversible \/ AppendApplyThrows
             \/ CommitPush \/ StartupChecks \/ StartupBestBranch \/ ReplayEnds
    <3>1. UNCHANGED fdbVars
      BY <2>8 DEF StartBlock, AbortBlock, MaybeSwitchForks, PopBlock, UnapplyBlock,
         ReversalOfEmptyBranch, ReapplyBlock, LogIrreversible, AppendApplyThrows, CommitPush,
         StartupChecks, StartupBestBranch, ReplayEnds
    <3> QED
      BY <1>1, <3>1 DEF fdbVars
  <2> QED
    BY <1>1, <2>1, <2>2, <2>3, <2>4, <2>5, <2>6, <2>7, <2>8 DEF Next, Step
<1>2. NodeInv /\ UndoInv /\ (IsOpen \/ index = {}) /\ [Next]_vars
      => [\A b \in index \ index' : Dropped(b)]_vars
  BY <1>1
<1> QED
  BY <1>2, BestHolds, ClosedIsEmpty, PTL DEF Spec, OnlyInvalidDropped

-----------------------------------------------------------------------------
(***************************************************************************)
(* A node comes up again.  When every block can be executed and no append  *)
(* throws, no call ends with an exception, so that the node is stopped at  *)
(* the fork database's head, with the blocks of its branch stored; then no *)
(* check of init() fails.                                                  *)
(***************************************************************************)
NoneInvalid == \A b \in Block : \A r \in Rate : r \in Reproducible[b]

UpInv ==
    /\ pc \notin {"unapply", "failed", "crashed"} /\ ~thrown
    /\ pc = "down" => \A f \in saved : f.head = f.root \/ Stored # {}
    /\ pc \in {"startup", "init"} => caller = "replay" \/ head = root \/ Stored # {}

\* All that is known of such a node.
GoodNode ==
    NodeInv /\ UndoInv /\ RevInv /\ ValidInv /\ BestInv /\ AtLog /\ UpInv

\* A running step.
LEMMA UpRuns ==
    ASSUME pc' \notin {"unapply", "failed", "crashed", "down", "startup", "init"}, ~thrown'
    PROVE  UpInv'
BY DEF UpInv

\* Its steps meet no exception.
LEMMA UpSteps ==
    ASSUME GoodNode, Next, ~AppendThrows,
           ~(Shutdown \/ Crash \/ Startup \/ StartupGenesis \/ StartupHead \/ StartupChecks),
           ~(ReplayIrreversible \/ ReplayReversible \/ ApplyBlockThrows \/ AppendApplyThrows),
           ~CommitMarkValid
    PROVE  UpInv'
<1>1. pc # "unapply" /\ ~thrown /\ UpInv
  BY DEF GoodNode, UpInv
<1>2. CASE \E b \in Block : RejectBlock(b)
  BY <1>1, <1>2 DEF RejectBlock, vars, ctlVars, callVars, fdbVars, UpInv, Stored, LogHead
<1>3. CASE \/ \E b \in Block : PushBlock(b)
           \/ \E b \in Produced : CommitBlock(b)
           \/ StartBlock \/ AbortBlock \/ StartupBestBranch
  BY <1>1, <1>3, UpRuns DEF PushBlock, CommitBlock, StartBlock, AbortBlock, StartupBestBranch,
     Continue, callVars
<1>4. CASE Return
  <2>1. pc' \in {"best", "replay", "idle"} /\ ~thrown'
    BY <1>4 DEF Return
  <2> QED
    BY <2>1, UpRuns
<1>5. CASE ~Return /\ (MaybeSwitchForks \/ PopBlock \/ ApplyBlock \/ LogIrreversible
                       \/ AppendBlock \/ AdvanceToLogHead \/ CommitPush)
  <2>1. pc' \in {"pop", "apply", "log", "append", "advance", "push"} /\ thrown' = thrown
    BY <1>1, <1>5 DEF MaybeSwitchForks, PopBlock, ApplyBlock, LogIrreversible, AppendBlock,
       AdvanceToLogHead, CommitPush, Logged, LogReturns, Continue, callVars
  <2> QED
    BY <1>1, <2>1, UpRuns
<1>6. CASE ReplayEnds
  <2>1. pc' \in {"best", "idle"} /\ thrown' = thrown
    BY <1>6 DEF ReplayEnds, StartupEnds
  <2> QED
    BY <1>1, <2>1, UpRuns
<1>7. ~(UnapplyBlock \/ ReversalOfEmptyBranch \/ ReapplyBlock)
  BY <1>1 DEF UnapplyBlock, ReversalOfEmptyBranch, ReapplyBlock
<1> QED
  BY <1>2, <1>3, <1>4, <1>5, <1>6, <1>7 DEF Next, Step

\* The steps that may throw.
LEMMA UpNoThrow ==
    ASSUME NoneInvalid, GoodNode
    PROVE  /\ ~ApplyBlockThrows /\ ~AppendApplyThrows
           /\ CommitMarkValid => UpInv'
           /\ ReplayIrreversible => UpInv'
           /\ ReplayReversible => UpInv'
<1>1. /\ NodeInv /\ UndoInv /\ RevInv /\ BestInv /\ AtLog /\ ~thrown
      /\ rate \in Rate /\ first \subseteq Block
  BY DEF GoodNode, UpInv, NodeInv, BaseInv, StateTypes, CallTypes
<1>2. \A b \in Block : rate \in Reproducible[b]
  BY <1>1, Zenon DEF NoneInvalid
<1>3. ~ApplyBlockThrows
  <2> SUFFICES ASSUME ApplyBlockThrows
               PROVE  FALSE
    OBVIOUS
  <2>1. PICK b \in NextOn(first, chead) : ~CanApply(b) /\ pc = "apply"
    BY DEF ApplyBlockThrows
  <2>2. Serving /\ caller # "commit" /\ b \in Block /\ Prev[b] = chead
    BY <1>1, <2>1 DEF Serving, UndoInv, CommitInv, NextOn
  <2> QED
    BY <1>1, <1>2, <2>1, <2>2, StateApplies
<1>4. ~AppendApplyThrows
  <2> SUFFICES ASSUME AppendApplyThrows
               PROVE  FALSE
    OBVIOUS
  <2>1. PICK b \in NextOn(first, LogHead) : ~CanApply(b) /\ pc = "append" /\ mode = "irreversible"
    BY DEF AppendApplyThrows
  <2>2. Serving /\ caller # "commit" /\ b \in Block /\ Prev[b] = chead
    BY <1>1, <2>1 DEF Serving, NodeInv, ControlInv, ModeInv, NextOn, AtLog
  <2> QED
    BY <1>1, <1>2, <2>1, <2>2, StateApplies
<1>5. ASSUME CommitMarkValid
      PROVE  UpInv'
  <2>1. PICK b \in made : head' = b
    BY <1>1, <1>5, CommitIsBest
  <2>2. made = {b} /\ pc = "mark"
    BY <1>1, <1>5, <2>1 DEF CommitMarkValid, RevInv, RevControl
  <2>3. pc' = "log" /\ thrown' = thrown
    BY <1>5, <2>1, <2>2 DEF CommitMarkValid, Continue, callVars
  <2> QED
    BY <1>1, <2>3, UpRuns
<1>6. ASSUME ReplayIrreversible
      PROVE  UpInv'
  <2>1. pc' \in {"replaylog", "replay"} /\ thrown' = thrown
    BY <1>2, <1>6 DEF ReplayIrreversible, Continue, callVars
  <2> QED
    BY <1>1, <2>1, UpRuns
<1>7. ASSUME ReplayReversible
      PROVE  UpInv'
  <2>1. PICK b \in Block :
           /\ b \in rev /\ BlockNum[b] = BlockNum[chead] + 1 /\ pc = "replay"
           /\ Prev[b] = chead /\ (b \in index \/ Known(chead)) =>
                pc' = "apply" /\ thrown' = thrown
    BY <1>7 DEF ReplayReversible
  <2>2. Serving /\ caller = "replay" /\ mode # "irreversible"
    BY <1>1, <2>1 DEF Serving, NodeInv, ControlInv, CallInv, ModeInv
  <2>3. PICK t \in Block : chead \in Ancestors[t] /\ rev = AboveOf(t, LogHead)
    BY <1>1, <2>2 DEF RevInv, RevReplay
  <2>4. b \in Ancestors[t] /\ b # Genesis
    <3>1. b \in Ancestors[t] /\ BlockNum[b] > BlockNum[LogHead] /\ LogHead \in Block
      BY <1>1, <2>1, <2>2, <2>3, OnLog DEF AboveOf
    <3>2. Genesis \in Block /\ BlockNum[Genesis] \in Nat /\ BlockNum[LogHead] \in Nat
          /\ BlockNum[LogHead] >= BlockNum[Genesis]
      BY <1>1, <3>1, LogHeadNum, BlockAssumption, BlockNumAssumption DEF NodeInv, BaseInv
    <3> QED
      BY <3>1, <3>2
  <2>5. Prev[b] \in Ancestors[t] /\ BlockNum[b] = BlockNum[Prev[b]] + 1 /\ Prev[b] \in Block
    BY <2>4, AncestorsClosed, BlockNumAssumption, PrevAssumption
  <2>6. BlockNum[Prev[b]] = BlockNum[chead]
    <3>1. BlockNum[chead] \in Nat /\ BlockNum[Prev[b]] \in Nat
      BY <1>1, <2>2, <2>5, RunFacts, BlockNumAssumption
    <3> QED
      BY <2>1, <2>5, <3>1
  <2>7. Prev[b] = chead
    BY <2>3, <2>5, <2>6, SameNumber
  <2>8. Known(chead)
    BY <1>1, <2>2, RunFacts DEF Known
  <2> QED
    BY <1>1, <2>1, <2>7, <2>8, UpRuns
<1> QED
  BY <1>3, <1>4, <1>5, <1>6, <1>7

\* A node is stopped at the fork database's head, whose branch is stored.
LEMMA UpStops ==
    ASSUME GoodNode, Shutdown
    PROVE  chead = head /\ UpInv'
<1>1. /\ NodeInv /\ RevInv /\ BestInv /\ AtLog /\ ~thrown
      /\ pc = "idle" /\ Serving /\ caller = "none"
      /\ pc' = "down" /\ ~thrown' /\ UNCHANGED <<rev, blog>>
  BY DEF GoodNode, UpInv, Shutdown, Serving, NodeInv, ControlInv, CallInv
<1>2. LogHead = root /\ root \in Block /\ chead \in Block /\ root \in Ancestors[chead]
  BY <1>1, RunFacts DEF ServingInv, LogPosition
<1>3. saved' = {Contents} /\ Stored' = Stored
  BY <1>1 DEF Shutdown, Close, Stored, LogHead
<1>4. CASE mode = "irreversible"
  <2>1. chead = LogHead /\ chead = head
    BY <1>1, <1>4, RunFacts DEF AtLog, ServingInv, HeadPosition
  <2> QED
    BY <1>1, <1>2, <1>3, <2>1 DEF UpInv, Contents
<1>5. CASE mode # "irreversible"
  <2>1. chead = head
    BY <1>1, <1>5, BestRuns DEF BestAtRest
  <2>2. rev = AboveOf(chead, LogHead)
    BY <1>1, <1>5 DEF RevInv, RevServing
  <2>3. ASSUME head # root
        PROVE  head \in Stored
    <3>1. BlockNum[root] < BlockNum[chead] /\ BlockNum[root] \in Nat /\ BlockNum[chead] \in Nat
      BY <1>2, <2>1, <2>3, AncestorNum, BlockNumAssumption
    <3> QED
      BY <1>2, <2>1, <2>2, <3>1, AncestorsSelf DEF Stored, AboveOf
  <2> QED
    BY <1>1, <1>3, <2>1, <2>3 DEF UpInv, Contents
<1> QED
  BY <1>4, <1>5

\* Stopping, and starting up to init().
LEMMA UpRestarts ==
    ASSUME ~MayReplay, GoodNode, Crash \/ Startup \/ StartupGenesis \/ StartupHead
    PROVE  UpInv'
<1>1. CASE Crash
  <2>1. pc' = "down" /\ pc # "down" /\ ~thrown'
    BY <1>1 DEF Crash
  <2>2. saved' = {}
    BY <1>1, <2>1 DEF Crash, Reset, GoodNode, NodeInv, BaseInv, StageInv
  <2> QED
    BY <2>1, <2>2 DEF UpInv
<1>2. CASE Startup
  <2>1. pc = "down" /\ pc' = "startup" /\ UNCHANGED <<rev, blog, thrown>> /\ Open
    BY <1>2 DEF Startup
  <2>2. PICK f \in saved : root' = f.root /\ head' = f.head
    BY <2>1 DEF Open
  <2>3. Stored' = Stored
    BY <2>1 DEF Stored, LogHead
  <2> QED
    BY <2>1, <2>2, <2>3 DEF GoodNode, UpInv
<1>3. CASE StartupGenesis
  BY <1>3 DEF StartupGenesis, GoodNode, UpInv
<1>4. CASE StartupHead
  <2>1. pc = "startup" /\ pc' = "init" /\ UNCHANGED <<rev, blog, caller, thrown>>
    BY <1>4 DEF StartupHead, Continue, callVars
  <2>2. Stored' = Stored
    BY <2>1 DEF Stored, LogHead
  <2>3. head' = root' \/ UNCHANGED <<root, head>>
    BY <1>4 DEF StartupHead, RollbackHeadToRoot, fdbVars
  <2> QED
    BY <2>1, <2>2, <2>3 DEF GoodNode, UpInv
<1> QED
  BY <1>1, <1>2, <1>3, <1>4

\* init()'s checks pass: the stored blocks begin right after the log and end with
\* the head, on which the best branch is.
LEMMA ChecksPass ==
    ASSUME GoodNode, pc = "init"
    PROVE  Revision >= BlockNum[chead] /\ ReversibleBlocksMatch
<1>1. /\ NodeInv /\ UndoInv /\ RevInv /\ BestInv /\ UpInv
      /\ FdbInv /\ FdbFinite /\ StateTypes /\ LogInv /\ IsOpen /\ chead = head
      /\ caller \in {"startup", "replay"} /\ (caller = "replay" => Empty)
      /\ caller = "startup" => root = LogHead
  BY DEF GoodNode, NodeInv, BaseInv, StageInv, PositionInv, StoppedInv, IsOpen
<1>2. /\ base \in Block /\ undo \in Seq(Block) /\ Stacked(base, undo) /\ Len(undo) \in Nat
      /\ BlockNum[base] \in Nat /\ chead \in {base, StateBlock}
  BY <1>1, BlockNumAssumption, LenProperties DEF StateTypes, UndoInv, StopState
<1>3. Revision >= BlockNum[chead]
  <2>1. Top(base, undo) = StateBlock
    BY DEF StateBlock, Top
  <2>2. BlockNum[Top(base, undo)] = BlockNum[base] + Len(undo)
    BY <1>2, StackNum
  <2> QED
    BY <1>2, <2>1, <2>2 DEF Revision
<1>4. /\ LastStoredNum \in Nat /\ BlockNum[LogHead] <= LastStoredNum
      /\ \A r \in KeptReversible : BlockNum[r] <= LastStoredNum
      /\ LogHead \in Block /\ BlockNum[LogHead] \in Nat /\ BlockNum[LogHead] >= BlockNum[Genesis]
  BY <1>1, LastStoredFacts, LogHeadNum
<1>5. ASSUME mode # "irreversible"
      PROVE  ReversibleBlocksMatch
  <2>1. KeptReversible = Stored
    BY <1>5 DEF KeptReversible, Stored
  <2>2. PICK t \in Block : StopBranch(t)
    BY <1>1 DEF RevInv, RevStopped
  <2>3. /\ LogHead \in Ancestors[t] /\ Stored = AboveOf(t, LogHead)
        /\ Stored # {} /\ caller = "startup" => head = t
    BY <1>5, <2>2 DEF StopBranch
  <2>4. Stored # {} => \E r \in KeptReversible : BlockNum[r] = BlockNum[LogHead] + 1
    <3> SUFFICES ASSUME Stored # {}, \A r \in Stored : BlockNum[r] # BlockNum[LogHead] + 1
                 PROVE  FALSE
      BY <2>1
    <3>1. t = LogHead
      BY <1>4, <2>3, AboveEnds, AncestorsSelf
    <3> QED
      BY <2>3, <3>1, <1>4, AboveNothing, AncestorsSelf
  <2>5. PICK p : p = PendingHead
    OBVIOUS
  <2>6. p \in Block /\ (p = head \/ (p \in index /\ FirstPreferred(p, head)))
    BY <1>1, <2>5, PendingHeadFacts
  <2>7. CASE caller = "replay"
    <3>1. p = Genesis /\ chead = Genesis
      BY <1>1, <2>6, <2>7 DEF Empty
    <3>2. PICK g, l, n : g = BlockNum[p] /\ l = LastStoredNum /\ n = Min({g, l})
      OBVIOUS
    <3>3. g \in Int /\ l \in Int /\ g <= BlockNum[LogHead] /\ BlockNum[chead] <= LastStoredNum
      BY <1>4, <3>1, <3>2, BlockNumAssumption, BlockAssumption
    <3>4. n \in Int /\ n <= g
      BY <3>2, <3>3, MinOfTwo
    <3>5. ~(n > BlockNum[LogHead])
      BY <1>4, <3>3, <3>4
    <3>6. n = Min({BlockNum[PendingHead], LastStoredNum})
      BY <2>5, <3>2
    <3> QED
      BY <2>1, <2>4, <3>3, <3>5, <3>6 DEF ReversibleBlocksMatch
  <2>8. CASE caller = "startup" /\ Stored = {}
    <3>1. head = root
      BY <1>1, <2>8 DEF UpInv
    <3> QED
      BY <1>1, <1>4, <2>1, <2>8, <3>1 DEF ReversibleBlocksMatch
  <2>9. CASE caller = "startup" /\ Stored # {}
    <3>1. head = t /\ t # root
      BY <1>1, <1>4, <2>3, <2>9, AboveNothing, AncestorsSelf
    <3>2. p = head
      BY <1>1, <2>6, <2>9, <3>1 DEF BestInv, BestStopped, IsBest
    <3>3. BlockNum[LogHead] < BlockNum[t] /\ BlockNum[t] \in Nat
      BY <1>1, <2>3, <2>9, <3>1, AncestorNum, BlockNumAssumption
    <3>4. t \in KeptReversible /\ t \in Ancestors[t]
      BY <2>1, <2>3, <3>3, AncestorsSelf DEF AboveOf
    <3>5. LastStoredNum = BlockNum[t]
      <4>1. ~(LastStoredNum > BlockNum[chead])
        BY <1>1, <1>5, <2>9, StoredAtHead
      <4> QED
        BY <1>1, <1>4, <3>1, <3>3, <3>4, <4>1
    <3>6. Min({BlockNum[p], LastStoredNum}) = BlockNum[t]
      <4>1. PICK n \in Int : n = BlockNum[t]
        BY <3>3
      <4>2. Min({n, n}) \in {n, n}
        BY MinOfTwo
      <4> QED
        BY <3>1, <3>2, <3>5, <4>1, <4>2
    <3> QED
      BY <1>1, <1>4, <2>1, <2>4, <2>5, <2>9, <3>1, <3>2, <3>3, <3>4, <3>5, <3>6
         DEF ReversibleBlocksMatch
  <2> QED
    BY <1>1, <2>7, <2>8, <2>9
<1> QED
  BY <1>3, <1>5 DEF ReversibleBlocksMatch

\* UpInv is inductive, given the other invariants.
LEMMA UpNext ==
    ASSUME ~MayReplay, NoneInvalid, GoodNode, [Next]_vars, [~AppendThrows]_vars
    PROVE  UpInv'
<1>1. CASE UNCHANGED vars
  BY <1>1 DEF vars, ctlVars, callVars, fdbVars, GoodNode, UpInv, Stored, LogHead
<1>2. ASSUME Next, ~AppendThrows
      PROVE  UpInv'
  <2>1. CASE StartupChecks
    <3>1. pc = "init" /\ ReplayOrEnd
      BY <2>1, ChecksPass DEF StartupChecks
    <3>2. pc' \in {"best", "idle", "replaylog", "replay"} /\ thrown' = thrown
      BY <3>1 DEF ReplayOrEnd, StartupEnds
    <3> QED
      BY <3>2, UpRuns DEF GoodNode, UpInv
  <2> QED
    BY <1>2, <2>1, UpSteps, UpNoThrow, UpStops, UpRestarts
<1> QED
  BY <1>1, <1>2

\* A node of which every block can be executed comes up again after every stop,
\* crash and change of mode: no assert of init() fires, and no switch, replay or
\* append meets an exception.
THEOREM NodeStartupSucceeds ==
    ASSUME ~MayReplay, NoneInvalid
    PROVE  Spec /\ AppendsSucceed => []StartupSucceeds
<1>1. RatesDoNotMatter
  <2> SUFFICES ASSUME NEW b \in Block
               PROVE  Reproducible[b] = Rate
    BY Zenon DEF RatesDoNotMatter
  <2>1. Reproducible[b] \subseteq Rate
    BY RateAssumption
  <2>2. Rate \subseteq Reproducible[b]
    BY DEF NoneInvalid
  <2> QED
    BY <2>1, <2>2
<1>2. Init => GoodNode
  <2>1. Init => ValidInv /\ BestInv
    BY DEF Init, FdbInit, ValidInv, BestInv, BestServing, BestStopped, BestAtRest, BestInSwitch,
       BestInCall, BestInReplay, IsBest
  <2>2. Init => AtLog
    BY LastOfAppend DEF Init, AtLog, LogHead, SeqExt!Last
  <2>3. Init => UpInv
    BY DEF Init, UpInv
  <2> QED
    BY <2>1, <2>2, <2>3, NodeInit, UndoInit, RevInit DEF GoodNode
<1>3. ASSUME GoodNode, [Next]_vars, [~AppendThrows]_vars
      PROVE  GoodNode'
  <2>1. NodeInv /\ UndoInv /\ RevInv /\ ValidInv /\ BestInv /\ AtLog /\ UpInv
    BY <1>3 DEF GoodNode
  <2>2. [CommitMarkValid => head' \in made]_vars /\ [Shutdown => chead = head]_vars
    BY <1>3, <2>1, CommitIsBest, UpStops
  <2>3. [UndoStep]_vars
    BY <1>3, <2>2 DEF UndoStep
  <2>4. NodeInv'
    BY <1>3, <2>1, NodeNext
  <2>5. UndoInv'
    BY <1>3, <2>1, <2>3, UndoNext
  <2>6. RevInv'
    BY <1>3, <2>1, <2>2, RevNext
  <2>7. ValidInv'
    BY <1>3, <2>1, ValidNext
  <2>8. BestInv'
    BY <1>1, <1>3, <2>1, <2>2, BestNext
  <2>9. AtLog'
    BY <1>3, <2>1, <2>4, AtLogNext
  <2>10. UpInv'
    BY <1>3, UpNext
  <2> QED
    BY <2>4, <2>5, <2>6, <2>7, <2>8, <2>9, <2>10 DEF GoodNode
<1>4. GoodNode /\ [Next]_vars /\ [~AppendThrows]_vars => GoodNode'
  BY <1>3
<1>5. GoodNode => StartupSucceeds
  BY DEF GoodNode, UpInv, StartupSucceeds
<1> QED
  BY <1>2, <1>4, <1>5, PTL DEF Spec, AppendsSucceed
=============================================================================
