----------------------- MODULE ProtocolFeaturesProofs -----------------------
(***************************************************************************)
(* Proofs about ProtocolFeatures, for every set of features, whatever they *)
(* require, and every length of the branch.                                *)
(***************************************************************************)
EXTENDS ProtocolFeatures, NaturalSets, SequenceTheorems, TLAPS

-----------------------------------------------------------------------------
(* The inductive invariant. *)

\* A branch c is a sequence of blocks.
IsBranch(c) == (\E S : c \in Seq(S)) /\ Len(c) >= 1

\* The header state and the chain state of the n-th block agree, and nothing is
\* activated after it.
BlockAgrees(c, n) ==
    /\ c[n].activated \in [Feature -> 0..n]
    /\ \A f \in Feature : f \in c[n].header <=> c[n].activated[f] # 0

\* The n-th block, and what popping it gives.
BlockExtends(c, n) ==
    /\ c[n - 1].activated = PoppedBlocksTo(c[n].activated, n - 1)
    /\ \A f \in Feature :
         /\ f \in SeqExt!ToSet(c[n - 1].preactivated) => c[n].activated[f] = n
         /\ f \in NeedsPreactivation /\ c[n].activated[f] = n =>
              f \in SeqExt!ToSet(c[n - 1].preactivated)

BranchInv(c) ==
    /\ IsBranch(c)
    /\ \A n \in 1..Len(c) : BlockAgrees(c, n)
    /\ \A n \in 2..Len(c) : BlockExtends(c, n)

\* The fields of a building block.
IsBuilding(p) ==
    p = [kind |-> p.kind, new |-> p.new,
         activated |-> p.activated, preactivated |-> p.preactivated]

\* The building block p is what its commit needs.
BuildingInv(p) ==
    /\ p.activated \in [Feature -> 0..(HeadNum + 1)]
    /\ HeadBlock.activated = PoppedBlocksTo(p.activated, HeadNum)
    /\ \A f \in Feature :
         /\ p.activated[f] # 0 <=> f \in HeadBlock.header \/ f \in SeqExt!ToSet(p.new)
         /\ f \in SeqExt!ToSet(HeadBlock.preactivated) => p.activated[f] = HeadNum + 1
         /\ f \in NeedsPreactivation /\ p.activated[f] = HeadNum + 1 =>
              f \in SeqExt!ToSet(HeadBlock.preactivated)

FeatureInv ==
    /\ BranchInv(chain)
    /\ pending = {} => cache = HeadBlock.activated
    /\ \A p \in pending : IsBuilding(p) /\ cache = p.activated /\ BuildingInv(p)

-----------------------------------------------------------------------------
(* Facts about the operators. *)

\* The length of a branch is a natural number.
LEMMA BranchLen ==
    ASSUME NEW c, IsBranch(c)
    PROVE  Len(c) \in Nat \ {0}
BY DEF IsBranch

\* A branch with one more block.
LEMMA BranchAppend ==
    ASSUME NEW c, IsBranch(c), NEW b
    PROVE  /\ IsBranch(Append(c, b))
           /\ Len(Append(c, b)) = Len(c) + 1
           /\ Append(c, b)[Len(c) + 1] = b
           /\ \A n \in 1..Len(c) : Append(c, b)[n] = c[n]
<1>1. PICK S : c \in Seq(S)
  BY DEF IsBranch
<1>2. c \in Seq(S \cup {b}) /\ b \in S \cup {b}
  BY <1>1
<1>3. Append(c, b) \in Seq(S \cup {b})
  BY <1>2
<1> QED
  BY <1>2, <1>3 DEF IsBranch

\* A branch without its last block.
LEMMA BranchFront ==
    ASSUME NEW c, IsBranch(c), Len(c) > 1
    PROVE  /\ IsBranch(SubSeq(c, 1, Len(c) - 1))
           /\ Len(SubSeq(c, 1, Len(c) - 1)) = Len(c) - 1
           /\ \A n \in 1..(Len(c) - 1) : SubSeq(c, 1, Len(c) - 1)[n] = c[n]
<1>1. PICK S : c \in Seq(S)
  BY DEF IsBranch
<1>2. Len(c) - 1 \in Nat /\ \A i \in 1..(Len(c) - 1) : c[i] \in S
  BY <1>1
<1>3. /\ SubSeq(c, 1, Len(c) - 1) \in Seq(S)
      /\ Len(SubSeq(c, 1, Len(c) - 1)) = Len(c) - 1
      /\ \A n \in 1..(Len(c) - 1) : SubSeq(c, 1, Len(c) - 1)[n] = c[n]
  <2> DEFINE m == Len(c) - 1
  <2>1. m \in Int /\ 1 \in Int /\ 1 <= m /\ \A i \in 1..m : c[i] \in S
    BY <1>2
  <2>2. /\ SubSeq(c, 1, m) \in Seq(S)
        /\ Len(SubSeq(c, 1, m)) = m - 1 + 1
        /\ \A i \in 1..(m - 1 + 1) : SubSeq(c, 1, m)[i] = c[1 + i - 1]
    <3> HIDE DEF m
    <3> QED BY <2>1, SubSeqProperties
  <2>3. m - 1 + 1 = m /\ \A i \in 1..m : 1 + i - 1 = i
    BY <2>1
  <2> QED
    <3> HIDE DEF m
    <3>1. /\ SubSeq(c, 1, m) \in Seq(S)
          /\ Len(SubSeq(c, 1, m)) = m
          /\ \A i \in 1..m : SubSeq(c, 1, m)[i] = c[i]
      BY <2>2, <2>3
    <3> QED BY <3>1 DEF m
<1>4. Len(c) - 1 >= 1
  BY <1>2
<1>5. IsBranch(SubSeq(c, 1, Len(c) - 1))
  <2> DEFINE d == SubSeq(c, 1, Len(c) - 1)
  <2>1. d \in Seq(S) /\ Len(d) >= 1
    BY <1>3, <1>4
  <2> HIDE DEF d
  <2> QED BY <2>1 DEF IsBranch
<1> QED
  BY <1>3, <1>5

\* The manager's activations in a new block are taken back by popping it.
LEMMA PopUndoesActivation ==
    ASSUME NEW n \in Nat, NEW a \in [Feature -> 0..n], NEW S,
           \A f \in S : a[f] = 0
    PROVE  /\ PoppedBlocksTo(Activated(a, S, n + 1), n) = a
           /\ Activated(a, S, n + 1) \in [Feature -> 0..(n + 1)]
BY DEF PoppedBlocksTo, Activated

\* What the invariant says of the head.
LEMMA HeadFacts ==
    ASSUME FeatureInv
    PROVE  /\ HeadNum \in Nat \ {0}
           /\ HeadBlock.activated \in [Feature -> 0..HeadNum]
           /\ \A f \in Feature : f \in HeadBlock.header <=> HeadBlock.activated[f] # 0
<1>1. IsBranch(chain) /\ \A n \in 1..Len(chain) : BlockAgrees(chain, n)
  BY DEF FeatureInv, BranchInv
<1>2. Len(chain) \in Nat \ {0}
  BY <1>1, BranchLen
<1>3. BlockAgrees(chain, Len(chain))
  BY <1>1, <1>2
<1> QED
  BY <1>2, <1>3 DEF HeadNum, HeadBlock, BlockAgrees

\* Aborting the building block gives the manager back what the head says.
LEMMA AbortGivesHead ==
    ASSUME FeatureInv
    PROVE  AbortedCache = HeadBlock.activated
<1>1. CASE pending = {}
  BY <1>1 DEF FeatureInv, AbortedCache
<1>2. CASE pending # {}
  <2>1. PICK p \in pending : cache = p.activated /\ BuildingInv(p)
    BY <1>2 DEF FeatureInv
  <2> QED
    BY <1>2, <2>1 DEF BuildingInv, AbortedCache
<1> QED
  BY <1>1, <1>2

-----------------------------------------------------------------------------
(* Each action preserves the invariant. *)

\* Nothing is active in the first block.
LEMMA InitFeatures == Init => FeatureInv
<1> SUFFICES ASSUME Init
             PROVE  FeatureInv
  OBVIOUS
<1> DEFINE b == [header |-> {}, activated |-> NoneActive, preactivated |-> <<>>]
<1>1. chain = <<b>> /\ cache = NoneActive /\ pending = {}
  BY DEF Init
<1>2. chain \in Seq({b}) /\ Len(chain) = 1 /\ chain[1] = b
  BY <1>1
<1>3. IsBranch(chain)
  BY <1>2 DEF IsBranch
<1>4. BlockAgrees(chain, 1)
  BY <1>2 DEF BlockAgrees, NoneActive
<1>5. BranchInv(chain)
  BY <1>2, <1>3, <1>4 DEF BranchInv
<1>6. cache = HeadBlock.activated
  BY <1>1, <1>2 DEF HeadBlock, HeadNum
<1> QED
  BY <1>1, <1>5, <1>6 DEF FeatureInv

\* A step that leaves the branch alone and ends the building block.
LEMMA NoPending ==
    ASSUME FeatureInv, chain' = chain, pending' = {},
           cache' = HeadBlock.activated
    PROVE  FeatureInv'
BY DEF FeatureInv, BranchInv, IsBranch, BlockAgrees, BlockExtends, HeadBlock, HeadNum

\* A step that changes no feature of the building block.
LEMMA SameActivations ==
    ASSUME FeatureInv, chain' = chain, cache' = cache,
           \A q \in pending' :
             /\ IsBuilding(q)
             /\ \E p \in pending : q.activated = p.activated /\ q.new = p.new,
           pending' = {} => pending = {}
    PROVE  FeatureInv'
<1>1. BranchInv(chain)'
  BY DEF FeatureInv, BranchInv, IsBranch, BlockAgrees, BlockExtends
<1>2. HeadNum' = HeadNum /\ HeadBlock' = HeadBlock
  BY DEF HeadNum, HeadBlock
<1>3. ASSUME NEW q \in pending'
      PROVE  IsBuilding(q)' /\ (cache = q.activated)' /\ BuildingInv(q)'
  <2>1. PICK p \in pending : q.activated = p.activated /\ q.new = p.new
    BY <1>3
  <2>2. cache = p.activated /\ BuildingInv(p)
    BY <2>1 DEF FeatureInv
  <2> QED
    BY <1>2, <1>3, <2>1, <2>2 DEF BuildingInv, IsBuilding
<1> QED
  BY <1>1, <1>2, <1>3 DEF FeatureInv

\* start_block, whether it succeeds or throws on the way.
LEMMA BlockStartedInv ==
    ASSUME FeatureInv, chain' = chain,
           NEW kind, NEW new, BlockStarted(kind, new)
    PROVE  FeatureInv'
<1> DEFINE pre == HeadBlock.preactivated
           num == HeadNum + 1
           a == HeadBlock.activated
           new_set == SeqExt!ToSet(new)
           done == ActivatedBeforeThrow(a, pre, new)
<1>1. HeadNum \in Nat \ {0} /\ a \in [Feature -> 0..HeadNum] /\ AbortedCache = a
  BY HeadFacts, AbortGivesHead
<1>2. HeadNum' = HeadNum /\ HeadBlock' = HeadBlock
  BY DEF HeadNum, HeadBlock
<1>3. CASE (\A i \in DOMAIN new : MayActivate(a, pre, new, i)) /\ HandledAll(pre, new)
  <2> DEFINE act == Activated(a, new_set, num)
             p == [kind |-> kind, new |-> new, activated |-> act,
                   preactivated |-> IF new = <<>> THEN pre ELSE <<>>]
  <2>1. cache' = act /\ pending' = {p}
    BY <1>1, <1>3 DEF BlockStarted
  <2>2. \A f \in new_set : a[f] = 0
    BY <1>1, <1>3 DEF MayActivate, SeqExt!ToSet
  <2>3. PoppedBlocksTo(act, HeadNum) = a /\ act \in [Feature -> 0..num]
    BY <1>1, <2>2, PopUndoesActivation
  <2>4. \A f \in Feature : act[f] = IF f \in new_set THEN num ELSE a[f]
    BY DEF Activated
  <2>5. \A f \in Feature : f \in SeqExt!ToSet(pre) => f \in new_set
    BY <1>3 DEF HandledAll
  <2>6. \A f \in new_set : f \in NeedsPreactivation => f \in SeqExt!ToSet(pre)
    BY <1>3 DEF MayActivate, SeqExt!ToSet
  <2>7. p.activated = act /\ p.new = new
    OBVIOUS
  <2>8. BuildingInv(p)
    <3>1. \A f \in Feature :
            /\ act[f] # 0 <=> f \in HeadBlock.header \/ f \in new_set
            /\ f \in SeqExt!ToSet(pre) => act[f] = num
            /\ f \in NeedsPreactivation /\ act[f] = num => f \in SeqExt!ToSet(pre)
      <4> TAKE f \in Feature
      <4>1. f \in HeadBlock.header <=> a[f] # 0
        BY HeadFacts
      <4>2. a[f] # num /\ num # 0
        BY <1>1
      <4> HIDE DEF a, act, new_set, pre, num
      <4> QED
        BY <2>4, <2>5, <2>6, <4>1, <4>2
    <3> HIDE DEF p, act
    <3> QED
      BY <2>3, <2>7, <3>1 DEF BuildingInv
  <2>9. ASSUME NEW q \in pending'
        PROVE  IsBuilding(q)' /\ (cache = q.activated)' /\ BuildingInv(q)'
    <3>1. IsBuilding(p)
      BY DEF IsBuilding
    <3>2. IsBuilding(q) /\ cache' = q.activated /\ BuildingInv(q)
      BY <2>1, <2>7, <2>8, <3>1
    <3> QED
      BY <1>2, <3>2 DEF BuildingInv, IsBuilding
  <2>10. pending' # {}
    BY <2>1
  <2> QED
    BY <2>9, <2>10 DEF FeatureInv, BranchInv, IsBranch, BlockAgrees, BlockExtends
<1>4. CASE ~((\A i \in DOMAIN new : MayActivate(a, pre, new, i)) /\ HandledAll(pre, new))
  <2>1. cache' = PoppedBlocksTo(Activated(a, done, num), HeadNum) /\ pending' = {}
    BY <1>1, <1>4 DEF BlockStarted
  <2>2. \A f \in done : a[f] = 0
    BY <1>1 DEF ActivatedBeforeThrow, MayActivate
  <2>3. cache' = a
    BY <1>1, <2>1, <2>2, PopUndoesActivation
  <2> QED
    BY <2>1, <2>3, NoPending
<1> QED
  BY <1>3, <1>4

\* The producer plugin starts a block.
LEMMA StartBlockInv ==
    ASSUME FeatureInv, NEW kind, StartBlock(kind)
    PROVE  FeatureInv'
<1>1. chain' = chain
  BY DEF StartBlock
<1>2. \/ cache' = AbortedCache /\ pending' = {}
      \/ \E new : BlockStarted(kind, new)
  BY DEF StartBlock
<1>3. CASE cache' = AbortedCache /\ pending' = {}
  BY <1>1, <1>3, AbortGivesHead, NoPending
<1>4. CASE \E new : BlockStarted(kind, new)
  BY <1>1, <1>4, BlockStartedInv
<1> QED
  BY <1>2, <1>3, <1>4

\* The building block becomes the head.
LEMMA CommittedInv ==
    ASSUME FeatureInv, NEW p \in pending, Committed(p)
    PROVE  FeatureInv'
<1> DEFINE b == [header       |-> HeadBlock.header \cup SeqExt!ToSet(p.new),
                 activated    |-> p.activated,
                 preactivated |-> p.preactivated]
           num == HeadNum + 1
<1>1. chain' = Append(chain, b) /\ pending' = {} /\ cache' = cache
  BY DEF Committed
<1>2. cache = p.activated /\ BuildingInv(p)
  BY DEF FeatureInv
<1>3. HeadNum \in Nat \ {0} /\ HeadNum = Len(chain) /\ IsBranch(chain)
  BY HeadFacts DEF HeadNum, FeatureInv, BranchInv
<1>4. /\ IsBranch(chain') /\ Len(chain') = num /\ chain'[num] = b
      /\ \A n \in 1..HeadNum : chain'[n] = chain[n]
  BY <1>1, <1>3, BranchAppend
<1>5. b.activated = p.activated /\ b.header = HeadBlock.header \cup SeqExt!ToSet(p.new)
  OBVIOUS
<1>6. BlockAgrees(chain', num)
  BY <1>2, <1>4, <1>5 DEF BlockAgrees, BuildingInv
<1>7. BlockExtends(chain', num)
  <2>1. chain'[num - 1] = HeadBlock /\ num - 1 = HeadNum
    BY <1>3, <1>4 DEF HeadBlock
  <2>2. chain'[num].activated = p.activated
    BY <1>4, <1>5
  <2> QED
    BY <1>2, <2>1, <2>2 DEF BlockExtends, BuildingInv
<1>8. \A n \in 1..HeadNum : BlockAgrees(chain', n)
  BY <1>3, <1>4 DEF FeatureInv, BranchInv, BlockAgrees
<1>9. ASSUME NEW n \in 2..HeadNum
      PROVE  BlockExtends(chain', n)
  <2>1. BlockExtends(chain, n)
    BY <1>3 DEF FeatureInv, BranchInv
  <2>2. chain'[n] = chain[n] /\ chain'[n - 1] = chain[n - 1]
    BY <1>3, <1>4
  <2> QED
    BY <2>1, <2>2 DEF BlockExtends
<1>10. BranchInv(chain')
  <2>1. \A n \in 1..num : n \in 1..HeadNum \/ n = num
    BY <1>3
  <2>2. \A n \in 2..num : n \in 2..HeadNum \/ n = num
    BY <1>3
  <2> QED
    BY <1>4, <1>6, <1>7, <1>8, <1>9, <2>1, <2>2 DEF BranchInv
<1>11. (cache = HeadBlock.activated)'
  BY <1>1, <1>2, <1>4, <1>5 DEF HeadBlock, HeadNum
<1> QED
  BY <1>1, <1>10, <1>11 DEF FeatureInv

\* The head is popped.
LEMMA PopBlockInv ==
    ASSUME FeatureInv, PopBlock
    PROVE  FeatureInv'
<1>1. /\ pending = {} /\ pending' = {} /\ HeadNum > 1
      /\ chain' = SubSeq(chain, 1, HeadNum - 1)
      /\ cache' = PoppedBlocksTo(cache, HeadNum - 1)
  BY DEF PopBlock
<1>2. HeadNum \in Nat \ {0} /\ HeadNum = Len(chain) /\ IsBranch(chain)
  BY HeadFacts DEF HeadNum, FeatureInv, BranchInv
<1>3. /\ IsBranch(chain') /\ Len(chain') = HeadNum - 1
      /\ \A n \in 1..(HeadNum - 1) : chain'[n] = chain[n]
  BY <1>1, <1>2, BranchFront
<1>4. \A n \in 1..(HeadNum - 1) : BlockAgrees(chain', n)
  BY <1>2, <1>3 DEF FeatureInv, BranchInv, BlockAgrees
<1>5. ASSUME NEW n \in 2..(HeadNum - 1)
      PROVE  BlockExtends(chain', n)
  <2>1. BlockExtends(chain, n)
    BY <1>2 DEF FeatureInv, BranchInv
  <2>2. chain'[n] = chain[n] /\ chain'[n - 1] = chain[n - 1]
    BY <1>2, <1>3
  <2> QED
    BY <2>1, <2>2 DEF BlockExtends
<1>6. BranchInv(chain')
  BY <1>3, <1>4, <1>5 DEF BranchInv
<1>7. cache' = chain[HeadNum - 1].activated
  <2>1. cache = chain[HeadNum].activated
    BY <1>1 DEF FeatureInv, HeadBlock
  <2>2. BlockExtends(chain, HeadNum)
    BY <1>1, <1>2 DEF FeatureInv, BranchInv
  <2> QED
    BY <1>1, <2>1, <2>2 DEF BlockExtends
<1>8. (cache = HeadBlock.activated)'
  <2>1. chain'[HeadNum - 1] = chain[HeadNum - 1] /\ HeadNum' = HeadNum - 1
    BY <1>1, <1>2, <1>3 DEF HeadNum
  <2> QED
    BY <1>7, <2>1 DEF HeadBlock
<1> QED
  BY <1>1, <1>6, <1>8 DEF FeatureInv

\* FeatureInv is inductive.
LEMMA NextFeatures ==
    ASSUME FeatureInv, [Next]_vars
    PROVE  FeatureInv'
<1>1. ASSUME NEW list \in Lists, ScheduleProtocolFeatureActivations(list)
      PROVE  FeatureInv'
  BY <1>1, SameActivations DEF ScheduleProtocolFeatureActivations, FeatureInv
<1>2. ASSUME NEW kind \in {"speculating", "producing"}, StartBlock(kind)
      PROVE  FeatureInv'
  BY <1>2, StartBlockInv
<1>3. ASSUME NEW new \in Lists, ApplyBlock(new)
      PROVE  FeatureInv'
  BY <1>3, BlockStartedInv DEF ApplyBlock
<1>4. ASSUME NEW f \in Feature, PreactivateFeature(f)
      PROVE  FeatureInv'
  <2>1. PICK p \in pending : pending' = {[p EXCEPT !.preactivated = Append(@, f)]}
    BY <1>4 DEF PreactivateFeature
  <2>2. chain' = chain /\ cache' = cache
    BY <1>4 DEF PreactivateFeature
  <2>3. IsBuilding(p)
    BY DEF FeatureInv
  <2>4. \A q \in pending' : IsBuilding(q) /\ q.activated = p.activated /\ q.new = p.new
    BY <2>1, <2>3 DEF IsBuilding
  <2> QED
    BY <2>1, <2>2, <2>4, SameActivations
<1>5. CASE CommitBlock
  BY <1>5, CommittedInv DEF CommitBlock
<1>6. CASE ProduceBlock
  BY <1>6, CommittedInv DEF ProduceBlock
<1>7. CASE ProduceBlockThrows
  BY <1>7, AbortGivesHead, NoPending DEF ProduceBlockThrows
<1>8. CASE AbortBlock
  BY <1>8, AbortGivesHead, NoPending DEF AbortBlock
<1>9. CASE PopBlock
  BY <1>9, PopBlockInv
<1>10. CASE Restart
  BY <1>10, NoPending DEF Restart
<1>11. CASE UNCHANGED vars
  BY <1>11, SameActivations DEF vars, FeatureInv
<1> QED
  BY <1>1, <1>2, <1>3, <1>4, <1>5, <1>6, <1>7, <1>8, <1>9, <1>10, <1>11 DEF Next

\* FeatureInv holds in every reachable state.
LEMMA FeaturesInvariant == Spec => []FeatureInv
<1>1. Init => FeatureInv
  BY InitFeatures
<1>2. FeatureInv /\ [Next]_vars => FeatureInv'
  BY NextFeatures
<1> QED
  BY <1>1, <1>2, PTL DEF Spec

-----------------------------------------------------------------------------
(* The theorems. *)

\* The header states, the chain state and the memory of protocol_feature_manager
\* agree on the active features after every call, although no undo session
\* covers the manager: start_block that throws half way, abort_block, pop_block
\* and a restart leave it as the head says.
THEOREM FeatureViewsAgree == Spec => []ViewsAgree
<1>1. FeatureInv => ViewsAgree
  <2> SUFFICES ASSUME FeatureInv
               PROVE  ViewsAgree
    OBVIOUS
  <2>1. /\ HeadNum \in Nat \ {0}
        /\ HeadBlock.activated \in [Feature -> 0..HeadNum]
        /\ \A f \in Feature : f \in HeadBlock.header <=> HeadBlock.activated[f] # 0
    BY HeadFacts
  <2>2. CASE pending = {}
    <3>1. cache = HeadBlock.activated
      BY <2>2 DEF FeatureInv
    <3>2. ASSUME NEW f \in Feature
          PROVE  /\ IsBuiltinActivated(f) <=> f \in HeadBlock.header
                 /\ f \in Active(HeadBlock.activated) <=> f \in HeadBlock.header
                 /\ IsProtocolFeatureActivated(f) <=> f \in HeadBlock.header
      BY <2>1, <2>2, <3>1 DEF IsBuiltinActivated, Active, IsProtocolFeatureActivated
    <3> QED
      BY <2>2, <3>2 DEF ViewsAgree
  <2>3. CASE pending # {}
    <3>1. ASSUME NEW f \in Feature, NEW p \in pending
          PROVE  /\ cache[f] \in 0..(HeadNum + 1)
                 /\ f \in Active(p.activated) <=> cache[f] # 0
                 /\ cache[f] # 0 <=> f \in HeadBlock.header \/ f \in SeqExt!ToSet(p.new)
      BY DEF FeatureInv, BuildingInv, Active
    <3>2. ASSUME NEW f \in Feature
          PROVE  /\ IsBuiltinActivated(f) <=> cache[f] # 0
                 /\ IsProtocolFeatureActivated(f) <=> cache[f] # 0
      <4>1. IsBuiltinActivated(f) <=> cache[f] # 0
        BY <2>1, <2>3, <3>1 DEF IsBuiltinActivated
      <4>2. IsProtocolFeatureActivated(f) <=> cache[f] # 0
        BY <2>3, <3>1 DEF IsProtocolFeatureActivated
      <4> QED
        BY <4>1, <4>2
    <3> QED
      BY <2>3, <3>1, <3>2 DEF ViewsAgree
  <2> QED
    BY <2>2, <2>3
<1> QED
  BY <1>1, FeaturesInvariant, PTL

\* On every branch a preactivated feature is activated by the very next block,
\* and one that needs preactivation is activated in no other way.
THEOREM PreactivationIsHandled == Spec => []PreactivatedActivateNext
<1>1. FeatureInv => PreactivatedActivateNext
  BY DEF FeatureInv, BranchInv, BlockExtends, PreactivatedActivateNext, HeadNum
<1> QED
  BY <1>1, FeaturesInvariant, PTL

-----------------------------------------------------------------------------
(***************************************************************************)
(* The lists of features.  A second invariant, about what is in them:      *)
(* every preactivated list passes the checks at its own block, and what is *)
(* scheduled needs no preactivation.                                       *)
(***************************************************************************)

\* The list names features of this chain, none twice.
IsList(list) == list \in Seq(Feature) /\ Injective(list)

\* The features preactivated by block n, with those of active active.
PreactivatedList(time, active, list) ==
    IsList(list) /\ CheckProtocolFeatures(time, active, list)

\* The building block activates what has been signaled.
SignaledInv(p) ==
    p.kind = "producing" /\ signaled => SeqExt!ToSet(scheduled) \subseteq SeqExt!ToSet(p.new)

ListInv ==
    /\ \A n \in 1..HeadNum : PreactivatedList(n, chain[n].header, chain[n].preactivated)
    /\ \A p \in pending :
         /\ PreactivatedList(HeadNum + 1, HeadBlock.header \cup SeqExt!ToSet(p.new),
                             p.preactivated)
         /\ SignaledInv(p)
    /\ IsList(scheduled) /\ SeqExt!ToSet(scheduled) \cap NeedsPreactivation = {}

-----------------------------------------------------------------------------
\* The empty list is one.
LEMMA EmptyList ==
    ASSUME NEW time, NEW active
    PROVE  /\ IsList(<<>>) /\ PreactivatedList(time, active, <<>>)
           /\ SeqExt!ToSet(<<>>) = {}
BY DEF IsList, PreactivatedList, Injective, CheckProtocolFeatures, SeqExt!ToSet

\* The lists of headers and requests are lists of features.
LEMMA ListsAreSequences ==
    ASSUME NEW list \in Lists
    PROVE  list \in Seq(Feature)
<1>1. PICK m \in 0..MaxNew : list \in [1..m -> Feature]
  BY DEF Lists, SeqExt!SeqOf
<1>2. m \in Nat
  BY <1>1, FeatureAssumption
<1> QED
  BY <1>1, <1>2

\* A list that passes the checks still passes them with one more feature that
\* does.
LEMMA ListAppend ==
    ASSUME NEW list, IsList(list), NEW f \in Feature, f \notin SeqExt!ToSet(list)
    PROVE  /\ IsList(Append(list, f))
           /\ SeqExt!ToSet(Append(list, f)) = SeqExt!ToSet(list) \cup {f}
           /\ \A time, active :
                /\ CheckProtocolFeatures(time, active, list)
                /\ Earliest[f] <= time /\ f \notin active
                /\ Requires[f] \subseteq active \cup SeqExt!ToSet(list)
                => CheckProtocolFeatures(time, active, Append(list, f))
<1> DEFINE more == Append(list, f)
           len == Len(list)
<1>1. list \in Seq(Feature) /\ len \in Nat /\ DOMAIN list = 1..len
  BY DEF IsList
<1>2. /\ more \in Seq(Feature) /\ DOMAIN more = 1..(len + 1)
      /\ more[len + 1] = f /\ \A i \in 1..len : more[i] = list[i]
  BY <1>1
<1>3. \A i \in 1..(len + 1) : i \in 1..len \/ i = len + 1
  BY <1>1
<1>4. \A i \in 1..len : i \in 1..(len + 1) /\ i # len + 1
  BY <1>1
<1> HIDE DEF more, len
<1>5. SeqExt!ToSet(list) = {list[i] : i \in 1..len}
  BY <1>1 DEF SeqExt!ToSet
<1>6. SeqExt!ToSet(more) = SeqExt!ToSet(list) \cup {f}
  <2>1. SeqExt!ToSet(more) = {more[i] : i \in 1..(len + 1)}
    BY <1>2 DEF SeqExt!ToSet
  <2>2. len + 1 \in 1..(len + 1)
    BY <1>1
  <2> QED
    BY <2>1, <2>2, <1>2, <1>3, <1>4, <1>5
<1>7. Injective(more)
  <2> SUFFICES ASSUME NEW i \in 1..(len + 1), NEW j \in 1..(len + 1), more[i] = more[j]
               PROVE  i = j
    BY <1>2 DEF Injective
  <2>1. \A k \in 1..len : more[k] # f
    BY <1>2, <1>5
  <2>2. \A k, l \in 1..len : list[k] = list[l] => k = l
    BY <1>1 DEF IsList, Injective
  <2> QED
    BY <1>2, <1>3, <2>1, <2>2
<1>8. ASSUME NEW time, NEW active,
             CheckProtocolFeatures(time, active, list),
             Earliest[f] <= time, f \notin active,
             Requires[f] \subseteq active \cup SeqExt!ToSet(list)
      PROVE  CheckProtocolFeatures(time, active, more)
  <2> SUFFICES ASSUME NEW i \in 1..(len + 1)
               PROVE  /\ Earliest[more[i]] <= time
                      /\ more[i] \notin active
                      /\ Requires[more[i]] \subseteq active \cup {more[j] : j \in 1..(i - 1)}
    BY <1>2 DEF CheckProtocolFeatures
  <2>1. CASE i \in 1..len
    <3>1. /\ Earliest[list[i]] <= time
          /\ list[i] \notin active
          /\ Requires[list[i]] \subseteq active \cup {list[j] : j \in 1..(i - 1)}
      BY <1>1, <1>8, <2>1 DEF CheckProtocolFeatures
    <3>2. more[i] = list[i] /\ \A j \in 1..(i - 1) : more[j] = list[j]
      BY <1>1, <1>2, <2>1
    <3>3. {more[j] : j \in 1..(i - 1)} = {list[j] : j \in 1..(i - 1)}
      BY <3>2
    <3> QED
      BY <3>1, <3>2, <3>3
  <2>2. CASE i = len + 1
    <3>1. i - 1 = len
      BY <1>1, <2>2
    <3>2. {more[j] : j \in 1..(i - 1)} = SeqExt!ToSet(list)
      BY <1>2, <1>5, <3>1
    <3> QED
      BY <1>2, <1>8, <2>2, <3>2
  <2> QED
    BY <1>3, <2>1, <2>2
<1> QED
  BY <1>2, <1>6, <1>7, <1>8 DEF more, IsList

\* The merge of what the operator wants with what is preactivated: the
\* recursion is well defined, the result passes the checks that both lists pass
\* and has the features of both.
LEMMA MergedList ==
    ASSUME NEW time, NEW active, NEW wanted,
           PreactivatedList(time, active, wanted),
           PreactivatedList(time, active, HeadBlock.preactivated)
    PROVE  /\ PreactivatedList(time, active, FeaturesToActivate(wanted))
           /\ SeqExt!ToSet(FeaturesToActivate(wanted)) =
                SeqExt!ToSet(wanted) \cup SeqExt!ToSet(HeadBlock.preactivated)
<1> DEFINE pre == HeadBlock.preactivated
           len == Len(pre)
           Upto(i) == {pre[j] : j \in 1..i}
           Extended(list, f) == IF f \in SeqExt!ToSet(list) THEN list ELSE Append(list, f)
           Step(m, i) == IF i = 0 THEN wanted ELSE Extended(m[i - 1], pre[i])
           IsMerge(m, n) == m = [i \in 0..n |-> Step(m, i)]
           Good(list, i) == /\ PreactivatedList(time, active, list)
                            /\ SeqExt!ToSet(list) = SeqExt!ToSet(wanted) \cup Upto(i)
<1>1. pre \in Seq(Feature) /\ len \in Nat /\ DOMAIN pre = 1..len
  BY DEF PreactivatedList, IsList
<1>2. ASSUME NEW i \in 1..len, NEW list, Good(list, i - 1)
      PROVE  Good(Extended(list, pre[i]), i)
  <2>1. Upto(i) = Upto(i - 1) \cup {pre[i]}
    BY <1>1
  <2>2. /\ pre[i] \in Feature
        /\ Earliest[pre[i]] <= time /\ pre[i] \notin active
        /\ Requires[pre[i]] \subseteq active \cup Upto(i - 1)
    BY <1>1 DEF PreactivatedList, CheckProtocolFeatures
  <2> HIDE DEF Upto
  <2>3. CASE pre[i] \in SeqExt!ToSet(list)
    BY <1>2, <2>1, <2>3
  <2>4. CASE pre[i] \notin SeqExt!ToSet(list)
    <3>1. IsList(list) /\ CheckProtocolFeatures(time, active, list)
      BY <1>2 DEF PreactivatedList
    <3>2. Requires[pre[i]] \subseteq active \cup SeqExt!ToSet(list)
      BY <1>2, <2>2
    <3>3. /\ IsList(Append(list, pre[i]))
          /\ SeqExt!ToSet(Append(list, pre[i])) = SeqExt!ToSet(list) \cup {pre[i]}
          /\ CheckProtocolFeatures(time, active, Append(list, pre[i]))
      BY <2>2, <2>4, <3>1, <3>2, ListAppend
    <3>4. Extended(list, pre[i]) = Append(list, pre[i])
      BY <2>4
    <3> HIDE DEF pre, Extended
    <3>5. PreactivatedList(time, active, Append(list, pre[i]))
      BY <3>3 DEF PreactivatedList
    <3> QED
      BY <1>2, <2>1, <3>3, <3>4, <3>5
  <2> QED
    BY <2>3, <2>4
<1>3. Good(wanted, 0)
  BY <1>1
<1> DEFINE Exists == {n \in Nat : \E m : IsMerge(m, n)}
<1>4. 0 \in Exists
  <2> DEFINE m == [i \in 0..0 |-> wanted]
  <2>1. IsMerge(m, 0)
    BY SMT
  <2> QED
    BY <2>1
<1>5. ASSUME NEW n \in Nat, n \in Exists
      PROVE  n + 1 \in Exists
  <2>1. PICK m : IsMerge(m, n)
    BY <1>5
  <2> DEFINE last == Extended(m[n], pre[n + 1])
             g == [i \in 0..(n + 1) |-> IF i = n + 1 THEN last ELSE m[i]]
  <2>2. \A i \in 0..(n + 1) : g[i] = Step(g, i)
    <3> TAKE i \in 0..(n + 1)
    <3>1. CASE i = n + 1
      <4>1. g[i] = last /\ g[i - 1] = m[n] /\ pre[i] = pre[n + 1] /\ i # 0
        <5> HIDE DEF last, pre
        <5> QED
          BY <3>1
      <4> HIDE DEF g, Extended, pre
      <4> QED
        BY <4>1
    <3>2. CASE i # n + 1
      <4>1. i \in 0..n
        BY <3>2
      <4>2. g[i] = m[i] /\ (i # 0 => g[i - 1] = m[i - 1])
        <5> HIDE DEF last
        <5> QED
          BY <3>2
      <4>3. m[i] = Step(m, i)
        BY <4>1, <2>1
      <4> HIDE DEF g, Extended, pre
      <4> QED
        BY <4>2, <4>3
    <3> QED
      BY <3>1, <3>2
  <2>3. IsMerge(g, n + 1)
    <3> HIDE DEF Step, last
    <3>1. g = [i \in 0..(n + 1) |-> g[i]]
      OBVIOUS
    <3> HIDE DEF g
    <3> QED
      BY <3>1, <2>2
  <2> HIDE DEF IsMerge, g
  <2> QED
    BY <2>3
<1>6. Nat \subseteq Exists
  <2> HIDE DEF Exists
  <2> QED
    BY <1>4, <1>5, InductiveSet
<1> DEFINE merged == CHOOSE m : IsMerge(m, len)
<1>7. IsMerge(merged, len)
  <2>1. PICK m : IsMerge(m, len)
    BY <1>1, <1>6
  <2> HIDE DEF IsMerge
  <2> QED
    BY <2>1
<1>8. Good(merged[len], len)
  <2> DEFINE T == {n \in Nat : n <= len => Good(merged[n], n)}
  <2> HIDE DEF merged
  <2>1. 0 \in T
    <3>1. merged[0] = wanted
      BY <1>1, <1>7
    <3> HIDE DEF Good
    <3> QED
      BY <1>3, <3>1
  <2>2. ASSUME NEW n \in Nat, n \in T
        PROVE  n + 1 \in T
    <3> SUFFICES ASSUME n + 1 <= len
                 PROVE  Good(merged[n + 1], n + 1)
      <4> HIDE DEF Good
      <4> QED
        OBVIOUS
    <3>1. n + 1 \in 1..len /\ (n + 1) - 1 = n
      BY <1>1
    <3>2. merged[n + 1] = Extended(merged[n], pre[n + 1])
      <4> HIDE DEF Extended, pre
      <4> QED
        BY <1>7, <3>1
    <3>3. Good(merged[n], n)
      <4> HIDE DEF Good
      <4> QED
        BY <2>2, <3>1, <1>1
    <3> HIDE DEF Good, Extended, pre, len
    <3> QED
      BY <3>1, <3>2, <3>3, <1>2
  <2>3. Nat \subseteq T
    <3> HIDE DEF T
    <3> QED
      BY <2>1, <2>2, InductiveSet
  <2> HIDE DEF Good
  <2> QED
    BY <2>3, <1>1
<1>9. FeaturesToActivate(wanted) = IF wanted = <<>> THEN pre ELSE merged[len]
  BY DEF FeaturesToActivate
<1>10. SeqExt!ToSet(pre) = Upto(len)
  BY <1>1 DEF SeqExt!ToSet
<1> HIDE DEF merged
<1>11. CASE wanted = <<>>
  BY <1>9, <1>11, EmptyList
<1>12. CASE wanted # <<>>
  <2> HIDE DEF Upto, len, pre
  <2>1. FeaturesToActivate(wanted) = merged[len]
    BY <1>9, <1>12
  <2> QED
    BY <1>8, <1>10, <2>1 DEF pre
<1> QED
  BY <1>11, <1>12

-----------------------------------------------------------------------------
(* Each action preserves ListInv. *)

\* Nothing is preactivated by the first block.
LEMMA InitLists == Init => ListInv
<1> SUFFICES ASSUME Init
             PROVE  ListInv
  OBVIOUS
<1> DEFINE b == [header |-> {}, activated |-> NoneActive, preactivated |-> <<>>]
<1>1. chain = <<b>> /\ pending = {} /\ scheduled = <<>>
  BY DEF Init
<1>2. HeadNum = 1 /\ chain[1] = b
  BY <1>1 DEF HeadNum
<1>3. PreactivatedList(1, b.header, b.preactivated)
  BY EmptyList
<1>4. \A n \in 1..HeadNum : n = 1
  BY <1>2
<1> QED
  BY <1>1, <1>2, <1>3, <1>4, EmptyList DEF ListInv

\* A step that leaves the branch alone and starts a block that preactivates
\* nothing yet, or none.
LEMMA ListsOfStarted ==
    ASSUME ListInv, chain' = chain,
           \A p \in pending' : p.preactivated = <<>> /\ SignaledInv(p)',
           IsList(scheduled'), SeqExt!ToSet(scheduled') \cap NeedsPreactivation = {}
    PROVE  ListInv'
<1>1. HeadNum' = HeadNum /\ HeadBlock' = HeadBlock
  BY DEF HeadNum, HeadBlock
<1>2. \A n \in 1..HeadNum : PreactivatedList(n, chain[n].header, chain[n].preactivated)'
  BY DEF ListInv, PreactivatedList, IsList, CheckProtocolFeatures, Injective
<1>3. \A p \in pending' :
        /\ PreactivatedList(HeadNum + 1, HeadBlock.header \cup SeqExt!ToSet(p.new),
                            p.preactivated)'
        /\ SignaledInv(p)'
  BY EmptyList
<1> QED
  BY <1>1, <1>2, <1>3 DEF ListInv, IsList, Injective

\* What start_block puts in the building block.
LEMMA StartedBlock ==
    ASSUME ListInv, FeatureInv, NEW kind, NEW new, BlockStarted(kind, new)
    PROVE  \A p \in pending' : p.kind = kind /\ p.new = new /\ p.preactivated = <<>>
<1> DEFINE pre == HeadBlock.preactivated
<1>1. HeadNum \in Nat \ {0}
  BY HeadFacts
<1>2. PreactivatedList(HeadNum, HeadBlock.header, pre)
  BY <1>1 DEF ListInv, HeadBlock
<1>3. pre \in Seq(Feature)
  BY <1>2 DEF PreactivatedList, IsList
<1>4. CASE HandledAll(pre, new)
  <2>1. new = <<>> => pre = <<>>
    <3> SUFFICES ASSUME new = <<>>
                 PROVE  pre = <<>>
      OBVIOUS
    <3>1. SeqExt!ToSet(pre) = {}
      BY <1>4, EmptyList DEF HandledAll
    <3>2. Len(pre) \in Nat /\ DOMAIN pre = 1..Len(pre)
      BY <1>3
    <3>3. Len(pre) = 0
      <4>1. 1 \notin DOMAIN pre
        <5> HIDE DEF pre
        <5> QED
          BY <3>1 DEF SeqExt!ToSet
      <4> HIDE DEF pre
      <4> QED
        BY <3>2, <4>1
    <3> QED
      BY <1>3, <3>3
  <2> QED
    BY <1>4, <2>1 DEF BlockStarted
<1>5. CASE ~HandledAll(pre, new)
  BY <1>5 DEF BlockStarted
<1> QED
  BY <1>4, <1>5

\* The producer plugin starts a block: one that it signals its schedule in
\* activates all of the schedule.
LEMMA StartBlockLists ==
    ASSUME ListInv, FeatureInv, NEW kind, StartBlock(kind)
    PROVE  ListInv'
<1> DEFINE used  == kind = "producing" /\ scheduled # <<>>
           valid == CheckProtocolFeatures(HeadNum, HeadBlock.header, scheduled)
           new   == FeaturesToActivate(IF used /\ valid THEN scheduled ELSE <<>>)
<1>1. /\ chain' = chain
      /\ scheduled' = IF used /\ ~valid THEN <<>> ELSE scheduled
      /\ pending' = {} \/ BlockStarted(kind, new)
  BY DEF StartBlock
<1>2. IsList(scheduled') /\ SeqExt!ToSet(scheduled') \cap NeedsPreactivation = {}
  BY <1>1, EmptyList DEF ListInv
<1>3. ASSUME NEW p \in pending'
      PROVE  p.preactivated = <<>> /\ SignaledInv(p)'
  <2>1. p.kind = kind /\ p.new = new /\ p.preactivated = <<>>
    BY <1>1, <1>3, StartedBlock
  <2>2. CASE used /\ valid
    <3>1. HeadNum \in Nat \ {0}
      BY HeadFacts
    <3>2. PreactivatedList(HeadNum, HeadBlock.header, HeadBlock.preactivated)
      BY <3>1 DEF ListInv, HeadBlock
    <3>3. PreactivatedList(HeadNum, HeadBlock.header, scheduled)
      BY <2>2 DEF ListInv, PreactivatedList
    <3>4. SeqExt!ToSet(scheduled) \subseteq SeqExt!ToSet(FeaturesToActivate(scheduled))
      BY <3>2, <3>3, MergedList
    <3>5. new = FeaturesToActivate(scheduled) /\ scheduled' = scheduled
      BY <1>1, <2>2
    <3> QED
      BY <2>1, <3>4, <3>5 DEF SignaledInv
  <2>3. CASE ~(used /\ valid) /\ kind = "producing"
    <3>1. scheduled' = <<>>
      BY <1>1, <2>3
    <3>2. SeqExt!ToSet(scheduled') = {}
      BY <3>1, EmptyList
    <3> QED
      BY <2>1, <3>2 DEF SignaledInv
  <2>4. CASE kind # "producing"
    BY <2>1, <2>4 DEF SignaledInv
  <2> QED
    BY <2>2, <2>3, <2>4
<1> QED
  BY <1>1, <1>2, <1>3, ListsOfStarted

\* A transaction preactivates a feature: the list goes on passing the checks
\* at the block that is being built.
LEMMA PreactivateLists ==
    ASSUME ListInv, FeatureInv, NEW f \in Feature, PreactivateFeature(f)
    PROVE  ListInv'
<1>1. PICK p \in pending :
        /\ Earliest[f] <= HeadNum + 1
        /\ ~IsProtocolFeatureActivated(f) /\ f \notin SeqExt!ToSet(p.preactivated)
        /\ \A d \in Requires[f] :
             IsProtocolFeatureActivated(d) \/ d \in SeqExt!ToSet(p.preactivated)
        /\ pending' = {[p EXCEPT !.preactivated = Append(@, f)]}
        /\ UNCHANGED <<chain, cache, scheduled, signaled>>
  BY DEF PreactivateFeature
<1> DEFINE active == HeadBlock.header \cup SeqExt!ToSet(p.new)
           list == Append(p.preactivated, f)
<1>2. PreactivatedList(HeadNum + 1, active, p.preactivated) /\ SignaledInv(p) /\ IsBuilding(p)
  BY DEF ListInv, FeatureInv
<1>3. f \notin active
  BY <1>1 DEF IsProtocolFeatureActivated
<1>4. Requires[f] \subseteq active \cup SeqExt!ToSet(p.preactivated)
  <2>1. ASSUME NEW d \in Feature, IsProtocolFeatureActivated(d)
        PROVE  d \in active
    <3>1. \A q \in pending :
            cache[d] # 0 <=> d \in HeadBlock.header \/ d \in SeqExt!ToSet(q.new)
      BY DEF FeatureInv, BuildingInv
    <3> QED
      BY <2>1, <3>1 DEF IsProtocolFeatureActivated
  <2>2. Requires[f] \subseteq Feature
    BY FeatureAssumption
  <2> QED
    BY <1>1, <2>1, <2>2
<1>5. PreactivatedList(HeadNum + 1, active, list)
  <2> HIDE DEF active
  <2> QED
    BY <1>1, <1>2, <1>3, <1>4, ListAppend DEF PreactivatedList
<1>6. \A q \in pending' : q.kind = p.kind /\ q.new = p.new /\ q.preactivated = list
  <2>1. pending' = {[p EXCEPT !.preactivated = list]}
    BY <1>1
  <2> HIDE DEF list
  <2> QED
    BY <1>2, <2>1 DEF IsBuilding
<1>7. HeadNum' = HeadNum /\ HeadBlock' = HeadBlock
  BY <1>1 DEF HeadNum, HeadBlock
<1>8. \A n \in 1..HeadNum : PreactivatedList(n, chain[n].header, chain[n].preactivated)'
  BY <1>1 DEF ListInv, PreactivatedList, IsList, CheckProtocolFeatures, Injective
<1>9. ASSUME NEW q \in pending'
      PROVE  /\ PreactivatedList(HeadNum + 1, HeadBlock.header \cup SeqExt!ToSet(q.new),
                                 q.preactivated)'
             /\ SignaledInv(q)'
  <2>1. q.kind = p.kind /\ q.new = p.new /\ q.preactivated = list
    BY <1>6, <1>9
  <2>2. SignaledInv(q)'
    <3>1. CASE signaled
      BY <1>1, <1>2, <2>1, <3>1, Zenon DEF SignaledInv
    <3>2. CASE ~signaled
      BY <1>1, <3>2 DEF SignaledInv
    <3> QED
      BY <3>1, <3>2
  <2> QED
    BY <1>5, <1>7, <2>1, <2>2
<1> QED
  BY <1>1, <1>7, <1>8, <1>9 DEF ListInv, IsList, Injective

\* The building block becomes the head, and with it the list of what it has
\* preactivated.
LEMMA CommittedLists ==
    ASSUME ListInv, FeatureInv, NEW p \in pending, Committed(p),
           scheduled' \in {<<>>, scheduled}
    PROVE  ListInv'
<1> DEFINE b == [header       |-> HeadBlock.header \cup SeqExt!ToSet(p.new),
                 activated    |-> p.activated,
                 preactivated |-> p.preactivated]
           num == HeadNum + 1
<1>1. chain' = Append(chain, b) /\ pending' = {}
  BY DEF Committed
<1>2. HeadNum \in Nat \ {0} /\ HeadNum = Len(chain) /\ IsBranch(chain)
  BY HeadFacts DEF HeadNum, FeatureInv, BranchInv
<1>3. /\ HeadNum' = num /\ chain'[num] = b
      /\ \A n \in 1..HeadNum : chain'[n] = chain[n]
  BY <1>1, <1>2, BranchAppend DEF HeadNum
<1>4. PreactivatedList(num, b.header, b.preactivated)
  BY DEF ListInv
<1>5. \A n \in 1..HeadNum : PreactivatedList(n, chain[n].header, chain[n].preactivated)
  BY DEF ListInv
<1>6. \A n \in 1..num : n \in 1..HeadNum \/ n = num
  BY <1>2
<1> HIDE DEF b, num
<1>7. \A n \in 1..num : PreactivatedList(n, chain'[n].header, chain'[n].preactivated)
  BY <1>3, <1>4, <1>5, <1>6
<1>8. IsList(scheduled') /\ SeqExt!ToSet(scheduled') \cap NeedsPreactivation = {}
  BY EmptyList DEF ListInv
<1> QED
  BY <1>1, <1>3, <1>7, <1>8
  DEF ListInv, PreactivatedList, IsList, CheckProtocolFeatures, Injective

\* A popped block takes its list with it.
LEMMA PopLists ==
    ASSUME ListInv, FeatureInv, PopBlock
    PROVE  ListInv'
<1>1. /\ pending' = {} /\ scheduled' = scheduled /\ HeadNum > 1
      /\ chain' = SubSeq(chain, 1, HeadNum - 1)
  BY DEF PopBlock
<1>2. HeadNum \in Nat \ {0} /\ HeadNum = Len(chain) /\ IsBranch(chain)
  BY HeadFacts DEF HeadNum, FeatureInv, BranchInv
<1>3. /\ HeadNum' = HeadNum - 1
      /\ \A n \in 1..(HeadNum - 1) : chain'[n] = chain[n]
  BY <1>1, <1>2, BranchFront DEF HeadNum
<1>4. \A n \in 1..(HeadNum - 1) :
        PreactivatedList(n, chain'[n].header, chain'[n].preactivated)
  BY <1>2, <1>3 DEF ListInv
<1> QED
  BY <1>1, <1>3, <1>4
  DEF ListInv, PreactivatedList, IsList, CheckProtocolFeatures, Injective

\* ListInv is inductive, given FeatureInv.
LEMMA NextLists ==
    ASSUME ListInv, FeatureInv, [Next]_vars
    PROVE  ListInv'
<1>1. ASSUME NEW list \in Lists, ScheduleProtocolFeatureActivations(list)
      PROVE  ListInv'
  <2>1. /\ Injective(list) /\ SeqExt!ToSet(list) \cap NeedsPreactivation = {}
        /\ scheduled' = list /\ signaled' = FALSE
        /\ chain' = chain /\ pending' = pending
    BY <1>1 DEF ScheduleProtocolFeatureActivations
  <2>2. IsList(scheduled') /\ SeqExt!ToSet(scheduled') \cap NeedsPreactivation = {}
    BY <2>1, ListsAreSequences DEF IsList
  <2>3. \A p : SignaledInv(p)'
    BY <2>1 DEF SignaledInv
  <2> QED
    BY <2>1, <2>2, <2>3
    DEF ListInv, PreactivatedList, IsList, CheckProtocolFeatures, Injective, HeadNum, HeadBlock
<1>2. ASSUME NEW kind \in {"speculating", "producing"}, StartBlock(kind)
      PROVE  ListInv'
  BY <1>2, StartBlockLists
<1>3. ASSUME NEW new \in Lists, ApplyBlock(new)
      PROVE  ListInv'
  <2>1. BlockStarted("received", new) /\ chain' = chain /\ scheduled' = scheduled
    BY <1>3 DEF ApplyBlock
  <2>2. \A p \in pending' : p.preactivated = <<>> /\ SignaledInv(p)'
    BY <2>1, StartedBlock DEF SignaledInv
  <2> QED
    BY <2>1, <2>2, ListsOfStarted DEF ListInv
<1>4. ASSUME NEW f \in Feature, PreactivateFeature(f)
      PROVE  ListInv'
  BY <1>4, PreactivateLists
<1>5. CASE CommitBlock
  BY <1>5, CommittedLists DEF CommitBlock
<1>6. CASE ProduceBlock
  BY <1>6, CommittedLists DEF ProduceBlock, ScheduleCleared
<1>7. CASE ProduceBlockThrows
  <2>1. chain' = chain /\ pending' = {} /\ scheduled' \in {<<>>, scheduled}
    BY <1>7 DEF ProduceBlockThrows, ScheduleCleared
  <2> QED
    BY <2>1, EmptyList, ListsOfStarted DEF ListInv
<1>8. CASE AbortBlock
  BY <1>8, ListsOfStarted DEF AbortBlock, ListInv
<1>9. CASE PopBlock
  BY <1>9, PopLists
<1>10. CASE Restart
  BY <1>10, EmptyList, ListsOfStarted DEF Restart
<1>11. CASE UNCHANGED vars
  BY <1>11 DEF vars, ListInv, SignaledInv, PreactivatedList, IsList, CheckProtocolFeatures,
               Injective, HeadNum, HeadBlock
<1> QED
  BY <1>1, <1>2, <1>3, <1>4, <1>5, <1>6, <1>7, <1>8, <1>9, <1>10, <1>11 DEF Next

\* Both invariants hold in every reachable state.
LEMMA ListsInvariant == Spec => [](FeatureInv /\ ListInv)
<1>1. Init => FeatureInv /\ ListInv
  BY InitFeatures, InitLists
<1>2. FeatureInv /\ ListInv /\ [Next]_vars => (FeatureInv /\ ListInv)'
  BY NextFeatures, NextLists
<1> QED
  BY <1>1, <1>2, PTL DEF Spec

\* Whatever has been preactivated by transactions and scheduled by the operator,
\* the producer can start its next block with it: the merged list passes
\* validate_protocol_features and every assert of start_block, so that no
\* sequence of legal requests stops block production.
THEOREM NothingStopsTheProducer == Spec => []ProducerNeverStuck
<1>1. FeatureInv /\ ListInv => ProducerNeverStuck
  <2> SUFFICES ASSUME FeatureInv, ListInv, pending = {},
                      NEW wanted \in {<<>>, scheduled},
                      CheckProtocolFeatures(HeadNum, HeadBlock.header, wanted)
               PROVE  LET new == FeaturesToActivate(wanted)
                      IN  /\ CheckProtocolFeatures(HeadNum, HeadBlock.header, new)
                          /\ \A i \in DOMAIN new :
                               MayActivate(cache, HeadBlock.preactivated, new, i)
    BY DEF ProducerNeverStuck
  <2> DEFINE pre == HeadBlock.preactivated
             new == FeaturesToActivate(wanted)
  <2>1. /\ HeadNum \in Nat \ {0}
        /\ \A f \in Feature : f \in HeadBlock.header <=> HeadBlock.activated[f] # 0
        /\ cache = HeadBlock.activated
    BY HeadFacts DEF FeatureInv
  <2>2. PreactivatedList(HeadNum, HeadBlock.header, pre)
    BY <2>1 DEF ListInv, HeadBlock
  <2>3. /\ PreactivatedList(HeadNum, HeadBlock.header, wanted)
        /\ SeqExt!ToSet(wanted) \cap NeedsPreactivation = {}
    BY EmptyList DEF ListInv, PreactivatedList
  <2>4. /\ PreactivatedList(HeadNum, HeadBlock.header, new)
        /\ SeqExt!ToSet(new) = SeqExt!ToSet(wanted) \cup SeqExt!ToSet(pre)
    BY <2>2, <2>3, MergedList
  <2> HIDE DEF new
  <2>5. ASSUME NEW i \in DOMAIN new
        PROVE  MayActivate(cache, pre, new, i)
    <3>1. new \in Seq(Feature) /\ Injective(new) /\ new[i] \in Feature
      BY <2>4, <2>5 DEF PreactivatedList, IsList
    <3>2. new[i] \in SeqExt!ToSet(pre) \/ new[i] \notin NeedsPreactivation
      <4>1. new[i] \in SeqExt!ToSet(new)
        BY DEF SeqExt!ToSet
      <4> QED
        BY <2>3, <2>4, <4>1
    <3>3. \A j \in 1..(i - 1) : new[j] # new[i]
      <4>1. DOMAIN new = 1..Len(new) /\ Len(new) \in Nat
        BY <3>1
      <4>2. \A j \in 1..(i - 1) : j \in DOMAIN new /\ j # i
        BY <4>1
      <4> QED
        BY <3>1, <4>2 DEF Injective
    <3>4. cache[new[i]] = 0
      BY <2>1, <2>4, <3>1 DEF PreactivatedList, CheckProtocolFeatures
    <3> QED
      BY <3>2, <3>3, <3>4 DEF MayActivate
  <2> QED
    BY <2>4, <2>5 DEF new, PreactivatedList
<1> QED
  BY <1>1, ListsInvariant, PTL

\* A block this node produces activates what the operator has scheduled, unless
\* it is scheduled for a later one: the schedule is cleared only by a block that
\* was started with it.
THEOREM ScheduleIsNotLost == Spec => ScheduledIsActivated
<1>1. ASSUME FeatureInv, ListInv, [Next]_vars
      PROVE  [ProduceBlock => \/ SeqExt!ToSet(scheduled) \subseteq HeadBlock'.header
                              \/ scheduled' = scheduled]_vars
  <2> SUFFICES ASSUME ProduceBlock, scheduled' # scheduled
               PROVE  SeqExt!ToSet(scheduled) \subseteq HeadBlock'.header
    OBVIOUS
  <2>1. PICK p \in pending : p.kind = "producing" /\ Committed(p)
    BY DEF ProduceBlock
  <2>2. signaled
    BY DEF ProduceBlock, ScheduleCleared
  <2>3. SeqExt!ToSet(scheduled) \subseteq SeqExt!ToSet(p.new)
    BY <1>1, <2>1, <2>2 DEF ListInv, SignaledInv
  <2> DEFINE b == [header       |-> HeadBlock.header \cup SeqExt!ToSet(p.new),
                   activated    |-> p.activated,
                   preactivated |-> p.preactivated]
  <2>4. HeadBlock' = b
    <3>1. chain' = Append(chain, b)
      BY <2>1 DEF Committed
    <3>2. IsBranch(chain)
      BY <1>1 DEF FeatureInv, BranchInv
    <3> HIDE DEF b
    <3>3. Len(chain') = Len(chain) + 1 /\ chain'[Len(chain) + 1] = b
      BY <3>1, <3>2, BranchAppend
    <3> QED
      BY <3>3 DEF HeadBlock, HeadNum
  <2> QED
    BY <2>3, <2>4
<1>2. Spec => [](FeatureInv /\ ListInv) /\ [][Next]_vars
  BY ListsInvariant DEF Spec
<1> QED
  BY <1>1, <1>2, PTL DEF ScheduledIsActivated
=============================================================================
