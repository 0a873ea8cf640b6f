-------------------------- MODULE ProtocolFeatures --------------------------
(***************************************************************************)
(* Activation of protocol features.  Which features are active is kept     *)
(* three times: in the header state of every block                         *)
(* (activated_protocol_features), in the chain state                       *)
(* (protocol_state_object), and in the memory of protocol_feature_manager, *)
(* which no undo session covers.  A transaction may preactivate a feature; *)
(* the next block must then activate it.  The operator of a producer may   *)
(* schedule others, which need no preactivation, for its next block.       *)
(*                                                                         *)
(* One branch at a time: a fork switch is a sequence of pops followed by   *)
(* received blocks.  The timestamp of block n is n.                        *)
(***************************************************************************)
EXTENDS Naturals, Sequences

SeqExt == INSTANCE SequencesExt

CONSTANTS
    Feature,             \* feature digests
    Requires,            \* protocol_feature::dependencies
    NeedsPreactivation,  \* the features with preactivation_required
    Earliest,            \* earliest_allowed_activation_time; one that is disabled or
                         \* unrecognized on this node has a time beyond MaxBlockNum
    MaxNew,              \* the most features a header or a producer's request names
    MaxBlockNum          \* the longest branch

ASSUME FeatureAssumption ==
    /\ Requires \in [Feature -> SUBSET Feature]
    /\ NeedsPreactivation \subseteq Feature
    /\ Earliest \in [Feature -> Nat]
    /\ MaxNew \in Nat /\ MaxBlockNum \in Nat

VARIABLES
    chain,      \* the blocks of the branch: what the header state and the chain state
                \* of each say about features; block n is chain[n]
    cache,      \* protocol_feature_manager: the activation block number, or 0 (not_active)
    pending,    \* the building block, at most one
    scheduled,  \* producer_plugin's _protocol_features_to_activate
    signaled    \* _protocol_features_signaled: a start_block has used scheduled

vars == <<chain, cache, pending, scheduled, signaled>>

-----------------------------------------------------------------------------
HeadNum == Len(chain)
HeadBlock == chain[HeadNum]

NoneActive == [f \in Feature |-> 0]
Active(a) == {f \in Feature : a[f] # 0}

\* check_protocol_features: each feature is ready at that time, is not active
\* and depends only on active features and on earlier ones of the list.
CheckProtocolFeatures(time, active, new) ==
    \A i \in DOMAIN new :
        /\ Earliest[new[i]] <= time
        /\ new[i] \notin active
        /\ Requires[new[i]] \subseteq active \cup {new[j] : j \in 1..(i - 1)}

\* (mutant of PoppedBlocksTo: the comparison is off by one)
PoppedBlocksBeyond(c, n) == [f \in Feature |-> IF c[f] > n + 1 THEN 0 ELSE c[f]]

\* popped_blocks_to(n): what was activated after block n is not active.
PoppedBlocksTo(c, n) == [f \in Feature |-> IF c[f] > n THEN 0 ELSE c[f]]

\* activate_feature of each feature of S in block n.
Activated(a, S, n) == [f \in Feature |-> IF f \in S THEN n ELSE a[f]]

\* abort_block: popped_blocks_to(head) if a block is being built.
AbortedCache == IF pending = {} THEN cache ELSE PoppedBlocksTo(cache, HeadNum)

\* start_block and activate_feature let the i-th new activation through, with
\* the features pre preactivated and those of c active.
MayActivate(c, pre, new, i) ==
    /\ new[i] \in SeqExt!ToSet(pre) \/ new[i] \notin NeedsPreactivation
    /\ \A j \in 1..(i - 1) : new[j] # new[i]
    /\ c[new[i]] = 0

\* The activations that go through before start_block throws, if it does.
ActivatedBeforeThrow(c, pre, new) ==
    {new[i] : i \in {k \in DOMAIN new :
        /\ MayActivate(c, pre, new, k)
        /\ \A j \in DOMAIN new : j < k => MayActivate(c, pre, new, j)}}

\* (mutant of HandledAll: any activation will do)
HandledSome(pre, new) == new # <<>> \/ pre = <<>>

\* All preactivated features are activated by the block.
HandledAll(pre, new) == SeqExt!ToSet(pre) \subseteq SeqExt!ToSet(new)

\* The part of controller_impl::start_block about features, after an abort_block.
\* When it throws, the scoped guard takes back what the manager was told.
BlockStarted(kind, new) ==
    LET c    == AbortedCache
        pre  == HeadBlock.preactivated
        num  == HeadNum + 1
        done == ActivatedBeforeThrow(c, pre, new)
    IN  IF (\A i \in DOMAIN new : MayActivate(c, pre, new, i)) /\ HandledAll(pre, new)
        THEN /\ cache' = Activated(c, SeqExt!ToSet(new), num)
             /\ pending' =
                  {[kind         |-> kind,
                    new          |-> new,
                    activated    |-> Activated(HeadBlock.activated, SeqExt!ToSet(new), num),
                    preactivated |-> IF new = <<>> THEN pre ELSE <<>>]}
        ELSE /\ cache' = PoppedBlocksTo(Activated(c, done, num), HeadNum)
             /\ pending' = {}

\* is_protocol_feature_activated: from the header states.
IsProtocolFeatureActivated(f) ==
    \/ f \in HeadBlock.header
    \/ \E p \in pending : f \in SeqExt!ToSet(p.new)

\* is_builtin_activated: from the manager.
IsBuiltinActivated(f) ==
    cache[f] # 0 /\ cache[f] <= HeadNum + (IF pending = {} THEN 0 ELSE 1)

-----------------------------------------------------------------------------
\* The genesis block: nothing is active.
Init ==
    /\ chain = <<[header |-> {}, activated |-> NoneActive, preactivated |-> <<>>]>>
    /\ cache = NoneActive
    /\ pending = {}
    /\ scheduled = <<>> /\ signaled = FALSE

\* The list names no feature twice.
Injective(list) == \A i, j \in DOMAIN list : list[i] = list[j] => i = j

\* (mutant of ScheduleProtocolFeatureActivations: signaled is left alone)
ScheduleKeepsSignaled(list) ==
    /\ Injective(list) /\ SeqExt!ToSet(list) \cap NeedsPreactivation = {}
    /\ CheckProtocolFeatures(HeadNum, HeadBlock.header, list)
    /\ scheduled' = list
    /\ UNCHANGED <<chain, cache, pending, signaled>>

\* schedule_protocol_feature_activations, at any time between two calls.
ScheduleProtocolFeatureActivations(list) ==
    /\ Injective(list) /\ SeqExt!ToSet(list) \cap NeedsPreactivation = {}
    /\ CheckProtocolFeatures(HeadNum, HeadBlock.header, list)
    /\ scheduled' = list /\ signaled' = FALSE
    /\ UNCHANGED <<chain, cache, pending>>

\* The list a block starts with: the preactivated features or, when the
\* operator wants some, these and then the preactivated ones not yet in the list.
FeaturesToActivate(wanted) ==
    LET pre == HeadBlock.preactivated
        merged[i \in 0..Len(pre)] ==
            IF i = 0 THEN wanted
            ELSE IF pre[i] \in SeqExt!ToSet(merged[i - 1]) THEN merged[i - 1]
            ELSE Append(merged[i - 1], pre[i])
    IN  IF wanted = <<>> THEN pre ELSE merged[Len(pre)]

\* The producer plugin aborts the building block, if any, and starts one,
\* speculating or producing.  A schedule that is no longer valid is dropped.
StartBlock(kind) ==
    LET used  == kind = "producing" /\ scheduled # <<>>
        valid == CheckProtocolFeatures(HeadNum, HeadBlock.header, scheduled)
        new   == FeaturesToActivate(IF used /\ valid THEN scheduled ELSE <<>>)
    IN  /\ HeadNum < MaxBlockNum
        /\ scheduled' = IF used /\ ~valid THEN <<>> ELSE scheduled
        /\ signaled' = (signaled \/ (used /\ valid))
        /\ IF CheckProtocolFeatures(HeadNum, HeadBlock.header, new)
           THEN BlockStarted(kind, new)
           ELSE cache' = AbortedCache /\ pending' = {}
        /\ UNCHANGED chain

\* A received block: its header names new features and is checked when the
\* block state is made; the building block is aborted and apply_block starts
\* the received one.
ApplyBlock(new) ==
    /\ HeadNum < MaxBlockNum
    /\ Injective(new)
    /\ CheckProtocolFeatures(HeadNum + 1, HeadBlock.header, new)
    /\ BlockStarted("received", new)
    /\ UNCHANGED <<chain, scheduled, signaled>>

\* (mutant of PreactivateFeature: its dependencies are not looked at)
PreactivateAlone(f) ==
    \E p \in pending :
        /\ Earliest[f] <= HeadNum + 1
        /\ ~IsProtocolFeatureActivated(f) /\ f \notin SeqExt!ToSet(p.preactivated)
        /\ pending' = {[p EXCEPT !.preactivated = Append(@, f)]}
        /\ UNCHANGED <<chain, cache, scheduled, signaled>>

\* A transaction of the building block calls preactivate_feature.
PreactivateFeature(f) ==
    \E p \in pending :
        /\ Earliest[f] <= HeadNum + 1
        /\ ~IsProtocolFeatureActivated(f) /\ f \notin SeqExt!ToSet(p.preactivated)
        /\ \A d \in Requires[f] :
             IsProtocolFeatureActivated(d) \/ d \in SeqExt!ToSet(p.preactivated)
        /\ pending' = {[p EXCEPT !.preactivated = Append(@, f)]}
        /\ UNCHANGED <<chain, cache, scheduled, signaled>>

\* finalize_block and commit_block: the new features extend the set of the
\* header state, which must not have them, and the block becomes the head.
\* A produced block's header is not checked again (the validator is empty).
Committed(p) ==
    /\ SeqExt!ToSet(p.new) \cap HeadBlock.header = {}
    /\ chain' = Append(chain, [header       |-> HeadBlock.header \cup SeqExt!ToSet(p.new),
                               activated    |-> p.activated,
                               preactivated |-> p.preactivated])
    /\ pending' = {}
    /\ UNCHANGED cache

CommitBlock ==
    \E p \in pending :
        /\ p.kind = "received"
        /\ Committed(p)
        /\ UNCHANGED <<scheduled, signaled>>

\* produce_block clears a schedule that has been signaled, then finishes the
\* block.
ScheduleCleared ==
    /\ scheduled' = IF signaled THEN <<>> ELSE scheduled
    /\ signaled' = FALSE

ProduceBlock ==
    \E p \in pending :
        /\ p.kind = "producing"
        /\ ScheduleCleared
        /\ Committed(p)

\* Signing fails or the block vault rejects the block, which is then aborted.
ProduceBlockThrows ==
    /\ \E p \in pending : p.kind = "producing"
    /\ ScheduleCleared
    /\ pending' = {}
    /\ cache' = AbortedCache
    /\ UNCHANGED chain

AbortBlock ==
    /\ pending # {}
    /\ pending' = {}
    /\ cache' = AbortedCache
    /\ UNCHANGED <<chain, scheduled, signaled>>

PopBlock ==
    /\ pending = {} /\ HeadNum > 1
    /\ chain' = SubSeq(chain, 1, HeadNum - 1)
    /\ cache' = PoppedBlocksTo(cache, HeadNum - 1)
    /\ UNCHANGED <<pending, scheduled, signaled>>

\* A restart: init() activates in a new manager what the state says is active.
Restart ==
    /\ pending' = {}
    /\ cache' = HeadBlock.activated
    /\ scheduled' = <<>> /\ signaled' = FALSE
    /\ UNCHANGED chain

Lists == SeqExt!SeqOf(Feature, MaxNew)

Next ==
    \/ \E list \in Lists : ScheduleProtocolFeatureActivations(list)
    \/ \E kind \in {"speculating", "producing"} : StartBlock(kind)
    \/ \E new \in Lists : ApplyBlock(new)
    \/ \E f \in Feature : PreactivateFeature(f)
    \/ CommitBlock
    \/ ProduceBlock
    \/ ProduceBlockThrows
    \/ AbortBlock
    \/ PopBlock
    \/ Restart

Spec == Init /\ [][Next]_vars

-----------------------------------------------------------------------------
\* The header states, the chain state and the manager give the same answer to
\* "is this feature active" at all times, through failed starts, aborts, pops
\* and restarts.
ViewsAgree ==
    \A f \in Feature :
        /\ IsBuiltinActivated(f) <=> IsProtocolFeatureActivated(f)
        /\ \A p \in pending : f \in Active(p.activated) <=> IsProtocolFeatureActivated(f)
        /\ pending = {} => (f \in Active(HeadBlock.activated) <=> f \in HeadBlock.header)

\* A preactivated feature is activated by the very next block, and a feature
\* that needs it is activated only so ("attempted to activate protocol feature
\* without prior required preactivation").
PreactivatedActivateNext ==
    \A n \in 2..HeadNum, f \in Feature :
        /\ f \in SeqExt!ToSet(chain[n - 1].preactivated) => chain[n].activated[f] = n
        /\ f \in NeedsPreactivation /\ chain[n].activated[f] = n =>
             f \in SeqExt!ToSet(chain[n - 1].preactivated)

\* Nothing that transactions have preactivated or the operator has scheduled can
\* stop the producer: the list it starts its next block with is accepted by
\* every check, from validate_protocol_features to the last assert of
\* start_block.
ProducerNeverStuck ==
    pending = {} =>
        \A wanted \in {<<>>, scheduled} :
            CheckProtocolFeatures(HeadNum, HeadBlock.header, wanted) =>
                LET new == FeaturesToActivate(wanted)
                IN  /\ CheckProtocolFeatures(HeadNum, HeadBlock.header, new)
                    /\ \A i \in DOMAIN new : MayActivate(cache, HeadBlock.preactivated, new, i)

\* What the operator has scheduled is active in the block this node produces, or
\* still scheduled, also when it is scheduled or changed while the block is
\* being built and when earlier blocks were aborted ("do a copy as pending_block
\* might be aborted").
ScheduledIsActivated ==
    [][ProduceBlock => \/ SeqExt!ToSet(scheduled) \subseteq HeadBlock'.header
                       \/ scheduled' = scheduled]_vars
=============================================================================
