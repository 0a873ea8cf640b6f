-------------------------- MODULE BlockHeaderState --------------------------
(***************************************************************************)
(* block_header_state: what every node derives from the headers of one     *)
(* branch.  Each block is produced by the producer its time slot gives it  *)
(* to, confirms itself and some blocks before it, and carries the DPoS     *)
(* bookkeeping on: the block its producer proposes as irreversible, the    *)
(* last irreversible block (lib), the active and the pending producer      *)
(* schedule, and the active and the pending fee rate.  Transactions of a   *)
(* block may propose a new schedule or rate, which waits in the global     *)
(* property object until start_block of a later block makes it pending.    *)
(***************************************************************************)
EXTENDS DposHeader

CONSTANTS
    Producer,             \* the producer accounts
    SystemAccount,        \* config::system_account_name, the first producer
    Offline,              \* the producers that miss all of their slots
    Schedules,            \* the producer schedules that may be proposed
    DisallowEmpty,        \* the feature DISALLOW_EMPTY_PRODUCER_SCHEDULE is activated
    RateValues,           \* the fee rates that may be proposed
    SlotCycle,            \* slots are counted modulo this number
    MaxSkip,              \* a block comes at most so many slots after its parent
    MaxConfirmed,         \* the largest number of blocks a header confirms
    HonestConfirms,       \* producers confirm what producer_plugin lets them
    MaxBlockNum           \* the length of the branch

\* config::max_producers is 125.
ASSUME ScheduleAssumption ==
    /\ SystemAccount \in Producer /\ IsFiniteSet(Producer)
    /\ Schedules \subseteq Seq(Producer)
    /\ \A s \in Schedules : Cardinality(Range(s)) = Len(s) /\ Len(s) <= 125
    /\ \A s \in Schedules \cup {<<SystemAccount>>} :
         s # <<>> => SlotCycle % (Len(s) * ProducerRepetitions) = 0

ASSUME BoundAssumption ==
    /\ RateValues \subseteq Int
    /\ {SlotCycle, MaxSkip, MaxBlockNum} \subseteq Nat \ {0}
    /\ MaxConfirmed \in Nat
    /\ UInt32 > MaxBlockNum + MaxConfirmed
    /\ {HonestConfirms, DisallowEmpty} \subseteq BOOLEAN

VARIABLES
    hs,        \* the header state of the last block of the branch
    building,  \* the pending_block_header_state of the next one, at most one
    sched,     \* gpo.proposed_schedule; proposed in block 0: there is none
    rate,      \* gpo.proposed_rate; likewise
    upTo       \* the last block each producer has confirmed on this branch

vars == <<hs, building, sched, rate, upTo>>

NoSchedule == [block_num |-> 0, version |-> 0, producers |-> <<>>]
NoRate     == [block_num |-> 0, version |-> 0, rate |-> 0]

-----------------------------------------------------------------------------
\* initialize_blockchain_state
Init ==
    /\ hs = [block_num     |-> 1,
             slot          |-> 0,
             producer      |-> SystemAccount,
             confirmed     |-> 0,
             proposed_lib  |-> 0,
             lib           |-> 0,
             confirm_count |-> <<>>,
             last_produced |-> <<>>,
             implied_irb   |-> <<>>,
             active        |-> [version |-> 0, producers |-> <<SystemAccount>>],
             pending       |-> [version |-> 0, producers |-> <<SystemAccount>>, lib_num |-> 0],
             active_rate   |-> [version |-> 0, rate |-> 1],
             pending_rate  |-> [version |-> 0, rate |-> 1, lib_num |-> 0]]
    /\ building = {}
    /\ sched = NoSchedule
    /\ rate = NoRate
    /\ upTo = [p \in Producer |-> 0]

\* (mutant of SchedulePromoted: a promotion in the same block makes room)
SchedulePromotedAfter(h, b) ==
    /\ sched.block_num # 0 /\ sched.block_num <= b.lib
    /\ h.pending.producers = <<>> \/ b.was_pending_promoted

\* start_block's conditions for making a proposal pending, and its asserts.
SchedulePromoted(h, b) ==
    sched.block_num # 0 /\ sched.block_num <= b.lib /\ h.pending.producers = <<>>

RatePromoted(h, b) ==
    rate.block_num # 0 /\ rate.block_num <= b.lib /\ h.pending_rate.rate = 0

ScheduleVersionMatches(h) == sched.version = h.active.version + 1
RateVersionMatches(h)     == rate.version = h.active_rate.version + 1

\* start_block of a block d slots after the last one, confirming c blocks.
StartBlock(d, c) ==
    LET b == NextState(hs, (hs.slot + d) % SlotCycle, c)
        s == SchedulePromoted(hs, b)
        r == RatePromoted(hs, b)
    IN  /\ building = {}
        /\ hs.block_num < MaxBlockNum
        /\ b.producer \notin Offline
        /\ ConfirmAccepted(hs, b.producer, c)
        /\ HonestConfirms => c = BlocksToConfirm(hs, upTo[b.producer])
        /\ s => ScheduleVersionMatches(hs)
        /\ r => RateVersionMatches(hs)
        /\ building' =
             {[b EXCEPT
                 !.new_schedule = IF s THEN {[version |-> sched.version,
                                              producers |-> sched.producers]} ELSE {},
                 !.new_rate = IF r THEN {[version |-> rate.version,
                                          rate |-> rate.rate]} ELSE {}]}
        /\ sched' = IF s THEN NoSchedule ELSE sched
        /\ rate' = IF r THEN NoRate ELSE rate
        /\ UNCHANGED <<hs, upTo>>

\* set_proposed_producers
SetProposedProducers(producers) ==
    \E b \in building :
        LET current == IF PendingProducers(b).producers = <<>> THEN b.active
                                                               ELSE PendingProducers(b)
        IN  /\ ~(producers = <<>> /\ DisallowEmpty)
            /\ sched.block_num \in {0, b.block_num}
            /\ sched.block_num # 0 => producers # sched.producers
            /\ producers # current.producers
            /\ sched' = [block_num |-> b.block_num,
                         version   |-> current.version + 1,
                         producers |-> producers]
            /\ UNCHANGED <<hs, building, rate, upTo>>

\* set_proposed_rate
SetProposedRate(new_rate) ==
    \E b \in building :
        LET current == IF PendingRate(b).rate = 0 THEN b.active_rate ELSE PendingRate(b)
        IN  /\ rate.block_num \in {0, b.block_num}
            /\ rate.block_num # 0 => new_rate # rate.rate
            /\ new_rate # current.rate
            /\ rate' = [block_num |-> b.block_num,
                        version   |-> current.version + 1,
                        rate      |-> new_rate]
            /\ UNCHANGED <<hs, building, sched, upTo>>

\* _finish_next: the block is complete, and becomes the last of the branch.
FinishNext ==
    \E b \in building :
        /\ HeaderAccepted(b)
        /\ hs' = Finished(b)
        /\ building' = {}
        /\ upTo' = [upTo EXCEPT ![b.producer] = b.block_num]
        /\ UNCHANGED <<sched, rate>>

Next ==
    \/ \E d \in 1..MaxSkip, c \in 0..MaxConfirmed : StartBlock(d, c)
    \/ \E s \in Schedules : SetProposedProducers(s)
    \/ \E r \in RateValues : SetProposedRate(r)
    \/ FinishNext

Spec == Init /\ [][Next]_vars

-----------------------------------------------------------------------------
\* The types of block_header_state's members, with confirm_count no longer
\* than the maximum tracked (block_header_state::next).
TypeOK ==
    /\ hs.block_num \in 1..MaxBlockNum /\ hs.slot \in 0..SlotCycle - 1
    /\ hs.producer \in Producer /\ hs.confirmed \in 0..MaxConfirmed
    /\ {hs.proposed_lib, hs.lib} \subseteq Nat
    /\ hs.confirm_count \in Seq(0..255) /\ Len(hs.confirm_count) <= MaxTracked
    /\ DOMAIN hs.last_produced \subseteq Producer /\ Range(hs.last_produced) \subseteq Nat
    /\ DOMAIN hs.implied_irb \subseteq Producer /\ Range(hs.implied_irb) \subseteq Nat
    /\ Cardinality(building) <= 1
    /\ sched.block_num \in Nat /\ rate.block_num \in Nat
    /\ upTo \in [Producer -> 0..MaxBlockNum]

\* The lib is behind the block the last producer proposed, which is not beyond
\* the block itself: no block declares itself irreversible (what the fork
\* database's order and log_irreversible's fetch_branch rely on).
LibBehindProposed ==
    /\ hs.lib <= hs.proposed_lib /\ hs.proposed_lib <= hs.block_num
    /\ hs.lib < hs.block_num

\* More than two thirds of the active producers imply that the lib is
\* irreversible ("2/3 must be greater").
LibIsSupported ==
    LET behind == {q \in DOMAIN hs.implied_irb : hs.implied_irb[q] >= hs.lib}
    IN  hs.block_num > 1 => 3 * Cardinality(behind) > 2 * Cardinality(DOMAIN hs.implied_irb)

\* A child never has a lower lib than its parent, so it is always preferred to
\* it: a producer's own block becomes the head of its fork database.
LibNeverDecreases == [][hs'.lib >= hs.lib]_vars

\* confirm_count has one entry for each block after the proposed lib, up to
\* the number tracked, and each of these still needs a confirmation: the uint8_t
\* counters never go below zero and the block number of an entry is right.
ConfirmWindow ==
    hs.block_num > 1 =>
        /\ Len(hs.confirm_count) = Min({MaxTracked, hs.block_num - hs.proposed_lib})
        /\ \A i \in DOMAIN hs.confirm_count :
             hs.confirm_count[i] \in 1..RequiredConfs(Cardinality(Producer))

\* No producer confirms a block it has confirmed before, not even after leaving
\* the schedule and coming back ("double-confirming known range").
NoDoubleConfirm ==
    [][\A p \in Producer :
         upTo'[p] # upTo[p] /\ upTo[p] > 0 => hs'.block_num - hs'.confirmed > upTo[p]]_vars

\* Whatever is proposed, and in whichever block, the next block can be started
\* and finished: a proposal that is due has the version start_block and
\* _finish_next assert, and does not meet a promotion in the same block.  These
\* asserts would stop every node ("wrong producer schedule version specified").
PromotionNeverThrows ==
    building = {} =>
        \A d \in 1..MaxSkip :
            LET b == NextState(hs, (hs.slot + d) % SlotCycle, 0)
            IN  /\ SchedulePromoted(hs, b) =>
                     /\ ScheduleVersionMatches(hs)
                     /\ sched.version = b.active.version + 1 /\ ~b.was_pending_promoted
                /\ RatePromoted(hs, b) =>
                     /\ RateVersionMatches(hs)
                     /\ rate.version = b.active_rate.version + 1 /\ ~b.was_pending_rate_promoted

\* Nothing stays pending once the block that made it pending is irreversible.
PendingScheduleIsPromoted ==
    hs.block_num > 1 /\ hs.pending.producers # <<>> => hs.lib < hs.pending.lib_num
PendingRateIsPromoted ==
    hs.block_num > 1 /\ hs.pending_rate.rate # 0 => hs.lib < hs.pending_rate.lib_num
=============================================================================
