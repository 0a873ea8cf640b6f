----------------------------- MODULE DposHeader -----------------------------
(***************************************************************************)
(* What a block's header says and what follows from it: the functions by   *)
(* which block_header_state and pending_block_header_state compute the     *)
(* state of a header from that of the one before.  They depend on nothing  *)
(* else, so every node that has the headers of a branch computes the same. *)
(***************************************************************************)
EXTENDS Integers, Sequences, FiniteSetsExt

CONSTANTS
    ProducerRepetitions,  \* config::producer_repetitions
    UInt32,               \* the number of uint32_t values (2^32 in the code)
    MaxTracked            \* config::maximum_tracked_dpos_confirmations

ASSUME WidthAssumption ==
    {ProducerRepetitions, MaxTracked, UInt32} \subseteq Nat \ {0}

-----------------------------------------------------------------------------
\* get_scheduled_producer
ScheduledProducer(schedule, slot) ==
    LET index == (slot % (Len(schedule) * ProducerRepetitions)) \div ProducerRepetitions
    IN  schedule[index + 1]

\* The element std::nth_element puts at position k (counted from 0) of the
\* values of f.
NthElement(f, k) ==
    CHOOSE v \in Range(f) :
        /\ Cardinality({q \in DOMAIN f : f[q] < v}) <= k
        /\ Cardinality({q \in DOMAIN f : f[q] <= v}) > k

\* (mutants of CalcDposLastIrreversible: the new block instead of the proposed
\* one, the median instead of one third)
CalcFromNewBlock(h, p) ==
    LET irb == [q \in DOMAIN h.implied_irb |->
                   IF q = p THEN h.block_num + 1 ELSE h.implied_irb[q]]
    IN  IF DOMAIN irb = {} THEN 0
        ELSE NthElement(irb, (Cardinality(DOMAIN irb) - 1) \div 3)

CalcMedian(h, p) ==
    LET irb == [q \in DOMAIN h.implied_irb |->
                   IF q = p THEN h.proposed_lib ELSE h.implied_irb[q]]
    IN  IF DOMAIN irb = {} THEN 0
        ELSE NthElement(irb, Cardinality(DOMAIN irb) \div 2)

\* calc_dpos_last_irreversible, for a next block produced by p.
CalcDposLastIrreversible(h, p) ==
    LET irb == [q \in DOMAIN h.implied_irb |->
                   IF q = p THEN h.proposed_lib ELSE h.implied_irb[q]]
    IN  IF DOMAIN irb = {} THEN 0
        ELSE NthElement(irb, (Cardinality(DOMAIN irb) - 1) \div 3)

\* a - b in uint32_t, and a - 1 in uint8_t.
Minus32(a, b) == (a - b) % UInt32
Decrement8(a) == (a + 255) % 256

\* (mutant of RequiredConfs: 2/3 in integers)
RequiredConfsRounded(n) == n * (2 \div 3) + 1

\* required_confs of the next block, signed under a schedule of n producers.
RequiredConfs(n) == (n * 2) \div 3 + 1

\* (mutant of GrownConfirmCount: nothing is forgotten)
GrowUnbounded(h) == Append(h.confirm_count, RequiredConfs(Len(h.active.producers)))

\* The confirmations still missing for the blocks after the proposed lib, with
\* the new block's: the oldest is forgotten when too many are tracked.
GrownConfirmCount(h) ==
    Append(IF Len(h.confirm_count) < MaxTracked THEN h.confirm_count
                                                ELSE Tail(h.confirm_count),
           RequiredConfs(Len(h.active.producers)))

\* (mutant of Confirm: the block that needs no more confirmations is kept)
ConfirmKeeps(h, c) ==
    LET grown == GrownConfirmCount(h)
        size  == Len(grown)
        low   == Max({1, size - c})
        left  == [i \in 1..size |-> IF i >= low THEN Decrement8(grown[i]) ELSE grown[i]]
        zeros == {i \in low..size : left[i] = 0}
    IN  IF zeros = {}
        THEN [proposed_lib |-> h.proposed_lib, confirm_count |-> left]
        ELSE [proposed_lib  |-> h.block_num + 1 - (size - Max(zeros)),
              confirm_count |-> SubSeq(left, Max(zeros), size)]

\* The loop over the new block and the c blocks before it, newest first, which
\* ends at the first block that needs no more confirmations.
Confirm(h, c) ==
    LET grown == GrownConfirmCount(h)
        size  == Len(grown)
        low   == Max({1, size - c})
        left  == [i \in 1..size |-> IF i >= low THEN Decrement8(grown[i]) ELSE grown[i]]
        zeros == {i \in low..size : left[i] = 0}
    IN  IF zeros = {}
        THEN [proposed_lib |-> h.proposed_lib, confirm_count |-> left]
        ELSE [proposed_lib  |-> h.block_num + 1 - (size - Max(zeros)),
              confirm_count |-> SubSeq(left, Max(zeros) + 1, size)]

\* (mutant of Renewed: a new producer starts from nothing)
RenewedFromZero(map, members, p, v, lib) ==
    [q \in members |-> IF q = p THEN v ELSE IF q \in DOMAIN map THEN map[q] ELSE 0]

\* A per-producer map after a block of p: v for p, and lib for a producer that
\* was not in the map before.
Renewed(map, members, p, v, lib) ==
    [q \in members |-> IF q = p THEN v ELSE IF q \in DOMAIN map THEN map[q] ELSE lib]

\* (mutants of ScheduleMatures and RateMatures: one block later)
ScheduleMaturesLate(h, lib) == h.pending.producers # <<>> /\ lib > h.pending.lib_num
RateMaturesLate(h, lib)     == h.pending_rate.rate > 0 /\ lib > h.pending_rate.lib_num

\* next() makes what is pending active once the block that made it pending is
\* irreversible.
ScheduleMatures(h, lib) == h.pending.producers # <<>> /\ lib >= h.pending.lib_num
RateMatures(h, lib)     == h.pending_rate.rate > 0 /\ lib >= h.pending_rate.lib_num

\* next(when, num_prev_blocks_to_confirm)
NextState(h, slot, c) ==
    LET p     == ScheduledProducer(h.active.producers, slot)
        lib   == CalcDposLastIrreversible(h, p)
        conf  == Confirm(h, c)
        sp    == ScheduleMatures(h, lib)
        rp    == RateMatures(h, lib)
        listed == Range(h.pending.producers)
    IN  [block_num          |-> h.block_num + 1,
         slot               |-> slot,
         producer           |-> p,
         confirmed          |-> c,
         proposed_lib       |-> conf.proposed_lib,
         lib                |-> lib,
         confirm_count      |-> conf.confirm_count,
         last_produced      |-> Renewed(h.last_produced,
                                        {p} \cup (IF sp THEN listed ELSE DOMAIN h.last_produced),
                                        p, h.block_num + 1, lib),
         implied_irb        |-> Renewed(h.implied_irb,
                                        IF sp THEN listed ELSE {p} \cup DOMAIN h.implied_irb,
                                        p, h.proposed_lib, lib),
         active             |-> IF sp THEN [version |-> h.pending.version,
                                            producers |-> h.pending.producers]
                                      ELSE h.active,
         active_rate        |-> IF rp THEN [version |-> h.pending_rate.version,
                                            rate |-> h.pending_rate.rate]
                                      ELSE h.active_rate,
         prev_pending       |-> h.pending,
         prev_pending_rate  |-> h.pending_rate,
         was_pending_promoted      |-> sp,
         was_pending_rate_promoted |-> rp,
         new_schedule       |-> {},
         new_rate           |-> {}]

\* (mutant of ConfirmAccepted: off by one)
ConfirmAcceptedOnce(h, p, c) ==
    p \in DOMAIN h.last_produced => h.last_produced[p] <= Minus32(h.block_num + 1, c)

\* The assert that p does not confirm a block twice, in uint32_t arithmetic.
ConfirmAccepted(h, p, c) ==
    p \in DOMAIN h.last_produced => h.last_produced[p] < Minus32(h.block_num + 1, c)

\* producer_plugin's start_block: the blocks a producer with watermark w (0: it
\* has none) confirms on top of h.  None it has signed before, on any branch,
\* and none that is irreversible.
BlocksToConfirm(h, w) ==
    Min({IF w > 0 /\ w < h.block_num THEN h.block_num - w ELSE 0, h.block_num - h.lib})

\* pending_producers() and pending_rate() while a block is being built.
PendingProducers(b) == IF b.new_schedule # {} THEN CHOOSE s \in b.new_schedule : TRUE
                                              ELSE b.prev_pending
PendingRate(b)      == IF b.new_rate # {} THEN CHOOSE r \in b.new_rate : TRUE
                                          ELSE b.prev_pending_rate

\* _finish_next's asserts on the header's new schedule and new rate.
HeaderAccepted(b) ==
    /\ \A s \in b.new_schedule :
         /\ ~b.was_pending_promoted
         /\ s.version = b.active.version + 1
         /\ b.prev_pending.producers = <<>>
    /\ \A r \in b.new_rate :
         /\ ~b.was_pending_rate_promoted
         /\ r.version = b.active_rate.version + 1
         /\ b.prev_pending_rate.rate = 0

\* _finish_next: the header state of the finished block.
Finished(b) ==
    [block_num     |-> b.block_num,
     slot          |-> b.slot,
     producer      |-> b.producer,
     confirmed     |-> b.confirmed,
     proposed_lib  |-> b.proposed_lib,
     lib           |-> b.lib,
     confirm_count |-> b.confirm_count,
     last_produced |-> b.last_produced,
     implied_irb   |-> b.implied_irb,
     active        |-> b.active,
     active_rate   |-> b.active_rate,
     pending       |->
       [version   |-> PendingProducers(b).version,
        producers |-> IF b.was_pending_promoted THEN <<>>
                      ELSE PendingProducers(b).producers,
        lib_num   |-> IF b.new_schedule # {} THEN b.block_num
                      ELSE b.prev_pending.lib_num],
     pending_rate  |->
       [version |-> PendingRate(b).version,
        rate    |-> IF b.was_pending_rate_promoted THEN 0 ELSE PendingRate(b).rate,
        lib_num |-> IF b.new_rate # {} THEN b.block_num
                    ELSE b.prev_pending_rate.lib_num]]
=============================================================================
