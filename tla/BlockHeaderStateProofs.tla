----------------------- MODULE BlockHeaderStateProofs -----------------------
(***************************************************************************)
(* What every node derives from the headers of a branch, proved for        *)
(* branches of any length, any producers, schedules, rates and slots, and  *)
(* headers that confirm whatever the code accepts.                         *)
(***************************************************************************)
EXTENDS BlockHeaderState, DposHeaderProofs

\* A producer schedule: the producers are different, and not too many.
GoodSchedule(s) == s \in Seq(Producer) /\ Cardinality(Range(s)) = Len(s) /\ Len(s) <= 125

\* What holds of a header, finished or being built.
HeaderInv(h) ==
    /\ DposInv(h)
    /\ h.block_num \in 1 .. MaxBlockNum /\ h.slot \in 0 .. SlotCycle - 1
    /\ h.producer \in Producer /\ h.confirmed \in 0 .. MaxConfirmed
    /\ GoodSchedule(h.active.producers) /\ h.active.producers # << >>
    /\ DOMAIN h.last_produced \subseteq Producer
    /\ h.last_produced \in [DOMAIN h.last_produced -> Nat]
    /\ DOMAIN h.implied_irb \subseteq Producer

\* The first rate is 1, and 0 is none.
PossibleRate == RateValues \cup {0, 1}

FinishedInv ==
    /\ HeaderInv(hs)
    /\ GoodSchedule(hs.pending.producers) /\ hs.pending.lib_num \in Nat
    /\ hs.pending_rate.rate \in PossibleRate /\ hs.pending_rate.lib_num \in Nat

\* The block that is being built: next()'s result for the last header, with the
\* schedules S and the rates R that start_block has made pending.
Extended(b, S, R) == [b EXCEPT !.new_schedule = S, !.new_rate = R]

Started(d, c) == NextState(hs, (hs.slot + d) % SlotCycle, c)

MayConfirm(p, c) ==
    /\ ConfirmAccepted(hs, p, c)
    /\ HonestConfirms => c = BlocksToConfirm(hs, upTo[p])

NewSchedules(S) ==
    \/ S = {}
    \/ /\ hs.pending.producers = << >>
       /\ \E v, s : GoodSchedule(s) /\ S = {[version |-> v, producers |-> s]}

NewRates(R) ==
    \/ R = {}
    \/ /\ hs.pending_rate.rate = 0
       /\ \E v : \E r \in PossibleRate : R = {[version |-> v, rate |-> r]}

BuildingOf(d, c, S, R) ==
    /\ building = {Extended(Started(d, c), S, R)}
    /\ hs.block_num < MaxBlockNum
    /\ MayConfirm(Started(d, c).producer, c)
    /\ NewSchedules(S) /\ NewRates(R)

BuildingInv ==
    building # {} => \E d \in 1 .. MaxSkip, c \in 0 .. MaxConfirmed : \E S, R : BuildingOf(d, c, S, R)

ProposalInv ==
    /\ sched.block_num \in Nat /\ GoodSchedule(sched.producers)
    /\ rate.block_num \in Nat /\ rate.rate \in PossibleRate

HeaderTypeInv ==
    FinishedInv /\ BuildingInv /\ ProposalInv /\ upTo \in [Producer -> 0 .. MaxBlockNum]

-----------------------------------------------------------------------------
\* The empty schedule and the first one.
LEMMA FirstSchedules == GoodSchedule(<< >>) /\ GoodSchedule(<<SystemAccount>>)
<1>1. GoodSchedule(<< >>)
  <2>1. Range(<< >>) = {}
    BY DEF Range
  <2> QED
    BY <2>1, FS_EmptySet, EmptySeq DEF GoodSchedule
<1>2. GoodSchedule(<<SystemAccount>>)
  <2>1. <<SystemAccount>> \in Seq(Producer) /\ Len(<<SystemAccount>>) = 1
    BY ScheduleAssumption
  <2>2. Range(<<SystemAccount>>) = {SystemAccount}
    BY DEF Range
  <2> QED
    <3>1. Cardinality({SystemAccount}) = 1 /\ 1 <= 125
      BY FS_Singleton
    <3> QED
      BY <2>1, <2>2, <3>1 DEF GoodSchedule
<1> QED
  BY <1>1, <1>2

\* The number of confirmations a schedule requires fits in uint8_t, and is
\* not more than all producers would require.
LEMMA ConfirmationsFit ==
    ASSUME NEW s, GoodSchedule(s)
    PROVE  /\ RequiredConfs(Len(s)) \in Byte
           /\ RequiredConfs(Cardinality(Producer)) \in Nat
           /\ RequiredConfs(Len(s)) \in 1 .. RequiredConfs(Cardinality(Producer))
<1> DEFINE n == Len(s)
           m == Cardinality(Producer)
<1>1. n \in Nat /\ n <= 125
  BY LenProperties DEF GoodSchedule
<1>2. m \in Nat /\ n <= m
  <2>1. Range(s) \in SUBSET Producer /\ Cardinality(Range(s)) = n
    BY RangeOfSchedule DEF GoodSchedule
  <2> QED
    BY <2>1, ScheduleAssumption, FS_Subset, FS_CardinalityType
<1> HIDE DEF n, m
<1>3. (n * 2) \div 3 + 1 \in Byte /\ (m * 2) \div 3 + 1 \in Nat
  BY <1>1, <1>2 DEF Byte
<1>4. (n * 2) \div 3 + 1 \in 1 .. (m * 2) \div 3 + 1
  BY <1>1, <1>2
<1> QED
  BY <1>3, <1>4 DEF RequiredConfs, n, m

\* The members of the block being built.
LEMMA ExtendedFields ==
    ASSUME NEW h, NEW slot, NEW c, NEW n, n = NextState(h, slot, c), NEW S, NEW R,
           NEW b, b = Extended(n, S, R)
    PROVE  /\ b.block_num = n.block_num /\ b.slot = n.slot /\ b.producer = n.producer
           /\ b.confirmed = n.confirmed /\ b.proposed_lib = n.proposed_lib /\ b.lib = n.lib
           /\ b.confirm_count = n.confirm_count /\ b.last_produced = n.last_produced
           /\ b.implied_irb = n.implied_irb /\ b.active = n.active
           /\ b.active_rate = n.active_rate /\ b.prev_pending = n.prev_pending
           /\ b.prev_pending_rate = n.prev_pending_rate
           /\ b.was_pending_promoted = n.was_pending_promoted
           /\ b.was_pending_rate_promoted = n.was_pending_rate_promoted
           /\ b.new_schedule = S /\ b.new_rate = R
<1>1. /\ b.new_schedule = S /\ b.new_rate = R
      /\ \A f \in DOMAIN n \ {"new_schedule", "new_rate"} : b[f] = n[f]
  BY DEF Extended, NextState
<1>2. DOMAIN n = {"block_num", "slot", "producer", "confirmed", "proposed_lib", "lib",
                  "confirm_count", "last_produced", "implied_irb", "active", "active_rate",
                  "prev_pending", "prev_pending_rate", "was_pending_promoted",
                  "was_pending_rate_promoted", "new_schedule", "new_rate"}
  BY DEF NextState
<1> QED
  BY <1>1, <1>2

\* The producer of the next block is one of the active ones.
LEMMA StartedProducer ==
    ASSUME FinishedInv, NEW d \in 1 .. MaxSkip, NEW c \in 0 .. MaxConfirmed
    PROVE  Started(d, c).producer \in Range(hs.active.producers)
<1> DEFINE slot == (hs.slot + d) % SlotCycle
<1>1. Started(d, c).producer = ScheduledProducer(hs.active.producers, slot)
  BY NextFields DEF Started
<1>2. slot \in 0 .. SlotCycle - 1 /\ SlotCycle \in Nat \ {0}
  <2>1. hs.slot \in Nat /\ SlotCycle \in Nat \ {0} /\ d \in Nat
    BY BoundAssumption DEF FinishedInv, HeaderInv
  <2> DEFINE t == hs.slot + d
  <2>2. t \in Nat
    BY <2>1
  <2> HIDE DEF t
  <2>3. t % SlotCycle \in 0 .. SlotCycle - 1
    BY <2>1, <2>2
  <2> QED
    BY <2>1, <2>3 DEF t
<1>3. slot \in Nat
  <2> HIDE DEF slot
  <2> QED
    BY <1>2
<1>4. hs.active.producers \in Seq(Producer) /\ hs.active.producers # << >>
  BY DEF FinishedInv, HeaderInv, GoodSchedule
<1> HIDE DEF slot
<1>5. \E i \in 1 .. Len(hs.active.producers) :
         ScheduledProducer(hs.active.producers, slot) = hs.active.producers[i]
  BY <1>3, <1>4, ScheduledProducerIsListed
<1>6. \A i \in 1 .. Len(hs.active.producers) :
         hs.active.producers[i] \in Range(hs.active.producers)
  BY <1>4, RangeOfSchedule
<1> QED
  BY <1>1, <1>5, <1>6

\* next() keeps the types and the order of the numbers.
LEMMA StartedInv ==
    ASSUME FinishedInv, hs.block_num < MaxBlockNum,
           NEW d \in 1 .. MaxSkip, NEW c \in 0 .. MaxConfirmed,
           NEW b, b = Started(d, c)
    PROVE  HeaderInv(b)
<1> DEFINE slot == (hs.slot + d) % SlotCycle
<1>1. b = NextState(hs, slot, c)
  BY DEF Started
<1>2. slot \in 0 .. SlotCycle - 1
  <2>1. hs.slot \in Nat /\ SlotCycle \in Nat \ {0} /\ d \in Nat
    BY BoundAssumption DEF FinishedInv, HeaderInv
  <2> DEFINE t == hs.slot + d
  <2>2. t \in Nat
    BY <2>1
  <2> HIDE DEF t
  <2>3. t % SlotCycle \in 0 .. SlotCycle - 1
    BY <2>1, <2>2
  <2> QED
    BY <2>3 DEF t
<1> HIDE DEF slot
<1>3. b.block_num = hs.block_num + 1 /\ b.slot = slot /\ b.confirmed = c
  BY <1>1, NextFields
<1>4. /\ GoodSchedule(hs.active.producers) /\ hs.active.producers # << >>
      /\ GoodSchedule(hs.pending.producers) /\ DposInv(hs)
      /\ hs.block_num \in 1 .. MaxBlockNum
  BY DEF FinishedInv, HeaderInv
<1>5. /\ IsFiniteSet(Range(hs.pending.producers)) /\ Range(hs.pending.producers) \subseteq Producer
      /\ Range(hs.active.producers) \subseteq Producer
  BY <1>4, RangeOfSchedule DEF GoodSchedule
<1>6. b.producer \in Producer
  BY <1>5, StartedProducer
<1>7. c \in Nat
  BY BoundAssumption
<1>8. DposInv(b)
  BY <1>1, <1>4, <1>5, <1>7, ConfirmationsFit, NextDpos
<1>9. GoodSchedule(b.active.producers) /\ b.active.producers # << >>
  <2>1. /\ ScheduleMatures(hs, b.lib) => b.active.producers = hs.pending.producers
        /\ ~ScheduleMatures(hs, b.lib) => b.active = hs.active
    BY <1>1, NextActive
  <2>2. CASE ScheduleMatures(hs, b.lib)
    <3>1. b.active.producers = hs.pending.producers /\ hs.pending.producers # << >>
      BY <2>1, <2>2 DEF ScheduleMatures
    <3> QED
      BY <3>1, <1>4
  <2>3. CASE ~ScheduleMatures(hs, b.lib)
    BY <2>1, <2>3, <1>4
  <2> QED
    BY <2>2, <2>3
<1>10. DOMAIN b.last_produced \subseteq Producer
       /\ b.last_produced \in [DOMAIN b.last_produced -> Nat]
  <2> DEFINE D == {b.producer} \cup (IF ScheduleMatures(hs, b.lib)
                                     THEN Range(hs.pending.producers)
                                     ELSE DOMAIN hs.last_produced)
  <2>1. D \subseteq Producer
    BY <1>5, <1>6 DEF FinishedInv, HeaderInv
  <2> HIDE DEF D
  <2>2. b.last_produced = Renewed(hs.last_produced, D, b.producer, b.block_num, b.lib)
    BY <1>1, NextProduced DEF D
  <2>3. /\ DOMAIN b.last_produced = D /\ b.last_produced = [q \in D |-> b.last_produced[q]]
        /\ \A q \in D : b.last_produced[q] = IF q = b.producer THEN b.block_num
                                             ELSE IF q \in DOMAIN hs.last_produced
                                                  THEN hs.last_produced[q] ELSE b.lib
    BY <2>2, RenewedProperties
  <2>4. b.block_num \in Nat /\ b.lib \in Nat
    BY <1>8 DEF DposInv
  <2>5. \A q \in DOMAIN hs.last_produced : hs.last_produced[q] \in Nat
    BY DEF FinishedInv, HeaderInv
  <2>6. \A q \in D : b.last_produced[q] \in Nat
    BY <2>3, <2>4, <2>5
  <2> QED
    BY <2>1, <2>3, <2>6
<1>11. DOMAIN b.implied_irb \subseteq Producer
  <2> DEFINE D == IF ScheduleMatures(hs, b.lib) THEN Range(hs.pending.producers)
                  ELSE {b.producer} \cup DOMAIN hs.implied_irb
  <2>1. D \subseteq Producer
    BY <1>5, <1>6 DEF FinishedInv, HeaderInv
  <2> HIDE DEF D
  <2>2. b.implied_irb = Renewed(hs.implied_irb, D, b.producer, hs.proposed_lib, b.lib)
    BY <1>1, NextImplied DEF D
  <2>3. DOMAIN b.implied_irb = D
    BY <2>2, RenewedProperties
  <2> QED
    BY <2>1, <2>3
<1>12. b.block_num \in 1 .. MaxBlockNum
  <2> DEFINE n == hs.block_num
  <2>1. n \in 1 .. MaxBlockNum /\ n < MaxBlockNum /\ b.block_num = n + 1 /\ MaxBlockNum \in Nat
    BY <1>3, <1>4, BoundAssumption
  <2> HIDE DEF n
  <2> QED
    BY <2>1
<1> QED
  BY <1>2, <1>3, <1>6, <1>8, <1>9, <1>10, <1>11, <1>12 DEF HeaderInv

-----------------------------------------------------------------------------
\* What _finish_next makes of the pending schedule: it was promoted, it stays, or
\* the header brings a new one.
ScheduleStep(f, n) ==
    \/ /\ ScheduleMatures(hs, n.lib) /\ f.pending.producers = << >>
       /\ f.pending.version = hs.pending.version /\ f.pending.lib_num = hs.pending.lib_num
    \/ /\ ~ScheduleMatures(hs, n.lib) /\ f.pending.producers = hs.pending.producers
       /\ f.pending.version = hs.pending.version /\ f.pending.lib_num = hs.pending.lib_num
    \/ /\ hs.pending.producers = << >> /\ GoodSchedule(f.pending.producers)
       /\ f.pending.lib_num = n.block_num

\* The same for the pending rate.
RateStep(f, n) ==
    \/ /\ RateMatures(hs, n.lib) /\ f.pending_rate.rate = 0
       /\ f.pending_rate.version = hs.pending_rate.version
       /\ f.pending_rate.lib_num = hs.pending_rate.lib_num
    \/ /\ ~RateMatures(hs, n.lib) /\ f.pending_rate.rate = hs.pending_rate.rate
       /\ f.pending_rate.version = hs.pending_rate.version
       /\ f.pending_rate.lib_num = hs.pending_rate.lib_num
    \/ /\ hs.pending_rate.rate = 0 /\ f.pending_rate.rate \in PossibleRate
       /\ f.pending_rate.lib_num = n.block_num

\* The header finished from next()'s result n.
FinishesAs(f, n) ==
    /\ f.block_num = n.block_num /\ f.slot = n.slot /\ f.producer = n.producer
    /\ f.confirmed = n.confirmed /\ f.proposed_lib = n.proposed_lib /\ f.lib = n.lib
    /\ f.confirm_count = n.confirm_count /\ f.last_produced = n.last_produced
    /\ f.implied_irb = n.implied_irb /\ f.active = n.active /\ f.active_rate = n.active_rate

\* _finish_next copies next()'s result, and the pending schedule and rate step.
LEMMA FinishedHeader ==
    ASSUME NEW d, NEW c, NEW S, NEW R, NewSchedules(S), NewRates(R),
           NEW n, n = Started(d, c), NEW f, f = Finished(Extended(n, S, R))
    PROVE  FinishesAs(f, n) /\ ScheduleStep(f, n) /\ RateStep(f, n)
<1> DEFINE slot == (hs.slot + d) % SlotCycle
           b    == Extended(n, S, R)
<1>1. n = NextState(hs, slot, c)
  BY DEF Started
<1> HIDE DEF slot, b
<1>2. f = Finished(b) /\ b = Extended(n, S, R)
  BY DEF b
<1>3. /\ b.block_num = n.block_num /\ b.slot = n.slot /\ b.producer = n.producer
      /\ b.confirmed = n.confirmed /\ b.proposed_lib = n.proposed_lib /\ b.lib = n.lib
      /\ b.confirm_count = n.confirm_count /\ b.last_produced = n.last_produced
      /\ b.implied_irb = n.implied_irb /\ b.active = n.active /\ b.active_rate = n.active_rate
  BY <1>1, <1>2, ExtendedFields
<1>4. /\ b.prev_pending = hs.pending /\ b.prev_pending_rate = hs.pending_rate
      /\ b.was_pending_promoted = ScheduleMatures(hs, n.lib)
      /\ b.was_pending_rate_promoted = RateMatures(hs, n.lib)
      /\ b.new_schedule = S /\ b.new_rate = R
  BY <1>1, <1>2, ExtendedFields, NextFields
<1>5. FinishesAs(f, n)
  BY <1>2, <1>3, FinishedFields DEF FinishesAs
<1>6. ScheduleStep(f, n)
  <2>1. CASE S = {}
    <3>1. /\ f.pending.version = hs.pending.version /\ f.pending.lib_num = hs.pending.lib_num
          /\ f.pending.producers = IF ScheduleMatures(hs, n.lib) THEN << >>
                                   ELSE hs.pending.producers
      BY <1>2, <1>4, <2>1, FinishedOldSchedule
    <3> QED
      BY <3>1 DEF ScheduleStep
  <2>2. CASE S # {}
    <3>1. PICK v, s : GoodSchedule(s) /\ S = {[version |-> v, producers |-> s]}
      BY <2>2 DEF NewSchedules
    <3>2. hs.pending.producers = << >> /\ ~ScheduleMatures(hs, n.lib)
      BY <2>2 DEF NewSchedules, ScheduleMatures
    <3> DEFINE x == [version |-> v, producers |-> s]
    <3>3. x.producers = s
      OBVIOUS
    <3>4. b.new_schedule = {x} /\ ~b.was_pending_promoted
      BY <1>4, <3>1, <3>2
    <3> HIDE DEF x
    <3>5. f.pending.producers = x.producers /\ f.pending.lib_num = b.block_num
      BY <1>2, <3>4, FinishedNewSchedule
    <3> QED
      BY <1>3, <3>1, <3>2, <3>3, <3>5 DEF ScheduleStep
  <2> QED
    BY <2>1, <2>2
<1>7. RateStep(f, n)
  <2>1. CASE R = {}
    <3>1. /\ f.pending_rate.version = hs.pending_rate.version
          /\ f.pending_rate.lib_num = hs.pending_rate.lib_num
          /\ f.pending_rate.rate = IF RateMatures(hs, n.lib) THEN 0 ELSE hs.pending_rate.rate
      BY <1>2, <1>4, <2>1, FinishedOldRate
    <3> QED
      BY <3>1 DEF RateStep
  <2>2. CASE R # {}
    <3>1. PICK v : \E r \in PossibleRate : R = {[version |-> v, rate |-> r]}
      BY <2>2 DEF NewRates
    <3>2. PICK r \in PossibleRate : R = {[version |-> v, rate |-> r]}
      BY <3>1
    <3>3. hs.pending_rate.rate = 0 /\ ~RateMatures(hs, n.lib)
      BY <2>2 DEF NewRates, RateMatures
    <3> DEFINE x == [version |-> v, rate |-> r]
    <3>4. x.rate = r
      OBVIOUS
    <3>5. b.new_rate = {x} /\ ~b.was_pending_rate_promoted
      BY <1>4, <3>2, <3>3
    <3> HIDE DEF x
    <3>6. f.pending_rate.rate = x.rate /\ f.pending_rate.lib_num = b.block_num
      BY <1>2, <3>5, FinishedNewRate
    <3> QED
      BY <1>3, <3>3, <3>4, <3>6 DEF RateStep
  <2> QED
    BY <2>1, <2>2
<1> QED
  BY <1>5, <1>6, <1>7

\* Every step of FinishNext comes from a block that start_block has begun.
LEMMA FinishStep ==
    ASSUME BuildingInv, FinishNext
    PROVE  \E d \in 1 .. MaxSkip, c \in 0 .. MaxConfirmed : \E S, R, n :
             /\ BuildingOf(d, c, S, R) /\ n = Started(d, c)
             /\ hs' = Finished(Extended(n, S, R)) /\ building' = {}
             /\ FinishesAs(hs', n) /\ ScheduleStep(hs', n) /\ RateStep(hs', n)
             /\ upTo' = [upTo EXCEPT ![n.producer] = n.block_num]
             /\ UNCHANGED <<sched, rate>>
<1>1. PICK b \in building :
         /\ hs' = Finished(b) /\ building' = {} /\ UNCHANGED <<sched, rate>>
         /\ upTo' = [upTo EXCEPT ![b.producer] = b.block_num]
  BY DEF FinishNext
<1>2. PICK d \in 1 .. MaxSkip, c \in 0 .. MaxConfirmed : \E S, R : BuildingOf(d, c, S, R)
  BY <1>1 DEF BuildingInv
<1>3. PICK S, R : BuildingOf(d, c, S, R)
  BY <1>2
<1> DEFINE n == Started(d, c)
<1>4. b = Extended(n, S, R)
  BY <1>1, <1>3 DEF BuildingOf
<1>5. b.producer = n.producer /\ b.block_num = n.block_num
  BY <1>4, ExtendedFields DEF Started
<1>6. NewSchedules(S) /\ NewRates(R)
  BY <1>3 DEF BuildingOf
<1>7. n = Started(d, c)
  OBVIOUS
<1> HIDE DEF n
<1>8. FinishesAs(hs', n) /\ ScheduleStep(hs', n) /\ RateStep(hs', n)
  BY <1>1, <1>4, <1>6, <1>7, FinishedHeader
<1> QED
  BY <1>1, <1>3, <1>4, <1>5, <1>7, <1>8

-----------------------------------------------------------------------------
\* The first header state has the types and the order of the numbers.
LEMMA HeaderInit == Init => HeaderTypeInv
<1> SUFFICES ASSUME Init
             PROVE  HeaderTypeInv
  OBVIOUS
<1>1. /\ hs.block_num = 1 /\ hs.slot = 0 /\ hs.producer = SystemAccount /\ hs.confirmed = 0
      /\ hs.proposed_lib = 0 /\ hs.lib = 0 /\ hs.confirm_count = << >>
      /\ hs.last_produced = << >> /\ hs.implied_irb = << >>
      /\ hs.active.producers = <<SystemAccount>> /\ hs.pending.producers = <<SystemAccount>>
      /\ hs.pending.lib_num = 0 /\ hs.pending_rate.rate = 1 /\ hs.pending_rate.lib_num = 0
  BY DEF Init
<1>2. DposInv(hs)
  <2>1. << >> \in Seq(Byte) /\ Len(<< >>) = 0 /\ DOMAIN << >> = {}
    BY EmptySeq
  <2>2. IsFiniteSet({})
    BY FS_EmptySet
  <2>3. hs.implied_irb \in [DOMAIN hs.implied_irb -> Nat]
    BY <1>1
  <2>4. MaxTracked \in Nat
    BY WidthAssumption
  <2> QED
    BY <1>1, <2>1, <2>2, <2>3, <2>4 DEF DposInv
<1>3. HeaderInv(hs)
  <2>1. /\ hs.block_num \in 1 .. MaxBlockNum /\ hs.slot \in 0 .. SlotCycle - 1
        /\ hs.producer \in Producer /\ hs.confirmed \in 0 .. MaxConfirmed
    BY <1>1, BoundAssumption, ScheduleAssumption
  <2>2. /\ DOMAIN hs.last_produced = {} /\ DOMAIN hs.implied_irb = {}
        /\ hs.last_produced \in [DOMAIN hs.last_produced -> Nat]
    BY <1>1
  <2>3. GoodSchedule(hs.active.producers) /\ hs.active.producers # << >>
    BY <1>1, FirstSchedules
  <2> QED
    BY <1>2, <2>1, <2>2, <2>3 DEF HeaderInv
<1>4. FinishedInv
  BY <1>1, <1>3, FirstSchedules DEF FinishedInv, PossibleRate
<1>5. ProposalInv
  BY FirstSchedules DEF Init, NoSchedule, NoRate, ProposalInv, PossibleRate
<1>6. BuildingInv
  BY DEF Init, BuildingInv
<1>7. upTo \in [Producer -> 0 .. MaxBlockNum]
  BY BoundAssumption DEF Init
<1> QED
  BY <1>4, <1>5, <1>6, <1>7 DEF HeaderTypeInv

\* The schedule a proposal carries when it becomes pending, and the rate.
LEMMA StartedProposals ==
    ASSUME ProposalInv, NEW b, NEW S, NEW R,
           \/ S = {}
           \/ /\ SchedulePromoted(hs, b)
              /\ S = {[version |-> sched.version, producers |-> sched.producers]},
           \/ R = {}
           \/ RatePromoted(hs, b) /\ R = {[version |-> rate.version, rate |-> rate.rate]}
    PROVE  NewSchedules(S) /\ NewRates(R)
<1>1. NewSchedules(S)
  BY DEF ProposalInv, SchedulePromoted, NewSchedules
<1>2. NewRates(R)
  BY DEF ProposalInv, RatePromoted, NewRates
<1> QED
  BY <1>1, <1>2

\* What start_block does.
LEMMA StartStep ==
    ASSUME ProposalInv, NEW d \in 1 .. MaxSkip, NEW c \in 0 .. MaxConfirmed, StartBlock(d, c)
    PROVE  \E S, R :
             /\ BuildingOf(d, c, S, R)' /\ UNCHANGED <<hs, upTo>> /\ building = {}
             /\ NewSchedules(S) /\ NewRates(R)
             /\ \/ sched' = NoSchedule
                \/ sched' = sched /\ S = {}
             /\ \/ rate' = NoRate
                \/ rate' = rate /\ R = {}
<1>1. PICK b, S, R :
         /\ b = Started(d, c)
         /\ S = IF SchedulePromoted(hs, b)
                THEN {[version |-> sched.version, producers |-> sched.producers]} ELSE {}
         /\ R = IF RatePromoted(hs, b)
                THEN {[version |-> rate.version, rate |-> rate.rate]} ELSE {}
  OBVIOUS
<1>2. /\ building = {} /\ hs.block_num < MaxBlockNum
      /\ ConfirmAccepted(hs, b.producer, c)
      /\ HonestConfirms => c = BlocksToConfirm(hs, upTo[b.producer])
      /\ building' = {[b EXCEPT !.new_schedule = S, !.new_rate = R]}
      /\ sched' = IF SchedulePromoted(hs, b) THEN NoSchedule ELSE sched
      /\ rate' = IF RatePromoted(hs, b) THEN NoRate ELSE rate
      /\ UNCHANGED <<hs, upTo>>
  BY <1>1 DEF StartBlock, Started
<1>3. /\ sched' = NoSchedule \/ (sched' = sched /\ S = {})
      /\ rate' = NoRate \/ (rate' = rate /\ R = {})
  BY <1>1, <1>2
<1>4. building' = {Extended(b, S, R)} /\ MayConfirm(b.producer, c)
  BY <1>2 DEF Extended, MayConfirm
<1>5. NewSchedules(S) /\ NewRates(R)
  BY <1>1, StartedProposals
<1>6. b = Started(d, c)'
  BY <1>1, <1>2 DEF Started
<1>7. NewSchedules(S)' /\ NewRates(R)'
  BY <1>2, <1>5 DEF NewSchedules, NewRates
<1>8. MayConfirm(b.producer, c)'
  BY <1>2, <1>4 DEF MayConfirm
<1>9. BuildingOf(d, c, S, R)'
  BY <1>2, <1>4, <1>6, <1>7, <1>8 DEF BuildingOf
<1> QED
  BY <1>2, <1>3, <1>5, <1>9

\* start_block keeps the type invariant,
LEMMA StartKeepsTypes ==
    ASSUME HeaderTypeInv, NEW d \in 1 .. MaxSkip, NEW c \in 0 .. MaxConfirmed, StartBlock(d, c)
    PROVE  HeaderTypeInv'
<1>1. PICK S, R : /\ BuildingOf(d, c, S, R)' /\ UNCHANGED <<hs, upTo>>
                  /\ sched' = NoSchedule \/ sched' = sched
                  /\ rate' = NoRate \/ rate' = rate
  BY StartStep DEF HeaderTypeInv
<1>2. FinishedInv' /\ (upTo \in [Producer -> 0 .. MaxBlockNum])'
  BY <1>1 DEF HeaderTypeInv, FinishedInv
<1>3. BuildingInv'
  BY <1>1 DEF BuildingInv
<1>4. (sched.block_num \in Nat /\ GoodSchedule(sched.producers))'
  BY <1>1, FirstSchedules DEF HeaderTypeInv, ProposalInv, NoSchedule
<1>5. (rate.block_num \in Nat /\ rate.rate \in PossibleRate)'
  BY <1>1 DEF HeaderTypeInv, ProposalInv, NoRate, PossibleRate
<1> QED
  BY <1>2, <1>3, <1>4, <1>5 DEF HeaderTypeInv, ProposalInv

\* a step that leaves the headers alone does too,
LEMMA QuietStep ==
    ASSUME HeaderTypeInv, UNCHANGED <<hs, building, upTo>>
    PROVE  FinishedInv' /\ BuildingInv' /\ (upTo \in [Producer -> 0 .. MaxBlockNum])'
<1>1. FinishedInv' /\ (upTo \in [Producer -> 0 .. MaxBlockNum])'
  BY DEF HeaderTypeInv, FinishedInv
<1>2. ASSUME building' # {}
      PROVE  \E d \in 1 .. MaxSkip, c \in 0 .. MaxConfirmed : \E S, R : BuildingOf(d, c, S, R)'
  <2>1. PICK d \in 1 .. MaxSkip, c \in 0 .. MaxConfirmed : \E S, R : BuildingOf(d, c, S, R)
    BY <1>2 DEF HeaderTypeInv, BuildingInv
  <2>2. PICK S, R : BuildingOf(d, c, S, R)
    BY <2>1
  <2>3. PICK n : n = Started(d, c)
    OBVIOUS
  <2>4. n = Started(d, c)'
    BY <2>3 DEF Started
  <2>5. MayConfirm(n.producer, c)' /\ NewSchedules(S)' /\ NewRates(R)'
    BY <2>2, <2>3 DEF BuildingOf, MayConfirm, NewSchedules, NewRates
  <2>6. BuildingOf(d, c, S, R)'
    BY <2>2, <2>3, <2>4, <2>5 DEF BuildingOf
  <2> QED
    BY <2>6
<1> QED
  BY <1>1, <1>2 DEF BuildingInv

\* and so do proposals,
LEMMA ProposalsKeepTypes ==
    ASSUME HeaderTypeInv,
           \/ \E s \in Schedules : SetProposedProducers(s)
           \/ \E r \in RateValues : SetProposedRate(r)
    PROVE  HeaderTypeInv' /\ UNCHANGED <<hs, building, upTo>>
<1>1. \A b \in building : b.block_num \in Nat
  <2> SUFFICES ASSUME NEW b \in building
               PROVE  b.block_num \in Nat
    OBVIOUS
  <2>1. PICK d \in 1 .. MaxSkip, c \in 0 .. MaxConfirmed : \E S, R : BuildingOf(d, c, S, R)
    BY DEF HeaderTypeInv, BuildingInv
  <2>2. PICK S, R : BuildingOf(d, c, S, R)
    BY <2>1
  <2>3. b = Extended(Started(d, c), S, R)
    BY <2>2 DEF BuildingOf
  <2>4. b.block_num = Started(d, c).block_num
    BY <2>3, ExtendedFields DEF Started
  <2>5. Started(d, c).block_num = hs.block_num + 1 /\ hs.block_num \in Nat
    BY NextFields DEF Started, HeaderTypeInv, FinishedInv, HeaderInv, DposInv
  <2> QED
    BY <2>4, <2>5
<1>2. UNCHANGED <<hs, building, upTo>>
  BY DEF SetProposedProducers, SetProposedRate
<1>3. FinishedInv' /\ BuildingInv' /\ (upTo \in [Producer -> 0 .. MaxBlockNum])'
  BY <1>2, QuietStep
<1>4. (sched.block_num \in Nat /\ GoodSchedule(sched.producers))'
  <2>1. CASE \E s \in Schedules : SetProposedProducers(s)
    <3>1. PICK s \in Schedules : SetProposedProducers(s)
      BY <2>1
    <3>2. GoodSchedule(s)
      BY ScheduleAssumption DEF GoodSchedule
    <3>3. sched'.block_num \in Nat /\ sched'.producers = s
      BY <1>1, <3>1 DEF SetProposedProducers
    <3> QED
      BY <3>2, <3>3
  <2>2. CASE \E r \in RateValues : SetProposedRate(r)
    BY <2>2 DEF SetProposedRate, HeaderTypeInv, ProposalInv
  <2> QED
    BY <2>1, <2>2
<1>5. (rate.block_num \in Nat /\ rate.rate \in PossibleRate)'
  <2>1. CASE \E s \in Schedules : SetProposedProducers(s)
    BY <2>1 DEF SetProposedProducers, HeaderTypeInv, ProposalInv
  <2>2. CASE \E r \in RateValues : SetProposedRate(r)
    <3>1. PICK r \in RateValues : SetProposedRate(r)
      BY <2>2
    <3>2. rate'.block_num \in Nat /\ rate'.rate = r
      BY <1>1, <3>1 DEF SetProposedRate
    <3> QED
      BY <3>2 DEF PossibleRate
  <2> QED
    BY <2>1, <2>2
<1> QED
  BY <1>2, <1>3, <1>4, <1>5 DEF HeaderTypeInv, ProposalInv

\* and _finish_next.
LEMMA FinishKeepsTypes ==
    ASSUME HeaderTypeInv, FinishNext
    PROVE  HeaderTypeInv'
<1>1. PICK d \in 1 .. MaxSkip, c \in 0 .. MaxConfirmed : \E S, R, n :
         /\ BuildingOf(d, c, S, R) /\ n = Started(d, c) /\ building' = {}
         /\ FinishesAs(hs', n) /\ ScheduleStep(hs', n) /\ RateStep(hs', n)
         /\ upTo' = [upTo EXCEPT ![n.producer] = n.block_num]
         /\ UNCHANGED <<sched, rate>>
  BY FinishStep DEF HeaderTypeInv
<1>2. PICK n : /\ hs.block_num < MaxBlockNum /\ n = Started(d, c) /\ building' = {}
               /\ FinishesAs(hs', n) /\ ScheduleStep(hs', n) /\ RateStep(hs', n)
               /\ upTo' = [upTo EXCEPT ![n.producer] = n.block_num]
               /\ UNCHANGED <<sched, rate>>
  BY <1>1 DEF BuildingOf
<1>3. HeaderInv(n)
  BY <1>2, StartedInv DEF HeaderTypeInv
<1>4. HeaderInv(hs')
  BY <1>2, <1>3 DEF HeaderInv, FinishesAs, DposInv
<1>5. n.block_num \in Nat /\ n.block_num \in 0 .. MaxBlockNum
  BY <1>3 DEF HeaderInv, DposInv
<1>6. GoodSchedule(hs'.pending.producers) /\ hs'.pending.lib_num \in Nat
  BY <1>2, <1>5, FirstSchedules DEF ScheduleStep, HeaderTypeInv, FinishedInv
<1>7. hs'.pending_rate.rate \in PossibleRate /\ hs'.pending_rate.lib_num \in Nat
  <2>1. 0 \in PossibleRate
    BY DEF PossibleRate
  <2> QED
    BY <1>2, <1>5, <2>1 DEF RateStep, HeaderTypeInv, FinishedInv
<1>8. upTo' \in [Producer -> 0 .. MaxBlockNum]
  BY <1>2, <1>5 DEF HeaderTypeInv
<1>9. ProposalInv' /\ BuildingInv'
  BY <1>2 DEF HeaderTypeInv, ProposalInv, BuildingInv
<1> QED
  BY <1>4, <1>6, <1>7, <1>8, <1>9 DEF HeaderTypeInv, FinishedInv

\* The type invariant is inductive.
LEMMA HeaderNext == HeaderTypeInv /\ [Next]_vars => HeaderTypeInv'
<1> SUFFICES ASSUME HeaderTypeInv, [Next]_vars
             PROVE  HeaderTypeInv'
  OBVIOUS
<1>1. CASE \E d \in 1 .. MaxSkip, c \in 0 .. MaxConfirmed : StartBlock(d, c)
  BY <1>1, StartKeepsTypes
<1>2. CASE \E s \in Schedules : SetProposedProducers(s)
  BY <1>2, ProposalsKeepTypes
<1>3. CASE \E r \in RateValues : SetProposedRate(r)
  BY <1>3, ProposalsKeepTypes
<1>4. CASE FinishNext
  BY <1>4, FinishKeepsTypes
<1>5. CASE UNCHANGED vars
  <2>1. UNCHANGED <<hs, building, upTo>> /\ UNCHANGED <<sched, rate>>
    BY <1>5 DEF vars
  <2>2. FinishedInv' /\ BuildingInv' /\ (upTo \in [Producer -> 0 .. MaxBlockNum])'
    BY <2>1, QuietStep
  <2>3. ProposalInv'
    BY <2>1 DEF HeaderTypeInv, ProposalInv
  <2> QED
    BY <2>2, <2>3 DEF HeaderTypeInv
<1> QED
  BY <1>1, <1>2, <1>3, <1>4, <1>5 DEF Next

\* The type invariant always holds.
LEMMA HeaderTypes == Spec => []HeaderTypeInv
  BY HeaderInit, HeaderNext, PTL DEF Spec

\* The members of block_header_state have their types on every branch, and
\* confirm_count never outgrows the number tracked.
THEOREM HeaderTypeCorrect == Spec => []TypeOK
<1>1. HeaderTypeInv => TypeOK
  <2> SUFFICES ASSUME HeaderTypeInv
               PROVE  TypeOK
    OBVIOUS
  <2>1. /\ hs.block_num \in 1 .. MaxBlockNum /\ hs.slot \in 0 .. SlotCycle - 1
        /\ hs.producer \in Producer /\ hs.confirmed \in 0 .. MaxConfirmed
        /\ hs.proposed_lib \in Nat /\ hs.lib \in Nat
        /\ hs.confirm_count \in Seq(0 .. 255) /\ Len(hs.confirm_count) <= MaxTracked
    BY DEF HeaderTypeInv, FinishedInv, HeaderInv, DposInv, Byte
  <2>2. /\ DOMAIN hs.last_produced \subseteq Producer /\ DOMAIN hs.implied_irb \subseteq Producer
        /\ hs.last_produced \in [DOMAIN hs.last_produced -> Nat]
        /\ hs.implied_irb \in [DOMAIN hs.implied_irb -> Nat]
    BY DEF HeaderTypeInv, FinishedInv, HeaderInv, DposInv
  <2>3. Range(hs.last_produced) \subseteq Nat /\ Range(hs.implied_irb) \subseteq Nat
    BY <2>2 DEF Range
  <2>4. Cardinality(building) <= 1
    <3>1. building = {} \/ \E b : building = {b}
      BY DEF HeaderTypeInv, BuildingInv, BuildingOf
    <3> QED
      BY <3>1, FS_EmptySet, FS_Singleton
  <2>5. sched.block_num \in Nat /\ rate.block_num \in Nat /\ upTo \in [Producer -> 0 .. MaxBlockNum]
    BY DEF HeaderTypeInv, ProposalInv
  <2> QED
    BY <2>1, <2>2, <2>3, <2>4, <2>5 DEF TypeOK
<1> QED
  BY <1>1, HeaderTypes, PTL

\* No block declares itself irreversible: on a branch of any length, with any
\* schedules and confirmations, calc_dpos_last_irreversible returns at most the
\* proposed lib, and that is at most the block's own number.
THEOREM HeaderLibBehindProposed == Spec => []LibBehindProposed
<1>1. HeaderTypeInv => LibBehindProposed
  BY DEF HeaderTypeInv, FinishedInv, HeaderInv, DposInv, LibBehindProposed
<1> QED
  BY <1>1, HeaderTypes, PTL

-----------------------------------------------------------------------------
\* The version of the schedule that a new proposal follows, and of the rate.
CurrentVersion(h) ==
    IF h.pending.producers = << >> THEN h.active.version ELSE h.pending.version

CurrentRateVersion(h) ==
    IF h.pending_rate.rate = 0 THEN h.active_rate.version ELSE h.pending_rate.version

\* What waits in the global property object follows what is pending or active on
\* the branch, and on the branch with the block that is being built.
VersionInv ==
    /\ sched.block_num # 0 =>
         /\ building = {} => sched.version = CurrentVersion(hs) + 1
         /\ \A b \in building : sched.version = CurrentVersion(Finished(b)) + 1
    /\ rate.block_num # 0 =>
         /\ building = {} => rate.version = CurrentRateVersion(hs) + 1
         /\ \A b \in building : rate.version = CurrentRateVersion(Finished(b)) + 1

\* A block that makes no new schedule pending leaves the version to follow, even
\* if it promotes the pending one,
LEMMA CurrentKept ==
    ASSUME NEW d, NEW c, NEW R, NEW f, f = Finished(Extended(Started(d, c), {}, R))
    PROVE  CurrentVersion(f) = CurrentVersion(hs)
<1>1. PICK slot, n, b : /\ n = Started(d, c) /\ n = NextState(hs, slot, c)
                        /\ b = Extended(n, {}, R) /\ f = Finished(b)
  BY DEF Started
<1>2. /\ b.active = n.active /\ b.new_schedule = {}
      /\ b.prev_pending = n.prev_pending /\ b.was_pending_promoted = n.was_pending_promoted
  BY <1>1, ExtendedFields
<1>3. n.prev_pending = hs.pending /\ n.was_pending_promoted = ScheduleMatures(hs, n.lib)
  BY <1>1, NextFields
<1>4. /\ ScheduleMatures(hs, n.lib) => n.active.version = hs.pending.version
      /\ ~ScheduleMatures(hs, n.lib) => n.active = hs.active
  BY <1>1, NextActive
<1>5. f.active = b.active
  BY <1>1, FinishedFields
<1>6. /\ f.pending.version = b.prev_pending.version
      /\ f.pending.producers = IF b.was_pending_promoted THEN << >> ELSE b.prev_pending.producers
  BY <1>1, <1>2, FinishedOldSchedule
<1>7. ScheduleMatures(hs, n.lib) => hs.pending.producers # << >>
  BY DEF ScheduleMatures
<1>8. CASE ScheduleMatures(hs, n.lib)
  <2>1. f.pending.producers = << >> /\ f.active.version = hs.pending.version
    BY <1>2, <1>3, <1>4, <1>5, <1>6, <1>8
  <2> QED
    BY <1>7, <1>8, <2>1 DEF CurrentVersion
<1>9. CASE ~ScheduleMatures(hs, n.lib)
  <2>1. /\ f.pending.producers = hs.pending.producers /\ f.active.version = hs.active.version
        /\ f.pending.version = hs.pending.version
    BY <1>2, <1>3, <1>4, <1>5, <1>6, <1>9
  <2> QED
    BY <2>1 DEF CurrentVersion
<1> QED
  BY <1>8, <1>9

\* and the same for rates.
LEMMA CurrentRateKept ==
    ASSUME NEW d, NEW c, NEW S, NEW f, f = Finished(Extended(Started(d, c), S, {}))
    PROVE  CurrentRateVersion(f) = CurrentRateVersion(hs)
<1>1. PICK slot, n, b : /\ n = Started(d, c) /\ n = NextState(hs, slot, c)
                        /\ b = Extended(n, S, {}) /\ f = Finished(b)
  BY DEF Started
<1>2. /\ b.active_rate = n.active_rate /\ b.new_rate = {}
      /\ b.prev_pending_rate = n.prev_pending_rate
      /\ b.was_pending_rate_promoted = n.was_pending_rate_promoted
  BY <1>1, ExtendedFields
<1>3. /\ n.prev_pending_rate = hs.pending_rate
      /\ n.was_pending_rate_promoted = RateMatures(hs, n.lib)
  BY <1>1, NextFields
<1>4. /\ RateMatures(hs, n.lib) => n.active_rate.version = hs.pending_rate.version
      /\ ~RateMatures(hs, n.lib) => n.active_rate = hs.active_rate
  BY <1>1, NextActive
<1>5. f.active_rate = b.active_rate
  BY <1>1, FinishedFields
<1>6. /\ f.pending_rate.version = b.prev_pending_rate.version
      /\ f.pending_rate.rate = IF b.was_pending_rate_promoted THEN 0 ELSE b.prev_pending_rate.rate
  BY <1>1, <1>2, FinishedOldRate
<1>7. RateMatures(hs, n.lib) => hs.pending_rate.rate # 0
  BY DEF RateMatures
<1>8. CASE RateMatures(hs, n.lib)
  <2>1. f.pending_rate.rate = 0 /\ f.active_rate.version = hs.pending_rate.version
    BY <1>2, <1>3, <1>4, <1>5, <1>6, <1>8
  <2> QED
    BY <1>7, <1>8, <2>1 DEF CurrentRateVersion
<1>9. CASE ~RateMatures(hs, n.lib)
  <2>1. /\ f.pending_rate.rate = hs.pending_rate.rate
        /\ f.active_rate.version = hs.active_rate.version
        /\ f.pending_rate.version = hs.pending_rate.version
    BY <1>2, <1>3, <1>4, <1>5, <1>6, <1>9
  <2> QED
    BY <2>1 DEF CurrentRateVersion
<1> QED
  BY <1>8, <1>9

\* While a block is being built, set_proposed_producers follows the schedule that
\* will be current when the block is finished,
LEMMA CurrentWhileBuilding ==
    ASSUME BuildingInv, NEW b \in building
    PROVE  CurrentVersion(Finished(b)) =
             (IF PendingProducers(b).producers = << >> THEN b.active
                                                       ELSE PendingProducers(b)).version
<1>1. PICK d \in 1 .. MaxSkip, c \in 0 .. MaxConfirmed : \E S, R : BuildingOf(d, c, S, R)
  BY DEF BuildingInv
<1>2. PICK S, R : BuildingOf(d, c, S, R)
  BY <1>1
<1>3. PICK slot, n, f : /\ n = NextState(hs, slot, c) /\ b = Extended(n, S, R)
                        /\ f = Finished(b) /\ NewSchedules(S)
  BY <1>2 DEF BuildingOf, Started
<1>4. /\ b.active = n.active /\ b.new_schedule = S
      /\ b.prev_pending = n.prev_pending /\ b.was_pending_promoted = n.was_pending_promoted
  BY <1>3, ExtendedFields
<1>5. n.prev_pending = hs.pending /\ n.was_pending_promoted = ScheduleMatures(hs, n.lib)
  BY <1>3, NextFields
<1>6. ScheduleMatures(hs, n.lib) => n.active.version = hs.pending.version
  BY <1>3, NextActive
<1>7. f.active = b.active
  BY <1>3, FinishedFields
<1>8. ScheduleMatures(hs, n.lib) => hs.pending.producers # << >>
  BY DEF ScheduleMatures
<1>9. CASE S = {}
  <2>1. PendingProducers(b) = hs.pending
    BY <1>4, <1>5, <1>9 DEF PendingProducers
  <2>2. /\ f.pending.version = b.prev_pending.version
        /\ f.pending.producers = IF b.was_pending_promoted THEN << >> ELSE b.prev_pending.producers
    BY <1>3, <1>4, <1>9, FinishedOldSchedule
  <2>3. CASE ScheduleMatures(hs, n.lib)
    <3>1. f.pending.producers = << >> /\ f.active.version = hs.pending.version
      BY <1>4, <1>5, <1>6, <1>7, <2>2, <2>3
    <3> QED
      BY <1>3, <1>8, <2>1, <2>3, <3>1 DEF CurrentVersion
  <2>4. CASE ~ScheduleMatures(hs, n.lib)
    <3>1. f.pending.producers = hs.pending.producers /\ f.pending.version = hs.pending.version
      BY <1>4, <1>5, <2>2, <2>4
    <3> QED
      BY <1>3, <1>7, <2>1, <3>1 DEF CurrentVersion
  <2> QED
    BY <2>3, <2>4
<1>10. CASE S # {}
  <2>1. PICK x : S = {x} /\ hs.pending.producers = << >>
    BY <1>3, <1>10 DEF NewSchedules
  <2>2. ~b.was_pending_promoted /\ b.new_schedule = {x}
    BY <1>4, <1>5, <1>8, <2>1
  <2>3. f.pending.version = x.version /\ f.pending.producers = x.producers
    BY <1>3, <2>2, FinishedNewSchedule
  <2>4. PendingProducers(b) = x
    BY <2>2 DEF PendingProducers
  <2> QED
    BY <1>3, <1>7, <2>3, <2>4 DEF CurrentVersion
<1> QED
  BY <1>9, <1>10

\* and so does set_proposed_rate.
LEMMA CurrentRateWhileBuilding ==
    ASSUME BuildingInv, NEW b \in building
    PROVE  CurrentRateVersion(Finished(b)) =
             (IF PendingRate(b).rate = 0 THEN b.active_rate ELSE PendingRate(b)).version
<1>1. PICK d \in 1 .. MaxSkip, c \in 0 .. MaxConfirmed : \E S, R : BuildingOf(d, c, S, R)
  BY DEF BuildingInv
<1>2. PICK S, R : BuildingOf(d, c, S, R)
  BY <1>1
<1>3. PICK slot, n, f : /\ n = NextState(hs, slot, c) /\ b = Extended(n, S, R)
                        /\ f = Finished(b) /\ NewRates(R)
  BY <1>2 DEF BuildingOf, Started
<1>4. /\ b.active_rate = n.active_rate /\ b.new_rate = R
      /\ b.prev_pending_rate = n.prev_pending_rate
      /\ b.was_pending_rate_promoted = n.was_pending_rate_promoted
  BY <1>3, ExtendedFields
<1>5. /\ n.prev_pending_rate = hs.pending_rate
      /\ n.was_pending_rate_promoted = RateMatures(hs, n.lib)
  BY <1>3, NextFields
<1>6. RateMatures(hs, n.lib) => n.active_rate.version = hs.pending_rate.version
  BY <1>3, NextActive
<1>7. f.active_rate = b.active_rate
  BY <1>3, FinishedFields
<1>8. RateMatures(hs, n.lib) => hs.pending_rate.rate # 0
  BY DEF RateMatures
<1>9. CASE R = {}
  <2>1. PendingRate(b) = hs.pending_rate
    BY <1>4, <1>5, <1>9 DEF PendingRate
  <2>2. /\ f.pending_rate.version = b.prev_pending_rate.version
        /\ f.pending_rate.rate = IF b.was_pending_rate_promoted THEN 0
                                 ELSE b.prev_pending_rate.rate
    BY <1>3, <1>4, <1>9, FinishedOldRate
  <2>3. CASE RateMatures(hs, n.lib)
    <3>1. f.pending_rate.rate = 0 /\ f.active_rate.version = hs.pending_rate.version
      BY <1>4, <1>5, <1>6, <1>7, <2>2, <2>3
    <3> QED
      BY <1>3, <1>8, <2>1, <2>3, <3>1 DEF CurrentRateVersion
  <2>4. CASE ~RateMatures(hs, n.lib)
    <3>1. /\ f.pending_rate.rate = hs.pending_rate.rate
          /\ f.pending_rate.version = hs.pending_rate.version
      BY <1>4, <1>5, <2>2, <2>4
    <3> QED
      BY <1>3, <1>7, <2>1, <3>1 DEF CurrentRateVersion
  <2> QED
    BY <2>3, <2>4
<1>10. CASE R # {}
  <2>1. PICK x : R = {x} /\ hs.pending_rate.rate = 0
    BY <1>3, <1>10 DEF NewRates
  <2>2. ~b.was_pending_rate_promoted /\ b.new_rate = {x}
    BY <1>4, <1>5, <1>8, <2>1
  <2>3. f.pending_rate.version = x.version /\ f.pending_rate.rate = x.rate
    BY <1>3, <2>2, FinishedNewRate
  <2>4. PendingRate(b) = x
    BY <2>2 DEF PendingRate
  <2> QED
    BY <1>3, <1>7, <2>3, <2>4 DEF CurrentRateVersion
<1> QED
  BY <1>9, <1>10

\* The versions of the proposals are inductive.
LEMMA VersionNext == HeaderTypeInv /\ VersionInv /\ [Next]_vars => VersionInv'
<1> SUFFICES ASSUME HeaderTypeInv, VersionInv, [Next]_vars
             PROVE  VersionInv'
  OBVIOUS
<1> BuildingInv /\ ProposalInv
  BY DEF HeaderTypeInv
<1>1. ASSUME NEW d \in 1 .. MaxSkip, NEW c \in 0 .. MaxConfirmed, StartBlock(d, c)
      PROVE  VersionInv'
  <2>1. PICK S, R : /\ BuildingOf(d, c, S, R)' /\ UNCHANGED <<hs, upTo>> /\ building = {}
                    /\ \/ sched' = NoSchedule
                       \/ sched' = sched /\ S = {}
                    /\ \/ rate' = NoRate
                       \/ rate' = rate /\ R = {}
    BY <1>1, StartStep
  <2>2. PICK n, b : n = Started(d, c) /\ b = Extended(n, S, R)
    OBVIOUS
  <2>3. building' = {b}
    <3>1. n = Started(d, c)'
      BY <2>1, <2>2 DEF Started
    <3> QED
      BY <2>1, <2>2, <3>1 DEF BuildingOf
  <2>4. S = {} => CurrentVersion(Finished(b)) = CurrentVersion(hs)
    BY <2>2, CurrentKept
  <2>5. R = {} => CurrentRateVersion(Finished(b)) = CurrentRateVersion(hs)
    BY <2>2, CurrentRateKept
  <2>6. sched'.block_num # 0 => sched'.version = CurrentVersion(Finished(b)) + 1
    BY <2>1, <2>4 DEF VersionInv, NoSchedule
  <2>7. rate'.block_num # 0 => rate'.version = CurrentRateVersion(Finished(b)) + 1
    BY <2>1, <2>5 DEF VersionInv, NoRate
  <2> QED
    BY <2>3, <2>6, <2>7 DEF VersionInv
<1>2. ASSUME NEW s \in Schedules, SetProposedProducers(s)
      PROVE  VersionInv'
  <2>1. PICK b \in building :
           /\ sched'.version = (IF PendingProducers(b).producers = << >> THEN b.active
                                ELSE PendingProducers(b)).version + 1
           /\ UNCHANGED <<hs, building, rate, upTo>>
    BY <1>2 DEF SetProposedProducers
  <2>2. sched'.version = CurrentVersion(Finished(b)) + 1
    BY <2>1, CurrentWhileBuilding
  <2>3. building = {b}
    BY <2>1 DEF BuildingInv, BuildingOf
  <2> QED
    BY <2>1, <2>2, <2>3 DEF VersionInv
<1>3. ASSUME NEW r \in RateValues, SetProposedRate(r)
      PROVE  VersionInv'
  <2>1. PICK b \in building :
           /\ rate'.version = (IF PendingRate(b).rate = 0 THEN b.active_rate
                               ELSE PendingRate(b)).version + 1
           /\ UNCHANGED <<hs, building, sched, upTo>>
    BY <1>3 DEF SetProposedRate
  <2>2. rate'.version = CurrentRateVersion(Finished(b)) + 1
    BY <2>1, CurrentRateWhileBuilding
  <2>3. building = {b}
    BY <2>1 DEF BuildingInv, BuildingOf
  <2> QED
    BY <2>1, <2>2, <2>3 DEF VersionInv
<1>4. ASSUME FinishNext
      PROVE  VersionInv'
  <2>1. PICK b \in building : hs' = Finished(b) /\ building' = {} /\ UNCHANGED <<sched, rate>>
    BY <1>4 DEF FinishNext
  <2> QED
    BY <2>1 DEF VersionInv
<1>5. CASE UNCHANGED vars
  BY <1>5 DEF vars, VersionInv
<1> QED
  BY <1>1, <1>2, <1>3, <1>4, <1>5 DEF Next

\* They always hold.
LEMMA Versions == Spec => []VersionInv
<1>1. Init => VersionInv
  BY DEF Init, VersionInv, NoSchedule, NoRate
<1> QED
  BY <1>1, VersionNext, HeaderTypes, PTL DEF Spec

\* The asserts of start_block and _finish_next on the versions of a schedule or a
\* rate that is due never fail, whatever the transactions of whichever blocks
\* have proposed: no proposal stops the chain.
THEOREM HeaderPromotionNeverThrows == Spec => []PromotionNeverThrows
<1>1. VersionInv => PromotionNeverThrows
  <2> SUFFICES ASSUME VersionInv, building = {}, NEW d \in 1 .. MaxSkip,
                      NEW b, b = NextState(hs, (hs.slot + d) % SlotCycle, 0)
               PROVE  /\ SchedulePromoted(hs, b) =>
                           /\ ScheduleVersionMatches(hs)
                           /\ sched.version = b.active.version + 1 /\ ~b.was_pending_promoted
                      /\ RatePromoted(hs, b) =>
                           /\ RateVersionMatches(hs)
                           /\ rate.version = b.active_rate.version + 1
                           /\ ~b.was_pending_rate_promoted
    BY DEF PromotionNeverThrows
  <2>1. /\ b.was_pending_promoted = ScheduleMatures(hs, b.lib)
        /\ b.was_pending_rate_promoted = RateMatures(hs, b.lib)
    BY NextFields
  <2>2. /\ ~ScheduleMatures(hs, b.lib) => b.active = hs.active
        /\ ~RateMatures(hs, b.lib) => b.active_rate = hs.active_rate
    BY NextActive
  <2>3. ASSUME SchedulePromoted(hs, b)
        PROVE  /\ ScheduleVersionMatches(hs)
               /\ sched.version = b.active.version + 1 /\ ~b.was_pending_promoted
    <3>1. ~ScheduleMatures(hs, b.lib)
      BY <2>3 DEF SchedulePromoted, ScheduleMatures
    <3>2. sched.version = hs.active.version + 1
      BY <2>3 DEF SchedulePromoted, VersionInv, CurrentVersion
    <3> QED
      BY <2>1, <2>2, <3>1, <3>2 DEF ScheduleVersionMatches
  <2>4. ASSUME RatePromoted(hs, b)
        PROVE  /\ RateVersionMatches(hs)
               /\ rate.version = b.active_rate.version + 1 /\ ~b.was_pending_rate_promoted
    <3>1. ~RateMatures(hs, b.lib)
      BY <2>4 DEF RatePromoted, RateMatures
    <3>2. rate.version = hs.active_rate.version + 1
      BY <2>4 DEF RatePromoted, VersionInv, CurrentRateVersion
    <3> QED
      BY <2>1, <2>2, <3>1, <3>2 DEF RateVersionMatches
  <2> QED
    BY <2>3, <2>4
<1> QED
  BY <1>1, Versions, PTL

-----------------------------------------------------------------------------
\* A new header leaves nothing pending whose block its lib has reached.
LEMMA PendingNext ==
    ASSUME HeaderTypeInv, FinishNext
    PROVE  /\ PendingScheduleIsPromoted'
           /\ RateValues \subseteq Nat => PendingRateIsPromoted'
<1>1. PICK d \in 1 .. MaxSkip, c \in 0 .. MaxConfirmed : \E S, R, n :
         /\ BuildingOf(d, c, S, R) /\ n = Started(d, c)
         /\ FinishesAs(hs', n) /\ ScheduleStep(hs', n) /\ RateStep(hs', n)
  BY FinishStep DEF HeaderTypeInv
<1>2. PICK n : /\ hs.block_num < MaxBlockNum /\ n = Started(d, c)
               /\ FinishesAs(hs', n) /\ ScheduleStep(hs', n) /\ RateStep(hs', n)
  BY <1>1 DEF BuildingOf
<1>3. HeaderInv(n)
  BY <1>2, StartedInv DEF HeaderTypeInv
<1>4. n.lib \in Nat /\ n.block_num \in Nat /\ n.lib < n.block_num /\ hs'.lib = n.lib
  BY <1>2, <1>3 DEF HeaderInv, DposInv, FinishesAs
<1>5. /\ hs.pending.lib_num \in Nat /\ hs.pending_rate.lib_num \in Nat
      /\ hs.pending_rate.rate \in PossibleRate
  BY DEF HeaderTypeInv, FinishedInv
<1>6. hs'.pending.producers # << >> => hs'.lib < hs'.pending.lib_num
  <2>1. CASE ScheduleMatures(hs, n.lib) /\ hs'.pending.producers = << >>
    BY <2>1
  <2>2. CASE /\ ~ScheduleMatures(hs, n.lib) /\ hs'.pending.producers = hs.pending.producers
             /\ hs'.pending.lib_num = hs.pending.lib_num
    <3>1. hs'.pending.producers # << >> => ~(n.lib >= hs.pending.lib_num)
      BY <2>2 DEF ScheduleMatures
    <3> QED
      BY <1>4, <1>5, <2>2, <3>1
  <2>3. CASE hs'.pending.lib_num = n.block_num
    BY <1>4, <2>3
  <2> QED
    BY <1>2, <2>1, <2>2, <2>3 DEF ScheduleStep
<1>7. RateValues \subseteq Nat /\ hs'.pending_rate.rate # 0 => hs'.lib < hs'.pending_rate.lib_num
  <2>1. CASE RateMatures(hs, n.lib) /\ hs'.pending_rate.rate = 0
    BY <2>1
  <2>2. CASE /\ ~RateMatures(hs, n.lib) /\ hs'.pending_rate.rate = hs.pending_rate.rate
             /\ hs'.pending_rate.lib_num = hs.pending_rate.lib_num
    <3> SUFFICES ASSUME RateValues \subseteq Nat, hs'.pending_rate.rate # 0
                 PROVE  hs'.lib < hs'.pending_rate.lib_num
      OBVIOUS
    <3> DEFINE r == hs.pending_rate.rate
    <3>1. r \in PossibleRate /\ r # 0
      BY <1>5, <2>2
    <3> HIDE DEF r
    <3>2. r > 0
      BY <3>1 DEF PossibleRate
    <3>3. ~(n.lib >= hs.pending_rate.lib_num)
      BY <2>2, <3>2 DEF RateMatures, r
    <3> QED
      BY <1>4, <1>5, <2>2, <3>3
  <2>3. CASE hs'.pending_rate.lib_num = n.block_num
    BY <1>4, <2>3
  <2> QED
    BY <1>2, <2>1, <2>2, <2>3 DEF RateStep
<1> QED
  BY <1>6, <1>7 DEF PendingScheduleIsPromoted, PendingRateIsPromoted

\* The header of the branch only changes when a block is finished.
LEMMA OnlyFinishing == [Next]_vars => FinishNext \/ UNCHANGED <<hs, upTo>>
<1>1. \A d, c : StartBlock(d, c) => UNCHANGED <<hs, upTo>>
  BY DEF StartBlock
<1>2. \A s : SetProposedProducers(s) => UNCHANGED <<hs, upTo>>
  BY DEF SetProposedProducers
<1>3. \A r : SetProposedRate(r) => UNCHANGED <<hs, upTo>>
  BY DEF SetProposedRate
<1>4. UNCHANGED vars => UNCHANGED <<hs, upTo>>
  BY DEF vars
<1> QED
  BY <1>1, <1>2, <1>3, <1>4 DEF Next

\* A schedule that has become pending is promoted by the first block whose lib
\* has reached the block that made it pending, whatever the branch.
THEOREM HeaderSchedulePromoted == Spec => []PendingScheduleIsPromoted
<1>1. Init => PendingScheduleIsPromoted
  BY DEF Init, PendingScheduleIsPromoted
<1>2. HeaderTypeInv /\ PendingScheduleIsPromoted /\ [Next]_vars => PendingScheduleIsPromoted'
  <2>1. UNCHANGED <<hs, upTo>> /\ PendingScheduleIsPromoted => PendingScheduleIsPromoted'
    BY DEF PendingScheduleIsPromoted
  <2> QED
    BY <2>1, PendingNext, OnlyFinishing
<1> QED
  BY <1>1, <1>2, HeaderTypes, PTL DEF Spec

\* So is a fee rate, if only rates that are not negative are proposed: has_pending_rate
\* tests for a rate above zero, and a negative one stays pending for ever.
THEOREM HeaderRatePromoted ==
    ASSUME RateValues \subseteq Nat
    PROVE  Spec => []PendingRateIsPromoted
<1>1. Init => PendingRateIsPromoted
  BY DEF Init, PendingRateIsPromoted
<1>2. HeaderTypeInv /\ PendingRateIsPromoted /\ [Next]_vars => PendingRateIsPromoted'
  <2>1. UNCHANGED <<hs, upTo>> /\ PendingRateIsPromoted => PendingRateIsPromoted'
    BY DEF PendingRateIsPromoted
  <2> QED
    BY <2>1, PendingNext, OnlyFinishing
<1> QED
  BY <1>1, <1>2, HeaderTypes, PTL DEF Spec

-----------------------------------------------------------------------------
\* The window is full, or reaches down to the proposed lib; the first block is
\* produced by the system account alone and has no window.
WindowInv ==
    /\ hs.block_num = 1 => Len(hs.active.producers) = 1
    /\ hs.block_num > 1 => \/ Len(hs.confirm_count) = MaxTracked
                           \/ Len(hs.confirm_count) = hs.block_num - hs.proposed_lib
    /\ Within(hs.confirm_count, RequiredConfs(Cardinality(Producer)))

\* The loop of next() keeps the window as it should be.
LEMMA WindowStep ==
    ASSUME FinishedInv, WindowInv, NEW d \in 1 .. MaxSkip, NEW c \in 0 .. MaxConfirmed,
           NEW b, b = Started(d, c)
    PROVE  /\ b.block_num > 1
           /\ \/ Len(b.confirm_count) = MaxTracked
              \/ Len(b.confirm_count) = b.block_num - b.proposed_lib
           /\ Within(b.confirm_count, RequiredConfs(Cardinality(Producer)))
<1>1. PICK m, r, g, l, lib, cc, old, k, n, p :
         /\ m = RequiredConfs(Cardinality(Producer))
         /\ r = RequiredConfs(Len(hs.active.producers)) /\ g = GrownConfirmCount(hs)
         /\ lib = Confirm(hs, c).proposed_lib /\ cc = Confirm(hs, c).confirm_count
         /\ old = hs.confirm_count /\ k = Len(old) /\ l = Len(g)
         /\ n = hs.block_num /\ p = hs.proposed_lib
  OBVIOUS
<1>2. DposInv(hs) /\ c \in Nat
  BY BoundAssumption DEF FinishedInv, HeaderInv
<1>3. r \in Byte /\ m \in Nat /\ r \in 1 .. m
  BY <1>1, ConfirmationsFit DEF FinishedInv, HeaderInv
<1>4. /\ lib \in Nat /\ lib <= n + 1 /\ cc \in Seq(Byte)
      /\ \/ Len(cc) = n + 1 - lib
         \/ lib = p /\ Len(cc) = l /\ Decrement8(r) # 0
  BY <1>1, <1>2, <1>3, ConfirmProperties
<1>5. Within(g, m) => Within(cc, m)
  <2>1. \A x \in Nat : Within(g, x) => Within(cc, x)
    BY <1>1, <1>2, <1>3, ConfirmProperties
  <2> QED
    BY <1>3, <2>1, Zenon
<1>6. old \in Seq(Byte) /\ k <= MaxTracked /\ k \in Nat
  BY <1>1, <1>2, LenProperties DEF DposInv
<1>7. /\ g \in Seq(Byte) /\ l \in 1 .. MaxTracked /\ g[l] = r
      /\ l = IF k < MaxTracked THEN k + 1 ELSE k
  BY <1>1, <1>3, <1>6, GrownProperties
<1>8. Within(g, m)
  BY <1>1, <1>3, <1>6, GrownWithin DEF WindowInv
<1>9. b.block_num = n + 1 /\ b.proposed_lib = lib /\ b.confirm_count = cc
  BY <1>1, NextFields DEF Started
<1>10. n \in Nat /\ n # 0 /\ p \in Nat /\ MaxTracked \in Nat
  BY <1>1, WidthAssumption DEF FinishedInv, HeaderInv, DposInv
<1>11. Within(cc, m)
  BY <1>5, <1>8
<1>12. Len(cc) = MaxTracked \/ Len(cc) = n + 1 - lib
  <2>1. CASE lib = p /\ Len(cc) = l /\ Decrement8(r) # 0
    <3>1. n # 1
      <4> SUFFICES ASSUME n = 1
                   PROVE  FALSE
        OBVIOUS
      <4>1. r = (1 * 2) \div 3 + 1
        BY <1>1 DEF WindowInv, RequiredConfs
      <4>2. r = 1
        BY <4>1
      <4>3. Decrement8(1) = 0
        BY DEF Decrement8
      <4> QED
        BY <2>1, <4>2, <4>3
    <3>2. n > 1
      BY <1>10, <3>1
    <3>3. k = MaxTracked \/ k = n - p
      BY <1>1, <3>2 DEF WindowInv
    <3>4. l = MaxTracked \/ l = n + 1 - p
      BY <1>6, <1>7, <1>10, <3>3
    <3> QED
      BY <2>1, <3>4
  <2> QED
    BY <1>4, <2>1
<1>13. b.block_num > 1
  <2>1. n + 1 > 1
    BY <1>10
  <2> QED
    BY <1>9, <2>1
<1>14. Within(b.confirm_count, RequiredConfs(Cardinality(Producer)))
  BY <1>1, <1>9, <1>11
<1>15. Len(b.confirm_count) = MaxTracked \/ Len(b.confirm_count) = b.block_num - b.proposed_lib
  <2>1. n + 1 - lib = b.block_num - b.proposed_lib
    BY <1>4, <1>9, <1>10
  <2>2. CASE Len(cc) = MaxTracked
    BY <1>9, <2>2
  <2>3. CASE Len(cc) = n + 1 - lib
    BY <1>9, <2>1, <2>3
  <2> QED
    BY <1>12, <2>2, <2>3
<1> QED
  BY <1>13, <1>14, <1>15

\* confirm_count holds exactly the blocks after the proposed lib, or the last
\* maximum_tracked_dpos_confirmations of them, and no counter is zero or more than
\* all producers' confirmations: the uint8_t decrement never wraps, and the block
\* number next() computes from an entry's place is the right one.
THEOREM HeaderConfirmWindow == Spec => []ConfirmWindow
<1>1. Init => WindowInv
  <2>1. Init => /\ hs.confirm_count = << >> /\ hs.block_num = 1
                /\ hs.active.producers = <<SystemAccount>>
    BY DEF Init
  <2>2. Len(<< >>) = 0 /\ Len(<<SystemAccount>>) = 1
    OBVIOUS
  <2>3. Within(<< >>, RequiredConfs(Cardinality(Producer)))
    BY <2>2 DEF Within
  <2>4. ~(1 > 1)
    OBVIOUS
  <2> QED
    BY <2>1, <2>2, <2>3, <2>4 DEF WindowInv
<1>2. HeaderTypeInv /\ WindowInv /\ [Next]_vars => WindowInv'
  <2>1. UNCHANGED <<hs, upTo>> /\ WindowInv => WindowInv'
    BY DEF WindowInv
  <2>2. ASSUME HeaderTypeInv, WindowInv, FinishNext
        PROVE  WindowInv'
    <3>1. PICK d \in 1 .. MaxSkip, c \in 0 .. MaxConfirmed : \E n :
             n = Started(d, c) /\ FinishesAs(hs', n)
      BY <2>2, FinishStep DEF HeaderTypeInv
    <3>2. PICK n : n = Started(d, c) /\ FinishesAs(hs', n)
      BY <3>1
    <3>3. FinishedInv
      BY <2>2 DEF HeaderTypeInv
    <3>4. /\ n.block_num > 1
          /\ \/ Len(n.confirm_count) = MaxTracked
             \/ Len(n.confirm_count) = n.block_num - n.proposed_lib
          /\ Within(n.confirm_count, RequiredConfs(Cardinality(Producer)))
      BY <2>2, <3>2, <3>3, WindowStep
    <3>5. /\ hs'.confirm_count = n.confirm_count /\ hs'.block_num = n.block_num
          /\ hs'.proposed_lib = n.proposed_lib
      BY <3>2 DEF FinishesAs
    <3>6. hs'.block_num # 1
      BY <3>4, <3>5
    <3> QED
      BY <3>4, <3>5, <3>6 DEF WindowInv
  <2> QED
    BY <2>1, <2>2, OnlyFinishing
<1>3. HeaderTypeInv /\ WindowInv => ConfirmWindow
  <2> SUFFICES ASSUME HeaderTypeInv, WindowInv, hs.block_num > 1
               PROVE  /\ Len(hs.confirm_count) = Min({MaxTracked, hs.block_num - hs.proposed_lib})
                      /\ \A i \in DOMAIN hs.confirm_count :
                           hs.confirm_count[i] \in 1 .. RequiredConfs(Cardinality(Producer))
    BY DEF ConfirmWindow
  <2> DEFINE l == Len(hs.confirm_count)
             w == hs.block_num - hs.proposed_lib
  <2>1. /\ l \in Nat /\ w \in Int /\ MaxTracked \in Int /\ l <= MaxTracked /\ l <= w
        /\ l = MaxTracked \/ l = w
        /\ DOMAIN hs.confirm_count = 1 .. l
    BY WidthAssumption, LenProperties DEF HeaderTypeInv, FinishedInv, HeaderInv, DposInv, WindowInv
  <2> HIDE DEF l, w
  <2>2. /\ Min({MaxTracked, w}) \in {MaxTracked, w}
        /\ Min({MaxTracked, w}) <= MaxTracked /\ Min({MaxTracked, w}) <= w
    BY <2>1, MinOfTwo
  <2>3. l = Min({MaxTracked, w})
    BY <2>1, <2>2
  <2> QED
    BY <2>1, <2>3 DEF WindowInv, Within, l, w
<1>4. Spec => []WindowInv
  BY <1>1, <1>2, HeaderTypes, PTL DEF Spec
<1> QED
  BY <1>3, <1>4, HeaderTypes, PTL

-----------------------------------------------------------------------------
\* How many producers of the active schedule calc_dpos_last_irreversible lets lag.
Tolerance(h) == (Len(h.active.producers) - 1) \div 3

\* No schedule that becomes active tolerates fewer than the one before.
ToleranceKept == [][Tolerance(hs) <= Tolerance(hs')]_vars

\* The producers whose values count are active ones, and the lib is supported.
SupportInv ==
    /\ DOMAIN hs.implied_irb \subseteq Range(hs.active.producers)
    /\ hs.block_num > 1 => Supported(hs.implied_irb, hs.lib)

\* A finished block's producers and lib, if its schedule is not less tolerant.
LEMMA SupportStep ==
    ASSUME HeaderTypeInv, SupportInv, FinishNext, Tolerance(hs) <= Tolerance(hs')
    PROVE  SupportInv'
<1>1. PICK d \in 1 .. MaxSkip, c \in 0 .. MaxConfirmed : \E b :
         b = Started(d, c) /\ FinishesAs(hs', b)
  BY FinishStep DEF HeaderTypeInv
<1>2. PICK b : b = Started(d, c) /\ FinishesAs(hs', b)
  BY <1>1
<1>3. PICK slot, L, D, n : /\ b = NextState(hs, slot, c) /\ L = Range(hs.pending.producers)
                           /\ D = DOMAIN hs.implied_irb /\ n = Cardinality(D)
  BY <1>2 DEF Started
<1>4. FinishedInv /\ DposInv(hs) /\ GoodSchedule(hs.pending.producers)
      /\ GoodSchedule(hs.active.producers)
  BY DEF HeaderTypeInv, FinishedInv, HeaderInv
<1>5. IsFiniteSet(L) /\ Cardinality(L) = Len(hs.pending.producers)
  BY <1>3, <1>4, RangeOfSchedule DEF GoodSchedule
<1>6. b.producer \in Range(hs.active.producers)
  BY <1>2, <1>4, StartedProducer
<1>7. /\ ScheduleMatures(hs, b.lib) => b.active.producers = hs.pending.producers
      /\ ~ScheduleMatures(hs, b.lib) => b.active = hs.active
  BY <1>3, NextActive
<1>8. hs'.active = b.active /\ hs'.implied_irb = b.implied_irb /\ hs'.lib = b.lib
  BY <1>2 DEF FinishesAs
<1>9. DOMAIN b.implied_irb = IF ScheduleMatures(hs, b.lib) THEN L ELSE {b.producer} \cup D
  <2>1. PICK E : E = IF ScheduleMatures(hs, b.lib) THEN L ELSE {b.producer} \cup D
    OBVIOUS
  <2>2. b.implied_irb = Renewed(hs.implied_irb, E, b.producer, hs.proposed_lib, b.lib)
    BY <1>3, <2>1, NextImplied
  <2>3. DOMAIN b.implied_irb = E
    BY <2>2, RenewedProperties
  <2> QED
    BY <2>1, <2>3
<1>10. DOMAIN b.implied_irb \subseteq Range(b.active.producers)
  BY <1>3, <1>6, <1>7, <1>9 DEF SupportInv
<1>11. ASSUME ScheduleMatures(hs, b.lib)
       PROVE  L # {} /\ (n # 0 => (n - 1) \div 3 <= (Cardinality(L) - 1) \div 3)
  <2>1. PICK k, l, t, u : /\ k = Len(hs.active.producers) /\ l = Len(hs.pending.producers)
                          /\ t = (k - 1) \div 3 /\ u = (l - 1) \div 3
    OBVIOUS
  <2>2. hs.pending.producers # << >>
    BY <1>11 DEF ScheduleMatures
  <2>3. k \in Nat /\ l \in Nat
    BY <1>4, <2>1, LenProperties DEF GoodSchedule
  <2>4. L # {}
    <3>1. l # 0
      BY <1>4, <2>1, <2>2, EmptySeq DEF GoodSchedule
    <3> QED
      BY <1>5, <2>1, <3>1, FS_EmptySet
  <2>5. n \in Nat /\ n <= k
    <3>1. D \in SUBSET Range(hs.active.producers)
      BY <1>3 DEF SupportInv
    <3>2. IsFiniteSet(Range(hs.active.producers)) /\ Cardinality(Range(hs.active.producers)) = k
      BY <1>4, <2>1, RangeOfSchedule DEF GoodSchedule
    <3> QED
      BY <1>3, <3>1, <3>2, FS_Subset, FS_CardinalityType
  <2>6. t <= u
    BY <1>7, <1>8, <1>11, <2>1 DEF Tolerance
  <2>7. (n - 1) \div 3 <= u
    <3>1. (n - 1) \div 3 <= (k - 1) \div 3
      BY <2>3, <2>5
    <3>2. (n - 1) \div 3 \in Int /\ (k - 1) \div 3 \in Int /\ (l - 1) \div 3 \in Int
      BY <2>3, <2>5
    <3>3. (k - 1) \div 3 <= (l - 1) \div 3
      BY <2>1, <2>6
    <3>4. (n - 1) \div 3 <= (l - 1) \div 3
      <4> DEFINE x == (n - 1) \div 3
                 y == (k - 1) \div 3
                 z == (l - 1) \div 3
      <4> HIDE DEF x, y, z
      <4> QED
        BY <3>1, <3>2, <3>3 DEF x, y, z
    <3> QED
      BY <2>1, <3>4
  <2> QED
    BY <1>5, <2>1, <2>4, <2>7
<1>12. Supported(b.implied_irb, b.lib)
  BY <1>3, <1>4, <1>5, <1>11, NextSupported
<1> QED
  BY <1>8, <1>10, <1>12 DEF SupportInv

\* The support is inductive under that condition.
LEMMA Support == Spec /\ ToleranceKept => []SupportInv
<1>1. Init => SupportInv
  <2> SUFFICES ASSUME Init
               PROVE  SupportInv
    OBVIOUS
  <2>1. hs.block_num = 1 /\ hs.implied_irb = << >>
    BY DEF Init
  <2>2. DOMAIN hs.implied_irb = {}
    BY <2>1
  <2>3. ~(hs.block_num > 1)
    BY <2>1
  <2> QED
    BY <2>2, <2>3 DEF SupportInv
<1>2. HeaderTypeInv /\ SupportInv /\ [Next]_vars /\ [Tolerance(hs) <= Tolerance(hs')]_vars
        => SupportInv'
  <2> SUFFICES ASSUME HeaderTypeInv, SupportInv, [Next]_vars,
                      [Tolerance(hs) <= Tolerance(hs')]_vars
               PROVE  SupportInv'
    OBVIOUS
  <2>1. CASE UNCHANGED <<hs, upTo>>
    BY <2>1 DEF SupportInv
  <2>2. CASE FinishNext /\ Tolerance(hs) <= Tolerance(hs')
    BY <2>2, SupportStep
  <2>3. UNCHANGED vars => UNCHANGED <<hs, upTo>>
    BY DEF vars
  <2> QED
    BY <2>1, <2>2, <2>3, OnlyFinishing
<1> QED
  BY <1>1, <1>2, HeaderTypes, PTL DEF Spec, ToleranceKept

\* As long as no schedule becomes active that tolerates fewer missing producers
\* than the one before, more than two thirds of the producers imply every lib.
\* Without the condition that is false: when four producers become three, the
\* producer that was allowed to lag counts against the lib.
THEOREM HeaderLibIsSupported == Spec /\ ToleranceKept => []LibIsSupported
<1>1. HeaderTypeInv /\ SupportInv => LibIsSupported
  <2> SUFFICES ASSUME HeaderTypeInv, SupportInv, hs.block_num > 1,
                      NEW S, S = {q \in DOMAIN hs.implied_irb : hs.implied_irb[q] >= hs.lib}
               PROVE  3 * Cardinality(S) > 2 * Cardinality(DOMAIN hs.implied_irb)
    BY DEF LibIsSupported
  <2>1. /\ IsFiniteSet(DOMAIN hs.implied_irb) /\ hs.lib \in Nat
        /\ hs.implied_irb \in [DOMAIN hs.implied_irb -> Nat]
    BY DEF HeaderTypeInv, FinishedInv, HeaderInv, DposInv
  <2>2. Supported(hs.implied_irb, hs.lib)
    BY DEF SupportInv
  <2> QED
    BY <2>1, <2>2, SupportedBy
<1> QED
  BY <1>1, Support, HeaderTypes, PTL

\* Under the same condition the lib never decreases along a branch: a value is
\* replaced by a higher one only, so the lib the parent had is still supported.
THEOREM HeaderLibNeverDecreases == Spec /\ ToleranceKept => LibNeverDecreases
<1>1. HeaderTypeInv /\ SupportInv /\ [Next]_vars => [hs'.lib >= hs.lib]_vars
  <2> SUFFICES ASSUME HeaderTypeInv, SupportInv, [Next]_vars, ~UNCHANGED vars
               PROVE  hs'.lib >= hs.lib
    OBVIOUS
  <2>1. DposInv(hs) /\ hs.lib \in Nat /\ hs.block_num \in Nat
    BY DEF HeaderTypeInv, FinishedInv, HeaderInv, DposInv
  <2>2. CASE UNCHANGED <<hs, upTo>>
    BY <2>1, <2>2
  <2>3. CASE FinishNext
    <3>1. PICK d \in 1 .. MaxSkip, c \in 0 .. MaxConfirmed : \E b :
             b = Started(d, c) /\ FinishesAs(hs', b)
      BY <2>3, FinishStep DEF HeaderTypeInv
    <3>2. PICK b : b = Started(d, c) /\ FinishesAs(hs', b)
      BY <3>1
    <3>3. hs'.lib = CalcDposLastIrreversible(hs, b.producer)
      BY <3>2, NextFields DEF Started, FinishesAs
    <3>4. hs'.lib \in Nat
      BY <2>1, <3>3, CalcProperties
    <3>5. CASE hs.block_num > 1
      <4>1. hs.lib <= hs'.lib
        BY <2>1, <3>3, <3>5, CalcRises DEF SupportInv
      <4> QED
        BY <2>1, <3>4, <4>1
    <3>6. CASE ~(hs.block_num > 1)
      <4>1. hs.lib < hs.block_num
        BY <2>1 DEF DposInv
      <4>2. PICK n, l : n = hs.block_num /\ l = hs.lib
        OBVIOUS
      <4>3. l = 0
        BY <2>1, <3>6, <4>1, <4>2
      <4> QED
        BY <3>4, <4>2, <4>3
    <3> QED
      BY <3>5, <3>6
  <2> QED
    BY <2>2, <2>3, OnlyFinishing
<1> QED
  BY <1>1, Support, HeaderTypes, PTL DEF Spec, LibNeverDecreases

-----------------------------------------------------------------------------
\* next() knows the last block of every active producer, and starts a producer
\* that joins at the lib, which has passed every block the producer confirmed
\* before it left: the schedule it joins with became pending after those.
ConfirmedInv ==
    /\ \A q \in DOMAIN hs.last_produced : upTo[q] <= hs.last_produced[q]
    /\ hs.pending.producers # << >> =>
         \A q \in Producer \ DOMAIN hs.last_produced : upTo[q] <= hs.pending.lib_num
    /\ \A q \in Producer : upTo[q] <= hs.block_num
    /\ hs.block_num = 1 => /\ \A q \in Producer : upTo[q] = 0
                           /\ Range(hs.active.producers) = {SystemAccount}
    /\ hs.block_num > 1 => Range(hs.active.producers) \subseteq DOMAIN hs.last_produced

\* A finished block keeps this.
LEMMA ConfirmedStep ==
    ASSUME HeaderTypeInv, ConfirmedInv, FinishNext
    PROVE  ConfirmedInv'
<1>1. PICK d \in 1 .. MaxSkip, c \in 0 .. MaxConfirmed : \E S, R, b :
         /\ BuildingOf(d, c, S, R) /\ b = Started(d, c)
         /\ FinishesAs(hs', b) /\ ScheduleStep(hs', b)
         /\ upTo' = [upTo EXCEPT ![b.producer] = b.block_num]
  BY FinishStep DEF HeaderTypeInv
<1>2. PICK b : /\ hs.block_num < MaxBlockNum /\ b = Started(d, c)
               /\ FinishesAs(hs', b) /\ ScheduleStep(hs', b)
               /\ upTo' = [upTo EXCEPT ![b.producer] = b.block_num]
  BY <1>1 DEF BuildingOf
<1>3. PICK slot, L, D, E, p, n, lib, last, new :
         /\ b = NextState(hs, slot, c) /\ L = Range(hs.pending.producers)
         /\ p = b.producer /\ n = b.block_num /\ lib = b.lib
         /\ last = hs.last_produced /\ new = b.last_produced /\ D = DOMAIN last
         /\ E = {p} \cup (IF ScheduleMatures(hs, b.lib) THEN L ELSE D)
  <2>1. b = NextState(hs, (hs.slot + d) % SlotCycle, c)
    BY <1>2 DEF Started
  <2>2. PICK slot : b = NextState(hs, slot, c)
    BY <2>1
  <2>3. PICK L, D : L = Range(hs.pending.producers) /\ D = DOMAIN hs.last_produced
    OBVIOUS
  <2>4. PICK E : E = {b.producer} \cup (IF ScheduleMatures(hs, b.lib) THEN L ELSE D)
    OBVIOUS
  <2> QED
    BY <2>2, <2>3, <2>4
<1>4. FinishedInv /\ GoodSchedule(hs.pending.producers) /\ upTo \in [Producer -> 0 .. MaxBlockNum]
  BY DEF HeaderTypeInv, FinishedInv
<1>5. /\ hs.block_num \in Nat /\ n = hs.block_num + 1 /\ lib \in Nat /\ n \in Nat /\ n > 1
      /\ hs.pending.lib_num \in Nat
  <2>1. HeaderInv(b)
    BY <1>2, <1>4, StartedInv
  <2>2. hs.block_num \in 1 .. MaxBlockNum /\ lib \in Nat /\ hs.pending.lib_num \in Nat
    BY <1>3, <1>4, <2>1 DEF HeaderInv, DposInv, FinishedInv
  <2>3. n = hs.block_num + 1
    BY <1>3, NextFields
  <2>4. PICK m : m = hs.block_num
    OBVIOUS
  <2>5. m \in Nat /\ m + 1 > 1
    BY <2>2, <2>4
  <2> QED
    BY <2>2, <2>3, <2>4, <2>5
<1>6. p \in Range(hs.active.producers) /\ p \in Producer
  <2>1. p \in Range(hs.active.producers)
    BY <1>2, <1>3, <1>4, StartedProducer
  <2>2. Range(hs.active.producers) \subseteq Producer
    BY <1>4, RangeOfSchedule DEF FinishedInv, HeaderInv, GoodSchedule
  <2> QED
    BY <2>1, <2>2
<1>7. L \subseteq Producer /\ D \subseteq Producer
  <2>1. L \subseteq Producer
    BY <1>3, <1>4, RangeOfSchedule DEF GoodSchedule
  <2> QED
    BY <1>3, <1>4, <2>1 DEF FinishedInv, HeaderInv
<1>8. /\ DOMAIN new = E
      /\ \A q \in E : new[q] = IF q = p THEN n ELSE IF q \in D THEN last[q] ELSE lib
  <2>1. new = Renewed(last, E, p, n, lib)
    BY <1>3, NextProduced
  <2> QED
    BY <1>3, <2>1, RenewedProperties
<1>9. /\ hs'.last_produced = new /\ hs'.block_num = n /\ hs'.active = b.active
  BY <1>2, <1>3 DEF FinishesAs
<1>10. \A q \in Producer : upTo'[q] = IF q = p THEN n ELSE upTo[q]
  BY <1>2, <1>3, <1>4
<1>11. \A q \in Producer : upTo[q] \in Nat /\ upTo[q] <= hs.block_num
  BY <1>4 DEF ConfirmedInv
<1>12. \A q \in Producer : upTo'[q] <= n
  <2> TAKE q \in Producer
  <2>1. upTo[q] <= n
    BY <1>5, <1>11
  <2> QED
    BY <1>5, <1>10, <2>1
<1>13. \A q \in E : upTo'[q] <= new[q]
  <2> TAKE q \in E
  <2>1. q \in Producer
    BY <1>3, <1>6, <1>7
  <2>2. CASE q = p
    BY <1>5, <1>8, <1>10, <2>1, <2>2
  <2>3. CASE q # p /\ q \in D
    BY <1>3, <1>8, <1>10, <2>1, <2>3 DEF ConfirmedInv
  <2>4. CASE q # p /\ q \notin D
    <3>1. ScheduleMatures(hs, lib)
      BY <1>3, <2>4
    <3>2. hs.pending.producers # << >> /\ lib >= hs.pending.lib_num
      BY <3>1 DEF ScheduleMatures
    <3>3. upTo[q] <= hs.pending.lib_num
      BY <1>3, <2>1, <2>4, <3>2 DEF ConfirmedInv
    <3>4. upTo[q] <= lib
      BY <1>5, <1>11, <2>1, <3>2, <3>3
    <3> QED
      BY <1>8, <1>10, <2>1, <2>4, <3>4
  <2> QED
    BY <2>2, <2>3, <2>4
<1>14. ASSUME hs'.pending.producers # << >>, NEW q \in Producer \ E
       PROVE  upTo'[q] <= hs'.pending.lib_num
  <2>1. CASE hs'.pending.lib_num = n
    BY <1>12, <1>14, <2>1
  <2>2. CASE /\ ~ScheduleMatures(hs, lib) /\ hs'.pending.producers = hs.pending.producers
             /\ hs'.pending.lib_num = hs.pending.lib_num
    <3>1. q \notin D /\ q # p
      BY <1>3, <1>14, <2>2
    <3> QED
      BY <1>3, <1>10, <1>14, <2>2, <3>1 DEF ConfirmedInv
  <2> QED
    BY <1>2, <1>3, <1>14, <2>1, <2>2 DEF ScheduleStep
<1>15. Range(b.active.producers) \subseteq E
  <2>1. /\ ScheduleMatures(hs, lib) => b.active.producers = hs.pending.producers
        /\ ~ScheduleMatures(hs, lib) => b.active = hs.active
    BY <1>3, NextActive
  <2>2. CASE ScheduleMatures(hs, lib)
    BY <1>3, <2>1, <2>2
  <2>3. CASE ~ScheduleMatures(hs, lib)
    <3>1. CASE hs.block_num > 1
      BY <1>3, <2>1, <2>3, <3>1 DEF ConfirmedInv
    <3>2. CASE ~(hs.block_num > 1)
      <4>1. hs.block_num = 1
        BY <1>4, <3>2 DEF FinishedInv, HeaderInv
      <4> QED
        BY <1>3, <1>6, <2>1, <2>3, <4>1 DEF ConfirmedInv
    <3> QED
      BY <3>1, <3>2
  <2> QED
    BY <2>2, <2>3
<1>16. n # 1
  BY <1>5
<1> QED
  BY <1>8, <1>9, <1>12, <1>13, <1>14, <1>15, <1>16 DEF ConfirmedInv

\* It always holds.
LEMMA ConfirmedBefore == Spec => []ConfirmedInv
<1>1. Init => ConfirmedInv
  <2> SUFFICES ASSUME Init
               PROVE  ConfirmedInv
    OBVIOUS
  <2>1. /\ hs.block_num = 1 /\ hs.last_produced = << >> /\ hs.pending.lib_num = 0
        /\ hs.active.producers = <<SystemAccount>> /\ upTo = [p \in Producer |-> 0]
    BY DEF Init
  <2>2. DOMAIN hs.last_produced = {} /\ ~(hs.block_num > 1)
    BY <2>1
  <2>3. \A q \in Producer : upTo[q] = 0 /\ upTo[q] <= hs.block_num
    BY <2>1
  <2>4. Range(<<SystemAccount>>) = {SystemAccount}
    BY DEF Range
  <2> QED
    BY <2>1, <2>2, <2>3, <2>4 DEF ConfirmedInv
<1>2. HeaderTypeInv /\ ConfirmedInv /\ [Next]_vars => ConfirmedInv'
  <2>1. UNCHANGED <<hs, upTo>> /\ ConfirmedInv => ConfirmedInv'
    BY DEF ConfirmedInv
  <2> QED
    BY <2>1, ConfirmedStep, OnlyFinishing
<1> QED
  BY <1>1, <1>2, HeaderTypes, PTL DEF Spec

\* No header confirms more blocks than there are before it.
ConfirmsExist == hs.confirmed <= hs.block_num

\* The assert on double confirmations, with a subtraction that does not wrap.
LEMMA AcceptedOnce ==
    ASSUME NEW h, NEW p \in DOMAIN h.last_produced, NEW c, ConfirmAccepted(h, p, c),
           NEW n \in Nat, n = h.block_num + 1, c \in Nat, c <= n, n < UInt32
    PROVE  h.last_produced[p] < n - c
<1>1. UInt32 \in Nat
  BY WidthAssumption
<1>2. (n - c) % UInt32 = n - c
  <2> DEFINE x == n - c
  <2>1. x \in Nat /\ x < UInt32
    BY <1>1
  <2> HIDE DEF x
  <2>2. x % UInt32 = x
    BY <1>1, <2>1
  <2> QED
    BY <2>2 DEF x
<1> QED
  BY <1>2 DEF ConfirmAccepted, Minus32

\* The step that finishes a block confirms nothing twice.
LEMMA DoubleConfirmStep ==
    ASSUME HeaderTypeInv, ConfirmedInv, FinishNext, ConfirmsExist', NEW q \in Producer,
           upTo'[q] # upTo[q], upTo[q] > 0
    PROVE  hs'.block_num - hs'.confirmed > upTo[q]
<1>1. PICK d \in 1 .. MaxSkip, c \in 0 .. MaxConfirmed : \E S, R, b :
         /\ BuildingOf(d, c, S, R) /\ b = Started(d, c) /\ FinishesAs(hs', b)
         /\ upTo' = [upTo EXCEPT ![b.producer] = b.block_num]
  BY FinishStep DEF HeaderTypeInv
<1>2. PICK b : /\ hs.block_num < MaxBlockNum /\ b = Started(d, c) /\ FinishesAs(hs', b)
               /\ ConfirmAccepted(hs, b.producer, c)
               /\ upTo' = [upTo EXCEPT ![b.producer] = b.block_num]
  BY <1>1 DEF BuildingOf, MayConfirm
<1>3. PICK n, m : n = b.block_num /\ m = hs.block_num
  OBVIOUS
<1>4. FinishedInv /\ upTo \in [Producer -> 0 .. MaxBlockNum]
  BY DEF HeaderTypeInv
<1>5. q = b.producer
  BY <1>2, <1>4
<1>6. m \in 1 .. MaxBlockNum /\ upTo[q] \in Nat
  BY <1>3, <1>4 DEF FinishedInv, HeaderInv
<1>7. n = m + 1 /\ hs'.block_num = n /\ hs'.confirmed = c
  BY <1>2, <1>3, NextFields DEF Started, FinishesAs
<1>8. m > 1 /\ q \in DOMAIN hs.last_produced
  <2>1. m # 1
    BY <1>3, <1>6 DEF ConfirmedInv
  <2>2. m > 1
    BY <1>6, <2>1
  <2>3. q \in Range(hs.active.producers)
    BY <1>2, <1>4, <1>5, StartedProducer
  <2> QED
    BY <1>3, <2>2, <2>3 DEF ConfirmedInv
<1>9. n \in Nat /\ c \in Nat /\ c <= n /\ n < UInt32
  <2>1. MaxBlockNum \in Nat /\ MaxConfirmed \in Nat /\ UInt32 > MaxBlockNum + MaxConfirmed
        /\ UInt32 \in Nat
    BY BoundAssumption, WidthAssumption
  <2>2. m < MaxBlockNum
    BY <1>2, <1>3
  <2>3. c <= n
    BY <1>7 DEF ConfirmsExist
  <2>4. n \in Nat /\ n < UInt32
    BY <1>6, <1>7, <2>1, <2>2
  <2> QED
    BY <2>1, <2>3, <2>4
<1>10. hs.last_produced[q] < n - c
  BY <1>2, <1>3, <1>5, <1>7, <1>8, <1>9, AcceptedOnce
<1>11. upTo[q] <= hs.last_produced[q] /\ hs.last_produced[q] \in Nat
  BY <1>4, <1>8 DEF ConfirmedInv, FinishedInv, HeaderInv
<1>12. PICK x, y : x = upTo[q] /\ y = hs.last_produced[q]
  OBVIOUS
<1>13. n - c > x
  BY <1>6, <1>9, <1>10, <1>11, <1>12
<1> QED
  BY <1>7, <1>12, <1>13

\* On a branch of any length, with schedules that change in any way, no producer
\* confirms a block twice, provided that no header confirms more blocks than there
\* are: for such a header the assert's uint32_t subtraction wraps, and accepts it.
THEOREM HeaderNoDoubleConfirm == Spec /\ []ConfirmsExist => NoDoubleConfirm
<1> DEFINE Once == \A p \in Producer : upTo'[p] # upTo[p] /\ upTo[p] > 0
                                         => hs'.block_num - hs'.confirmed > upTo[p]
<1>1. HeaderTypeInv /\ ConfirmedInv /\ [Next]_vars /\ ConfirmsExist' => [Once]_vars
  <2> SUFFICES ASSUME HeaderTypeInv, ConfirmedInv, [Next]_vars, ConfirmsExist'
               PROVE  Once
    OBVIOUS
  <2>1. CASE UNCHANGED <<hs, upTo>>
    BY <2>1
  <2>2. CASE FinishNext
    BY <2>2, DoubleConfirmStep
  <2> QED
    BY <2>1, <2>2, OnlyFinishing
<1> QED
  BY <1>1, HeaderTypes, ConfirmedBefore, PTL DEF Spec, NoDoubleConfirm

\* producer_plugin never lets a header confirm more than that, so a branch of
\* honest producers needs no condition.
THEOREM HonestNoDoubleConfirm ==
    ASSUME HonestConfirms
    PROVE  Spec => NoDoubleConfirm
<1>1. Init => ConfirmsExist
  BY DEF Init, ConfirmsExist
<1>2. HeaderTypeInv /\ ConfirmsExist /\ [Next]_vars => ConfirmsExist'
  <2> SUFFICES ASSUME HeaderTypeInv, ConfirmsExist, [Next]_vars
               PROVE  ConfirmsExist'
    OBVIOUS
  <2>1. CASE UNCHANGED <<hs, upTo>>
    BY <2>1 DEF ConfirmsExist
  <2>2. CASE FinishNext
    <3>1. PICK d \in 1 .. MaxSkip, c \in 0 .. MaxConfirmed : \E S, R, b :
             BuildingOf(d, c, S, R) /\ b = Started(d, c) /\ FinishesAs(hs', b)
      BY <2>2, FinishStep DEF HeaderTypeInv
    <3>2. PICK b : /\ b = Started(d, c) /\ FinishesAs(hs', b)
                   /\ c = BlocksToConfirm(hs, upTo[b.producer])
      BY <3>1 DEF BuildingOf, MayConfirm
    <3>3. hs'.block_num = hs.block_num + 1 /\ hs'.confirmed = c
      BY <3>2, NextFields DEF Started, FinishesAs
    <3>4. hs.block_num \in Nat /\ hs.lib \in Nat
      BY DEF HeaderTypeInv, FinishedInv, HeaderInv, DposInv
    <3>5. b.producer \in Producer
      <4>1. b.producer \in Range(hs.active.producers)
        BY <3>2, StartedProducer DEF HeaderTypeInv
      <4> QED
        BY <4>1, RangeOfSchedule DEF HeaderTypeInv, FinishedInv, HeaderInv, GoodSchedule
    <3>6. upTo[b.producer] \in Nat
      BY <3>5 DEF HeaderTypeInv
    <3>7. c <= hs.block_num - hs.lib
      BY <3>2, <3>4, <3>6, ConfirmsReversible
    <3> QED
      BY <3>3, <3>4, <3>7, BoundAssumption DEF ConfirmsExist
  <2> QED
    BY <2>1, <2>2, OnlyFinishing
<1>3. Spec => []ConfirmsExist
  BY <1>1, <1>2, HeaderTypes, PTL DEF Spec
<1> QED
  BY <1>3, HeaderNoDoubleConfirm, PTL
=============================================================================
