----------------------- MODULE ProducerNetworkProofs -----------------------
(***************************************************************************)
(* A producer whose node runs on never signs overlapping ranges, for every *)
(* schedule, on whatever branches it signs and whatever reaches it.        *)
(*                                                                         *)
(* The argument is about the watermark: it is at least the number of every *)
(* block the producer has signed, a block is signed only on a head that is *)
(* not below it, and what the block confirms begins after it.              *)
(*                                                                         *)
(* What two branches propose or make irreversible at one number is one     *)
(* block.  Each counter of confirm_count, with the producers that have     *)
(* confirmed its block, makes up two thirds and one more; so whatever is   *)
(* proposed, and with it whatever is irreversible, has been confirmed by   *)
(* that many; two such sets share a producer whose node runs on; it has    *)
(* confirmed the number once, so the branches share the block it signed.   *)
(***************************************************************************)
EXTENDS ProducerNetwork, DposHeaderProofs, TLAPS

\* A header under the schedule, with nothing pending.
HeaderOK(h) ==
    /\ DposInv(h) /\ h.confirmed \in Nat
    /\ h.active.producers = Schedule /\ h.pending.producers = << >>

\* The tree is a sequence of blocks with such headers.
TreeInv ==
    /\ \E S : blocks \in Seq(S)
    /\ \A i \in 1 .. Len(blocks) : HeaderOK(blocks[i].hs)

WatermarkInv == slot \in Nat /\ watermark \in [Producer -> [num : Nat, slot : Int]]

\* A producer that has not restarted has signed nothing above its watermark,
SignedBelow(p) ==
    \A i \in 1 .. Len(blocks) :
        blocks[i].hs.producer = p => blocks[i].hs.block_num <= watermark[p].num

\* and nothing twice.
DisjointOf(p) ==
    \A i, j \in 1 .. Len(blocks) :
        blocks[i].hs.producer = p /\ blocks[j].hs.producer = p /\ i < j =>
            Confirms(i) \cap Confirms(j) = {}

NetInv ==
    /\ TreeInv /\ WatermarkInv
    /\ \A p \in Producer \ restarted : SignedBelow(p) /\ DisjointOf(p)

-----------------------------------------------------------------------------
\* The counters of confirm_count fit into uint8_t (config::max_producers).
LEMMA ConfirmationsFit ==
    ASSUME NEW n \in Nat, n <= 125
    PROVE  RequiredConfs(n) \in Byte
  BY DEF RequiredConfs, Byte

\* The producers of the schedule are finitely many, and there is one for each
\* slot.
LEMMA ScheduleFacts ==
    /\ Schedule \in Seq(Producer) /\ Len(Schedule) \in Nat /\ Len(Schedule) <= 125
    /\ Schedule # << >> /\ IsFiniteSet(Producer) /\ SystemAccount \notin Producer
    /\ \A s \in Nat : ScheduledProducer(Schedule, s) \in Producer
<1>1. /\ Schedule \in Seq(Producer) /\ Len(Schedule) \in 1 .. 125
      /\ SystemAccount \notin Producer
  BY NetworkAssumption DEF Producer
<1>2. Schedule # << >> /\ Len(Schedule) \in Nat /\ Len(Schedule) <= 125
  <2>1. PICK n \in 1 .. 125 : n = Len(Schedule)
    BY <1>1
  <2>2. n \in Nat /\ n <= 125 /\ n # 0
    OBVIOUS
  <2>3. Len(<< >>) = 0
    OBVIOUS
  <2> QED
    BY <2>1, <2>2, <2>3
<1>3. IsFiniteSet(Range(Schedule)) /\ \A i \in 1 .. Len(Schedule) : Schedule[i] \in Range(Schedule)
  BY <1>1, RangeOfSchedule
<1>4. ASSUME NEW s \in Nat
      PROVE  ScheduledProducer(Schedule, s) \in Producer
  BY <1>1, <1>2, <1>3, <1>4, ScheduledProducerIsListed DEF Producer
<1>5. IsFiniteSet(Producer)
  BY <1>3 DEF Producer
<1> QED
  BY <1>1, <1>2, <1>4, <1>5

\* A block on a block under the schedule is under the schedule too.
LEMMA ChildHeader ==
    ASSUME NEW h, HeaderOK(h), NEW s, NEW c \in Nat, NEW f, f = Child(h, s, c)
    PROVE  /\ HeaderOK(f) /\ f.block_num = h.block_num + 1 /\ f.confirmed = c
           /\ f.producer = ScheduledProducer(Schedule, s)
<1>1. PICK b : b = NextState(h, s, c)
  OBVIOUS
<1>2. f = Finished(b)
  BY <1>1 DEF Child
<1>3. /\ DposInv(h) /\ h.active.producers = Schedule /\ h.pending.producers = << >>
  BY DEF HeaderOK
<1>4. RequiredConfs(Len(h.active.producers)) \in Byte
  BY <1>3, ScheduleFacts, ConfirmationsFit
<1>5. IsFiniteSet(Range(h.pending.producers))
  <2>1. << >> \in Seq(Producer)
    OBVIOUS
  <2> QED
    BY <1>3, <2>1, RangeOfSchedule
<1>6. DposInv(b)
  BY <1>1, <1>3, <1>4, <1>5, NextDpos
<1>7. /\ b.block_num = h.block_num + 1 /\ b.confirmed = c
      /\ b.producer = ScheduledProducer(Schedule, s)
      /\ b.was_pending_promoted = ScheduleMatures(h, b.lib)
      /\ b.prev_pending = h.pending /\ b.new_schedule = {}
  BY <1>1, <1>3, NextFields
<1>8. ~ScheduleMatures(h, b.lib)
  BY <1>3 DEF ScheduleMatures
<1>9. b.active = h.active
  BY <1>1, <1>8, NextActive
<1>10. f.pending.producers = << >>
  BY <1>2, <1>3, <1>7, FinishedOldSchedule
<1>11. /\ f.block_num = b.block_num /\ f.producer = b.producer /\ f.confirmed = b.confirmed
       /\ f.proposed_lib = b.proposed_lib /\ f.lib = b.lib
       /\ f.confirm_count = b.confirm_count /\ f.implied_irb = b.implied_irb
       /\ f.active = b.active
  BY <1>2, FinishedFields
<1>12. DposInv(f)
  BY <1>6, <1>11 DEF DposInv
<1> QED
  BY <1>3, <1>7, <1>9, <1>10, <1>11, <1>12 DEF HeaderOK

\* The system account's last block makes the block before it irreversible, so
\* the schedule is active from the root on.
LEMMA RootHeader ==
    ASSUME NEW f, f = Child(Before, 0, 0)
    PROVE  HeaderOK(f) /\ f.producer \notin Producer
<1>1. PICK h, b : h = Before /\ b = NextState(h, 0, 0)
  OBVIOUS
<1>2. f = Finished(b)
  BY <1>1 DEF Child
<1>3. /\ h.block_num = 3 /\ h.proposed_lib = 3 /\ h.lib = 2 /\ h.confirm_count = << >>
      /\ h.implied_irb = [p \in {SystemAccount} |-> 2]
      /\ h.active.producers = <<SystemAccount>>
      /\ h.pending.producers = Schedule /\ h.pending.lib_num = 3
  BY <1>1 DEF Before
<1>4. DposInv(h)
  <2>1. DOMAIN h.implied_irb = {SystemAccount} /\ h.implied_irb[SystemAccount] = 2
        /\ h.implied_irb \in [{SystemAccount} -> Nat]
    BY <1>3
  <2>2. IsFiniteSet({SystemAccount})
    BY FS_Singleton
  <2>3. MaxTracked \in Nat
    BY WidthAssumption
  <2>4. h.confirm_count \in Seq(Byte) /\ Len(h.confirm_count) = 0
    BY <1>3
  <2> QED
    BY <1>3, <2>1, <2>2, <2>3, <2>4 DEF DposInv
<1>5. RequiredConfs(Len(h.active.producers)) \in Byte
  <2>1. Len(<<SystemAccount>>) = 1
    OBVIOUS
  <2> QED
    BY <1>3, <2>1, ConfirmationsFit
<1>6. IsFiniteSet(Range(h.pending.producers))
  BY <1>3, ScheduleFacts DEF Producer
<1>7. DposInv(b)
  BY <1>1, <1>4, <1>5, <1>6, NextDpos
<1>8. /\ b.confirmed = 0 /\ b.producer = ScheduledProducer(<<SystemAccount>>, 0)
      /\ b.lib = CalcDposLastIrreversible(h, b.producer)
      /\ b.was_pending_promoted = ScheduleMatures(h, b.lib)
      /\ b.prev_pending = h.pending /\ b.new_schedule = {}
  BY <1>1, <1>3, NextFields
<1>9. b.producer = SystemAccount
  <2>1. /\ <<SystemAccount>> \in Seq({SystemAccount}) /\ <<SystemAccount>> # << >>
        /\ 0 \in Nat /\ Len(<<SystemAccount>>) = 1 /\ <<SystemAccount>>[1] = SystemAccount
    OBVIOUS
  <2>2. PICK i \in 1 .. Len(<<SystemAccount>>) :
           ScheduledProducer(<<SystemAccount>>, 0) = <<SystemAccount>>[i]
    BY <2>1, ScheduledProducerIsListed
  <2> QED
    BY <1>8, <2>1, <2>2
<1>10. b.lib \in Nat /\ b.lib >= 3
  <2>1. PICK D, irb, lib : /\ D = {SystemAccount} /\ irb = Raised(h, SystemAccount)
                           /\ lib = b.lib
    OBVIOUS
  <2>2. D = DOMAIN h.implied_irb /\ D # {} /\ IsFiniteSet(D) /\ DOMAIN irb = D
        /\ irb[SystemAccount] = 3
    BY <1>3, <2>1, FS_Singleton DEF Raised
  <2>3. Cardinality(D) = 1
    BY <2>1, FS_Singleton
  <2>4. lib \in Nat /\ Cardinality(UpTo(irb, lib)) > 0
    <3>1. lib \in Nat /\ Cardinality(UpTo(irb, lib)) > (Cardinality(D) - 1) \div 3
      BY <1>4, <1>8, <1>9, <2>1, <2>2, CalcProperties
    <3> QED
      BY <2>3, <3>1
  <2>5. UpTo(irb, lib) # {}
    BY <2>4, FS_EmptySet
  <2>6. 3 <= lib
    BY <2>1, <2>2, <2>5 DEF UpTo
  <2> QED
    BY <2>1, <2>4, <2>6
<1>11. ScheduleMatures(h, b.lib)
  BY <1>3, <1>10, ScheduleFacts DEF ScheduleMatures
<1>12. b.active.producers = Schedule
  BY <1>1, <1>3, <1>11, NextActive
<1>13. f.pending.producers = << >>
  BY <1>2, <1>8, <1>11, FinishedOldSchedule
<1>14. /\ f.block_num = b.block_num /\ f.producer = b.producer /\ f.confirmed = b.confirmed
       /\ f.proposed_lib = b.proposed_lib /\ f.lib = b.lib
       /\ f.confirm_count = b.confirm_count /\ f.implied_irb = b.implied_irb
       /\ f.active = b.active
  BY <1>2, FinishedFields
<1>15. DposInv(f)
  BY <1>7, <1>14 DEF DposInv
<1> QED
  BY <1>8, <1>9, <1>12, <1>13, <1>14, <1>15, ScheduleFacts DEF HeaderOK

\* Nobody has signed anything at the beginning: the root is the system account's.
LEMMA NetInit == Init => NetInv
<1> SUFFICES ASSUME Init
             PROVE  NetInv
  OBVIOUS
<1>1. PICK f, b : f = Child(Before, 0, 0) /\ b = [branch |-> {Root}, hs |-> f]
  OBVIOUS
<1>2. /\ blocks = <<b>> /\ b.hs = f /\ slot = 1
      /\ watermark = [p \in Producer |-> NoWatermark]
  BY <1>1 DEF Init
<1>3. HeaderOK(f) /\ f.producer \notin Producer
  BY <1>1, RootHeader
<1>4. /\ blocks \in Seq({b}) /\ Len(blocks) = 1
      /\ \A i \in 1 .. Len(blocks) : i = 1 /\ blocks[i].hs = f
  BY <1>2
<1>5. TreeInv
  BY <1>3, <1>4 DEF TreeInv
<1>6. WatermarkInv
  BY <1>2 DEF WatermarkInv, NoWatermark
<1>7. ASSUME NEW p \in Producer
      PROVE  SignedBelow(p) /\ DisjointOf(p)
  BY <1>3, <1>4 DEF SignedBelow, DisjointOf
<1> QED
  BY <1>5, <1>6, <1>7 DEF NetInv

-----------------------------------------------------------------------------
\* What p signs with watermark w on a header that is not below it: a block
\* above the watermark, which confirms only blocks above the watermark.
LEMMA SignedAbove ==
    ASSUME NEW h, HeaderOK(h), NEW w \in Nat, w <= h.block_num,
           NEW c, c = BlocksToConfirm(h, w)
    PROVE  c \in Nat /\ h.block_num \in Nat /\ w < h.block_num + 1 - c
<1>1. PICK n, l : n = h.block_num /\ l = h.lib
  OBVIOUS
<1>2. n \in Nat /\ l \in Nat /\ l < n
  BY <1>1 DEF HeaderOK, DposInv
<1>3. c \in Nat /\ c <= IF w > 0 /\ w < n THEN n - w ELSE 0
  <2>1. l <= n
    BY <1>2
  <2> QED
    BY <1>1, <1>2, <2>1, ConfirmsReversible
<1>4. w <= n
  BY <1>1
<1>5. w < n + 1 - c
  <2>1. CASE w > 0 /\ w < n
    BY <1>2, <1>3, <1>4, <2>1
  <2>2. CASE ~(w > 0 /\ w < n)
    BY <1>2, <1>3, <1>4, <2>2
  <2> QED
    BY <2>1, <2>2
<1> QED
  BY <1>1, <1>2, <1>3, <1>5

\* consider_new_watermark never lowers a watermark, and reaches the new block.
LEMMA WatermarkRises ==
    ASSUME NEW w \in [num : Nat, slot : Int], NEW n \in Nat, NEW s \in Nat,
           NEW x, x = NewWatermark(w, n, s)
    PROVE  x \in [num : Nat, slot : Int] /\ w.num <= x.num /\ n <= x.num
<1>1. PICK a, t : a = w.num /\ t = w.slot
  OBVIOUS
<1>2. a \in Nat /\ a \in Int /\ n \in Int /\ t \in Int /\ s \in Int
  BY <1>1
<1>3. Max({a, n}) \in {a, n} /\ a <= Max({a, n}) /\ n <= Max({a, n}) /\ Max({t, s}) \in {t, s}
  BY <1>2, MaxOfTwo
<1>4. Max({a, n}) \in Nat /\ Max({t, s}) \in Int
  BY <1>2, <1>3
<1>5. x = [num |-> Max({a, n}), slot |-> Max({t, s})]
  BY <1>1 DEF NewWatermark
<1> QED
  BY <1>1, <1>3, <1>4, <1>5

\* Signing a block keeps the invariant.
LEMMA ProduceKeeps ==
    ASSUME NetInv, NEW i \in DOMAIN blocks, Produce(i)
    PROVE  NetInv'
<1>1. PICK h, p, c, n, w, f, b :
         /\ h = blocks[i].hs /\ p = ScheduledProducer(h.active.producers, slot)
         /\ w = watermark[p] /\ c = BlocksToConfirm(h, w.num) /\ n = Len(blocks) + 1
         /\ f = Child(h, slot, c) /\ b = [branch |-> blocks[i].branch \cup {n}, hs |-> f]
  OBVIOUS
<1>2. /\ MayProduce(p, h) /\ blocks' = Append(blocks, b)
      /\ watermark' = [watermark EXCEPT ![p] = NewWatermark(@, h.block_num + 1, slot)]
      /\ slot' = slot + 1 /\ restarted' = restarted
  BY <1>1 DEF Produce
<1>3. PICK S : blocks \in Seq(S)
  BY DEF NetInv, TreeInv
<1>4. /\ Len(blocks) \in Nat /\ n \in Nat /\ n # 0 /\ DOMAIN blocks = 1 .. Len(blocks)
      /\ Len(blocks) = n - 1
  BY <1>1, <1>3, LenProperties
<1>5. HeaderOK(h)
  BY <1>1, <1>4 DEF NetInv, TreeInv
<1>6. slot \in Nat /\ watermark \in [Producer -> [num : Nat, slot : Int]]
  BY DEF NetInv, WatermarkInv
<1>7. p \in Producer
  BY <1>1, <1>5, <1>6, ScheduleFacts DEF HeaderOK
<1>8. w \in [num : Nat, slot : Int] /\ w.num \in Nat /\ w.num <= h.block_num
  BY <1>1, <1>2, <1>6, <1>7 DEF MayProduce
<1>9. c \in Nat /\ h.block_num \in Nat /\ w.num < h.block_num + 1 - c
  BY <1>1, <1>5, <1>8, SignedAbove
<1>10. /\ HeaderOK(f) /\ f.block_num = h.block_num + 1 /\ f.confirmed = c /\ f.producer = p
  BY <1>1, <1>5, <1>9, ChildHeader DEF HeaderOK
<1>11. /\ blocks' \in Seq(S \cup {b}) /\ Len(blocks') = n /\ blocks'[n].hs = f
       /\ \A k \in 1 .. Len(blocks) : blocks'[k] = blocks[k]
  <2>1. blocks \in Seq(S \cup {b}) /\ b \in S \cup {b}
    BY <1>3
  <2>2. b.hs = f
    BY <1>1
  <2> QED
    BY <1>1, <1>2, <2>1, <2>2, AppendProperties
<1>12. \A k \in 1 .. n : k = n \/ (k \in 1 .. Len(blocks) /\ k # n)
  BY <1>4
<1>13. TreeInv'
  <2>1. \A k \in 1 .. n : HeaderOK(blocks'[k].hs)
    BY <1>10, <1>11, <1>12 DEF NetInv, TreeInv
  <2> QED
    BY <1>11, <2>1 DEF TreeInv
<1>14. PICK x : x = NewWatermark(w, h.block_num + 1, slot)
  OBVIOUS
<1>15. /\ x \in [num : Nat, slot : Int] /\ w.num <= x.num /\ h.block_num + 1 <= x.num
       /\ watermark' = [watermark EXCEPT ![p] = x]
  <2>1. h.block_num + 1 \in Nat
    BY <1>9
  <2> QED
    BY <1>1, <1>2, <1>6, <1>8, <1>14, <2>1, WatermarkRises
<1>16. WatermarkInv'
  <2>1. slot' = slot + 1
    BY <1>2
  <2>2. slot' \in Nat
    BY <1>6, <2>1
  <2>3. watermark' \in [Producer -> [num : Nat, slot : Int]]
    BY <1>6, <1>15
  <2> QED
    BY <2>2, <2>3 DEF WatermarkInv
<1>17. ASSUME NEW q \in Producer \ restarted
       PROVE  SignedBelow(q)' /\ DisjointOf(q)'
  <2>1. SignedBelow(q) /\ DisjointOf(q)
    BY DEF NetInv
  <2>2. \A k \in 1 .. Len(blocks) : blocks[k].hs.block_num \in Nat
    BY DEF NetInv, TreeInv, HeaderOK, DposInv
  <2>3. SignedBelow(q)'
    <3> SUFFICES ASSUME NEW k \in 1 .. n, blocks'[k].hs.producer = q
                 PROVE  blocks'[k].hs.block_num <= watermark'[q].num
      BY <1>11 DEF SignedBelow
    <3>1. CASE k = n
      BY <1>6, <1>7, <1>10, <1>11, <1>15, <3>1
    <3>2. CASE k \in 1 .. Len(blocks)
      <4>1. blocks[k].hs.block_num <= watermark[q].num /\ blocks'[k] = blocks[k]
        BY <1>11, <2>1, <3>2 DEF SignedBelow
      <4>2. watermark[q].num <= watermark'[q].num
        BY <1>1, <1>6, <1>15
      <4>3. watermark[q].num \in Nat /\ watermark'[q].num \in Nat
        BY <1>6, <1>15
      <4> QED
        BY <2>2, <3>2, <4>1, <4>2, <4>3
    <3> QED
      BY <1>12, <3>1, <3>2
  <2>4. DisjointOf(q)'
    <3> SUFFICES ASSUME NEW k \in 1 .. n, NEW l \in 1 .. n, k < l,
                        blocks'[k].hs.producer = q, blocks'[l].hs.producer = q
                 PROVE  Confirms(k)' \cap Confirms(l)' = {}
      BY <1>11 DEF DisjointOf
    <3>1. k \in 1 .. Len(blocks) /\ blocks'[k] = blocks[k]
      BY <1>4, <1>11
    <3>2. Confirms(k)' = Confirms(k)
      BY <3>1 DEF Confirms
    <3>3. CASE l \in 1 .. Len(blocks)
      <4>1. blocks'[l] = blocks[l]
        BY <1>11, <3>3
      <4>2. Confirms(l)' = Confirms(l)
        BY <4>1 DEF Confirms
      <4> QED
        BY <2>1, <3>1, <3>2, <3>3, <4>1, <4>2 DEF DisjointOf
    <3>4. CASE l = n
      <4>1. q = p /\ Confirms(l)' = (f.block_num - f.confirmed) .. f.block_num
        BY <1>10, <1>11, <3>4 DEF Confirms
      <4>2. blocks[k].hs.block_num <= w.num
        <5>1. q = p
          BY <4>1
        <5>2. w = watermark[q]
          BY <1>1, <5>1
        <5>3. blocks[k].hs.producer = q
          BY <3>1
        <5>4. SignedBelow(q)
          BY <2>1
        <5> QED
          BY <3>1, <5>2, <5>3, <5>4 DEF SignedBelow
      <4>3. PICK m, a : m = blocks[k].hs.block_num /\ a = blocks[k].hs.confirmed
        OBVIOUS
      <4>4. m \in Nat /\ a \in Nat /\ Confirms(k) = (m - a) .. m
        BY <3>1, <4>3 DEF NetInv, TreeInv, HeaderOK, DposInv, Confirms
      <4>5. m < h.block_num + 1 - c
        BY <1>8, <1>9, <4>2, <4>3, <4>4
      <4> QED
        BY <1>9, <1>10, <3>2, <4>1, <4>4, <4>5
    <3> QED
      BY <1>12, <3>3, <3>4
  <2> QED
    BY <2>3, <2>4
<1> QED
  BY <1>2, <1>13, <1>16, <1>17 DEF NetInv

\* A missed slot changes nothing that is signed, and a producer whose node
\* restarts is no longer spoken of.
LEMMA NetNext == NetInv /\ [Next]_vars => NetInv'
<1> SUFFICES ASSUME NetInv, [Next]_vars
             PROVE  NetInv'
  OBVIOUS
<1>1. CASE \E i \in DOMAIN blocks : Produce(i)
  BY <1>1, ProduceKeeps
<1>2. CASE Miss \/ UNCHANGED vars
  <2>1. UNCHANGED <<blocks, watermark, restarted>> /\ slot' \in Nat
    BY <1>2 DEF Miss, vars, NetInv, WatermarkInv
  <2> QED
    <3>1. TreeInv' /\ WatermarkInv'
      BY <2>1 DEF NetInv, TreeInv, WatermarkInv
    <3>2. ASSUME NEW q \in Producer \ restarted
          PROVE  SignedBelow(q)' /\ DisjointOf(q)'
      <4>1. SignedBelow(q) /\ DisjointOf(q)
        BY DEF NetInv
      <4> QED
        BY <2>1, <4>1 DEF SignedBelow, DisjointOf, Confirms
    <3> QED
      BY <2>1, <3>1, <3>2 DEF NetInv
<1>3. CASE \E p \in Producer : Restart(p)
  <2>1. PICK p \in Producer : Restart(p)
    BY <1>3
  <2>2. /\ watermark' = [watermark EXCEPT ![p] = NoWatermark]
        /\ restarted' = restarted \cup {p} /\ UNCHANGED <<blocks, head, slot>>
    BY <2>1 DEF Restart
  <2>3. TreeInv' /\ WatermarkInv'
    BY <2>2 DEF NetInv, TreeInv, WatermarkInv, NoWatermark
  <2>4. ASSUME NEW q \in Producer \ restarted'
        PROVE  SignedBelow(q)' /\ DisjointOf(q)'
    <3>1. q \in Producer \ restarted /\ watermark'[q] = watermark[q] /\ blocks' = blocks
      BY <2>2 DEF NetInv, WatermarkInv
    <3>2. SignedBelow(q) /\ DisjointOf(q)
      BY <3>1 DEF NetInv
    <3> QED
      BY <3>1, <3>2 DEF SignedBelow, DisjointOf, Confirms
  <2> QED
    BY <2>3, <2>4 DEF NetInv
<1> QED
  BY <1>1, <1>2, <1>3 DEF Next

\* A producer whose node runs on never signs overlapping ranges, for any number
\* of producers, slots and branches (start_block and consider_new_watermark of
\* producer_plugin).
THEOREM NetworkConfirmsDisjoint == Spec => []ConfirmsDisjoint
<1>1. NetInv => ConfirmsDisjoint
  <2> SUFFICES ASSUME NetInv, NEW p \in Producer \ restarted
               PROVE  SignsOnce(p)
    BY DEF ConfirmsDisjoint
  <2>1. DOMAIN blocks = 1 .. Len(blocks)
    BY LenProperties DEF NetInv, TreeInv
  <2>2. DisjointOf(p)
    BY DEF NetInv
  <2> QED
    BY <2>1, <2>2 DEF SignsOnce, DisjointOf
<1> QED
  BY <1>1, NetInit, NetNext, PTL DEF Spec

-----------------------------------------------------------------------------
\* The block numbers a header confirms, its own included; the producers that
\* confirm number n with one of the blocks b of the tree t; and how many they are.
Confirmed(h)     == (h.block_num - h.confirmed) .. h.block_num
Support(t, b, n) ==
    {p \in Producer : \E j \in b : t[j].hs.producer = p /\ n \in Confirmed(t[j].hs)}
Supporters(t, b) == [n \in Nat |-> Cardinality(Support(t, b, n))]

\* The confirmations a block needs, and the number of the root.
Needed   == RequiredConfs(Len(Schedule))
First(t) == t[Root].hs.block_num

\* A branch has one block of each number from the root's on, and with each of its
\* blocks the branch of that block.
BranchOK(t, k) ==
    /\ k \in t[k].branch /\ Root \in t[k].branch /\ t[k].branch \subseteq 1 .. k
    /\ \A j \in t[k].branch : t[j].branch \subseteq t[k].branch
    /\ \A j \in t[k].branch : t[j].hs.block_num \in First(t) .. t[k].hs.block_num
    /\ \A i, j \in t[k].branch : t[i].hs.block_num = t[j].hs.block_num => i = j
    /\ \A n \in First(t) .. t[k].hs.block_num : \E j \in t[k].branch : t[j].hs.block_num = n

\* producer_to_last_produced has the last block of every producer of the branch.
ProducedOK(t, k) ==
    \A j \in t[k].branch : t[j].hs.producer \in Producer =>
        /\ t[j].hs.producer \in DOMAIN t[k].hs.last_produced
        /\ t[k].hs.last_produced[t[j].hs.producer] \in Nat
        /\ t[j].hs.block_num <= t[k].hs.last_produced[t[j].hs.producer]

\* confirm_count is what is missing for each of the last blocks.
CountOK(t, k) ==
    Accounts(t[k].hs.confirm_count, t[k].hs.block_num, Supporters(t, t[k].branch), Needed)

\* Enough producers have confirmed number n, if it is after the root.
Agreed(t, b, n) == n <= First(t) \/ Supporters(t, b)[n] >= Needed

\* They have for all that is proposed or irreversible.
AgreedOK(t, k) ==
    /\ Agreed(t, t[k].branch, t[k].hs.proposed_lib) /\ Agreed(t, t[k].branch, t[k].hs.lib)
    /\ \A q \in DOMAIN t[k].hs.implied_irb : Agreed(t, t[k].branch, t[k].hs.implied_irb[q])

BlockOK(t, k) == BranchOK(t, k) /\ ProducedOK(t, k) /\ CountOK(t, k) /\ AgreedOK(t, k)

\* The producers that confirm a number are counted.
LEMMA SupportFinite ==
    ASSUME NEW t, NEW b, NEW n \in Nat
    PROVE  IsFiniteSet(Support(t, b, n)) /\ Supporters(t, b)[n] = Cardinality(Support(t, b, n))
           /\ Supporters(t, b)[n] \in Nat
<1>1. Support(t, b, n) \in SUBSET Producer
  BY DEF Support
<1>2. IsFiniteSet(Support(t, b, n))
  BY <1>1, ScheduleFacts, FS_Subset
<1> QED
  BY <1>2, FS_CardinalityType DEF Supporters

\* Blocks that are added to the tree change nothing of a branch.
LEMMA SupportKept ==
    ASSUME NEW t, NEW u, NEW b, \A j \in b : u[j] = t[j]
    PROVE  Supporters(u, b) = Supporters(t, b)
<1>1. \A n : Support(u, b, n) = Support(t, b, n)
  BY DEF Support
<1> QED
  BY <1>1 DEF Supporters

\* So what is known of it stays known.
LEMMA BlockKept ==
    ASSUME NEW t, NEW u, NEW k \in Nat, k # 0, \A j \in 1 .. k : u[j] = t[j], BlockOK(t, k)
    PROVE  BlockOK(u, k)
<1>1. u[k] = t[k] /\ u[Root] = t[Root] /\ First(u) = First(t)
  BY DEF Root, First
<1>2. BranchOK(t, k) /\ ProducedOK(t, k) /\ CountOK(t, k) /\ AgreedOK(t, k)
  BY DEF BlockOK
<1>3. \A j \in t[k].branch : u[j] = t[j]
  BY <1>2 DEF BranchOK
<1>4. Supporters(u, t[k].branch) = Supporters(t, t[k].branch)
  BY <1>3, SupportKept
<1>5. BranchOK(u, k)
  BY <1>1, <1>2, <1>3 DEF BranchOK
<1>6. ProducedOK(u, k)
  BY <1>1, <1>2, <1>3 DEF ProducedOK
<1>7. CountOK(u, k)
  BY <1>1, <1>2, <1>4 DEF CountOK
<1>8. AgreedOK(u, k)
  BY <1>1, <1>2, <1>4 DEF AgreedOK, Agreed
<1> QED
  BY <1>5, <1>6, <1>7, <1>8 DEF BlockOK

\* The header f that p makes of h when no schedule is pending.
Follows(f, h, p, c) ==
    /\ f.lib = CalcDposLastIrreversible(h, p)
    /\ f.proposed_lib = Confirm(h, c).proposed_lib
    /\ f.confirm_count = Confirm(h, c).confirm_count
    /\ f.last_produced =
         Renewed(h.last_produced, {p} \cup DOMAIN h.last_produced, p, f.block_num, f.lib)
    /\ f.implied_irb =
         Renewed(h.implied_irb, {p} \cup DOMAIN h.implied_irb, p, h.proposed_lib, f.lib)

\* next() makes it so.
LEMMA ChildFields ==
    ASSUME NEW h, HeaderOK(h), NEW s, NEW p, p = ScheduledProducer(Schedule, s), NEW c \in Nat,
           NEW f, f = Child(h, s, c)
    PROVE  Follows(f, h, p, c)
<1>1. PICK b : b = NextState(h, s, c)
  OBVIOUS
<1>2. f = Finished(b)
  BY <1>1 DEF Child
<1>3. h.active.producers = Schedule /\ h.pending.producers = << >>
  BY DEF HeaderOK
<1>4. /\ b.producer = p /\ b.lib = CalcDposLastIrreversible(h, p)
      /\ b.proposed_lib = Confirm(h, c).proposed_lib
      /\ b.confirm_count = Confirm(h, c).confirm_count
  BY <1>1, <1>3, NextFields
<1>5. ~ScheduleMatures(h, b.lib)
  BY <1>3 DEF ScheduleMatures
<1>6. PICK D, E : D = {p} \cup DOMAIN h.last_produced /\ E = {p} \cup DOMAIN h.implied_irb
  OBVIOUS
<1>7. b.last_produced = Renewed(h.last_produced, D, b.producer, b.block_num, b.lib)
  <2>1. D = {b.producer} \cup (IF ScheduleMatures(h, b.lib)
                               THEN Range(h.pending.producers)
                               ELSE DOMAIN h.last_produced)
    BY <1>4, <1>5, <1>6
  <2> QED
    BY <1>1, <2>1, NextProduced
<1>8. b.implied_irb = Renewed(h.implied_irb, E, b.producer, h.proposed_lib, b.lib)
  <2>1. E = IF ScheduleMatures(h, b.lib) THEN Range(h.pending.producers)
            ELSE {b.producer} \cup DOMAIN h.implied_irb
    BY <1>4, <1>5, <1>6
  <2> QED
    BY <1>1, <2>1, NextImplied
<1>9. /\ f.block_num = b.block_num /\ f.proposed_lib = b.proposed_lib /\ f.lib = b.lib
      /\ f.confirm_count = b.confirm_count /\ f.last_produced = b.last_produced
      /\ f.implied_irb = b.implied_irb
  BY <1>2, FinishedFields
<1> QED
  BY <1>4, <1>6, <1>7, <1>8, <1>9 DEF Follows

\* The tree u is t with one more block, the nth, which p signs on block i with
\* c confirmations, and whose header is f.
Adds(t, u, n, i, h, s, p, c, f) ==
    /\ n \in Nat /\ i \in 1 .. n - 1 /\ \A j \in 1 .. n - 1 : u[j] = t[j] /\ HeaderOK(t[j].hs)
    /\ u[n].branch = t[i].branch \cup {n} /\ u[n].hs = f
    /\ h = t[i].hs /\ p = ScheduledProducer(Schedule, s) /\ p \in Producer
    /\ c \in Nat /\ c <= h.block_num /\ ConfirmAccepted(h, p, c) /\ f = Child(h, s, c)
    /\ BlockOK(t, i)

\* It belongs to the branch of the block it is built on, and is the last there.
LEMMA AddedBranch ==
    ASSUME NEW t, NEW u, NEW n, NEW i, NEW h, NEW s, NEW p, NEW c, NEW f,
           Adds(t, u, n, i, h, s, p, c, f), NEW B, B = t[i].branch
    PROVE  /\ HeaderOK(h) /\ HeaderOK(f) /\ f.block_num = h.block_num + 1 /\ Follows(f, h, p, c)
           /\ f.confirmed = c /\ f.producer = p
           /\ n \notin B /\ u[n].branch = B \cup {n} /\ u[n].hs = f
           /\ \A j \in B : u[j] = t[j] /\ j \in 1 .. n - 1
           /\ First(u) = First(t) /\ First(t) \in Nat /\ First(t) <= h.block_num
<1>1. /\ n \in Nat /\ i \in 1 .. n - 1 /\ \A j \in 1 .. n - 1 : u[j] = t[j] /\ HeaderOK(t[j].hs)
      /\ u[n].branch = B \cup {n} /\ u[n].hs = f /\ h = t[i].hs /\ c \in Nat
      /\ p = ScheduledProducer(Schedule, s) /\ f = Child(h, s, c) /\ BranchOK(t, i)
  BY DEF Adds, BlockOK
<1>2. HeaderOK(h)
  BY <1>1
<1>3. HeaderOK(f) /\ f.block_num = h.block_num + 1 /\ f.confirmed = c /\ f.producer = p
  BY <1>1, <1>2, ChildHeader
<1>4. Follows(f, h, p, c)
  BY <1>1, <1>2, ChildFields
<1>5. B \subseteq 1 .. i /\ Root \in B
  BY <1>1 DEF BranchOK
<1>6. \A j \in B : j \in 1 .. n - 1
  BY <1>1, <1>5
<1>7. n \notin B
  BY <1>1, <1>6
<1>8. u[Root] = t[Root] /\ HeaderOK(t[Root].hs)
  BY <1>1, <1>5, <1>6
<1>9. First(u) = First(t) /\ First(t) \in Nat
  BY <1>8 DEF First, HeaderOK, DposInv
<1>10. First(t) <= h.block_num
  <2>1. t[Root].hs.block_num \in First(t) .. h.block_num
    BY <1>1, <1>5 DEF BranchOK
  <2>2. h.block_num \in Nat
    BY <1>2 DEF HeaderOK, DposInv
  <2> QED
    BY <1>9, <2>1, <2>2 DEF First
<1> QED
  BY <1>1, <1>2, <1>3, <1>6, <1>7, <1>9, <1>10, <1>4

\* The branch with the new block has one block of each number.
LEMMA AddedBranchOK ==
    ASSUME NEW t, NEW u, NEW n, NEW i, NEW h, NEW s, NEW p, NEW c, NEW f,
           Adds(t, u, n, i, h, s, p, c, f)
    PROVE  BranchOK(u, n)
<1>1. PICK B, C, a, m : B = t[i].branch /\ C = u[n].branch /\ a = First(t) /\ m = h.block_num
  OBVIOUS
<1>2. /\ n \notin B /\ C = B \cup {n} /\ u[n].hs = f /\ f.block_num = m + 1
      /\ \A j \in B : u[j] = t[j] /\ j \in 1 .. n - 1
      /\ First(u) = a /\ a \in Nat /\ a <= m /\ m \in Nat
  BY <1>1, AddedBranch DEF HeaderOK, DposInv
<1>3. BranchOK(t, i) /\ h = t[i].hs /\ n \in Nat
  BY DEF Adds, BlockOK
<1>4. /\ Root \in B /\ \A j \in B : t[j].branch \subseteq B /\ t[j].hs.block_num \in a .. m
      /\ \A k, j \in B : t[k].hs.block_num = t[j].hs.block_num => k = j
      /\ \A x \in a .. m : \E j \in B : t[j].hs.block_num = x
  BY <1>1, <1>3 DEF BranchOK
<1>5. \A x \in a .. m + 1 : x = m + 1 \/ x \in a .. m
  BY <1>2
<1>6. m + 1 \in a .. m + 1 /\ m + 1 \notin a .. m /\ \A x \in a .. m : x \in a .. m + 1
  BY <1>2
<1>7. n \in 1 .. n /\ \A j \in 1 .. n - 1 : j \in 1 .. n
  <2>1. n # 0
    BY <1>2, <1>4
  <2> QED
    BY <1>3, <2>1
<1>8. \A j \in C : u[j].branch \subseteq C /\ u[j].hs.block_num \in a .. m + 1
  <2> TAKE j \in C
  <2>1. CASE j = n
    BY <1>1, <1>2, <1>6, <2>1
  <2>2. CASE j \in B
    <3>1. u[j] = t[j]
      BY <1>2, <2>2
    <3>2. t[j].branch \subseteq B /\ t[j].hs.block_num \in a .. m
      BY <1>4, <2>2
    <3> QED
      BY <1>2, <1>6, <3>1, <3>2
  <2> QED
    BY <1>2, <2>1, <2>2
<1>9. ASSUME NEW k \in C, NEW j \in C, u[k].hs.block_num = u[j].hs.block_num
      PROVE  k = j
  BY <1>2, <1>4, <1>6, <1>9
<1>10. ASSUME NEW x \in a .. m + 1
       PROVE  \E j \in C : u[j].hs.block_num = x
  BY <1>2, <1>4, <1>5
<1>11. n \in C /\ Root \in C /\ C \subseteq 1 .. n
  BY <1>2, <1>4, <1>7
<1>12. First(u) = a /\ u[n].hs.block_num = m + 1
  BY <1>2
<1> QED
  BY <1>1, <1>8, <1>9, <1>10, <1>11, <1>12 DEF BranchOK

\* producer_to_last_produced has the new block too.
LEMMA AddedProducedOK ==
    ASSUME NEW t, NEW u, NEW n, NEW i, NEW h, NEW s, NEW p, NEW c, NEW f,
           Adds(t, u, n, i, h, s, p, c, f)
    PROVE  ProducedOK(u, n)
<1>1. PICK B, m, old, new, D :
         /\ B = t[i].branch /\ m = h.block_num /\ old = h.last_produced /\ new = f.last_produced
         /\ D = {p} \cup DOMAIN old
  OBVIOUS
<1>2. /\ u[n].branch = B \cup {n} /\ u[n].hs = f /\ f.block_num = m + 1 /\ f.producer = p
      /\ \A j \in B : u[j] = t[j]
      /\ m \in Nat /\ HeaderOK(h)
  BY <1>1, AddedBranch DEF HeaderOK, DposInv
<1>3. /\ BranchOK(t, i) /\ ProducedOK(t, i) /\ h = t[i].hs
      /\ p = ScheduledProducer(Schedule, s) /\ f = Child(h, s, c) /\ c \in Nat
      /\ \A j \in 1 .. n - 1 : HeaderOK(t[j].hs)
  BY DEF Adds, BlockOK
<1>4. new = Renewed(old, D, p, f.block_num, f.lib)
  <2>1. f.last_produced =
          Renewed(h.last_produced, {p} \cup DOMAIN h.last_produced, p, f.block_num, f.lib)
    <3>1. Follows(f, h, p, c)
      BY AddedBranch
    <3> QED
      BY <3>1 DEF Follows
  <2>2. D = {p} \cup DOMAIN h.last_produced /\ old = h.last_produced /\ new = f.last_produced
    BY <1>1
  <2> QED
    BY <2>1, <2>2
<1>5. /\ DOMAIN new = D
      /\ \A q \in D : new[q] = IF q = p THEN f.block_num
                               ELSE IF q \in DOMAIN old THEN old[q] ELSE f.lib
  BY <1>4, RenewedProperties
<1>6. new[p] = m + 1 /\ \A q \in DOMAIN old : q \in D /\ (q # p => new[q] = old[q])
  BY <1>1, <1>2, <1>5
<1>7. m + 1 \in Nat
  BY <1>2
<1>8. ASSUME NEW j \in B, NEW q \in Producer, q = t[j].hs.producer
      PROVE  q \in D /\ new[q] \in Nat /\ t[j].hs.block_num <= new[q]
  <2>1. q \in DOMAIN old /\ old[q] \in Nat /\ t[j].hs.block_num <= old[q]
    BY <1>1, <1>3, <1>8 DEF ProducedOK
  <2>2. t[j].hs.block_num \in First(t) .. m
    BY <1>1, <1>3 DEF BranchOK
  <2>3. CASE q = p
    <3>1. t[j].hs.block_num <= m + 1 /\ new[q] = m + 1
      BY <1>2, <1>6, <2>2, <2>3
    <3> QED
      BY <1>1, <1>7, <2>3, <3>1
  <2>4. CASE q # p
    BY <1>6, <2>1, <2>4
  <2> QED
    BY <2>3, <2>4
<1>9. p \in D /\ m + 1 <= m + 1
  BY <1>1, <1>2
<1>10. ASSUME NEW j \in B \cup {n}, u[j].hs.producer \in Producer
       PROVE  /\ u[j].hs.producer \in DOMAIN new /\ new[u[j].hs.producer] \in Nat
              /\ u[j].hs.block_num <= new[u[j].hs.producer]
  <2>1. CASE j = n
    <3>1. u[j].hs.producer = p /\ u[j].hs.block_num = m + 1
      BY <1>2, <2>1
    <3> QED
      BY <1>5, <1>6, <1>7, <1>9, <3>1
  <2>2. CASE j \in B
    <3>1. u[j] = t[j]
      BY <1>2, <2>2
    <3> QED
      BY <1>5, <1>8, <1>10, <2>2, <3>1
  <2> QED
    BY <2>1, <2>2
<1> QED
  BY <1>1, <1>2, <1>10 DEF ProducedOK

\* A producer that signs has confirmed none of the blocks before that it
\* confirms now: the assert of next() on double confirmations, in uint32_t.
LEMMA AddedNotBefore ==
    ASSUME NEW t, NEW u, NEW n, NEW i, NEW h, NEW s, NEW p, NEW c, NEW f,
           Adds(t, u, n, i, h, s, p, c, f), NEW B, B = t[i].branch,
           NEW m, m = h.block_num, NEW k \in Nat, k >= m + 1 - c
    PROVE  p \notin Support(t, B, k)
<1> SUFFICES ASSUME p \in Support(t, B, k)
             PROVE  FALSE
  OBVIOUS
<1>1. PICK j \in B : t[j].hs.producer = p /\ k \in Confirmed(t[j].hs)
  BY DEF Support
<1>2. PICK a, x, l : a = t[j].hs.block_num /\ x = t[j].hs.confirmed /\ l = h.last_produced[p]
  OBVIOUS
<1>3. /\ BranchOK(t, i) /\ ProducedOK(t, i) /\ h = t[i].hs /\ p \in Producer /\ c \in Nat
      /\ c <= m /\ ConfirmAccepted(h, p, c) /\ \A y \in 1 .. n - 1 : HeaderOK(t[y].hs)
  BY DEF Adds, BlockOK
<1>4. p \in DOMAIN h.last_produced /\ l \in Nat /\ a <= l
  BY <1>1, <1>2, <1>3 DEF ProducedOK
<1>5. j \in 1 .. n - 1 /\ HeaderOK(h)
  BY AddedBranch
<1>6. a \in Nat /\ x \in Nat /\ m \in Nat
  BY <1>2, <1>3, <1>5 DEF HeaderOK, DposInv
<1>7. k <= a
  BY <1>1, <1>2, <1>6 DEF Confirmed
<1>8. PICK y \in Nat : y = (m + 1) - c
  <2>1. (m + 1) - c \in Nat
    BY <1>3, <1>6
  <2> QED
    BY <2>1
<1>9. l < y % UInt32
  <2>1. l < ((m + 1) - c) % UInt32
    BY <1>2, <1>3, <1>4 DEF ConfirmAccepted, Minus32
  <2> QED
    BY <1>8, <2>1
<1>10. UInt32 \in Nat /\ UInt32 # 0
  BY WidthAssumption
<1>11. y % UInt32 <= y /\ y % UInt32 \in Nat
  BY <1>10
<1>12. k >= y
  BY <1>3, <1>6, <1>8
<1> QED
  BY <1>4, <1>6, <1>7, <1>9, <1>11, <1>12

\* So it joins those that have confirmed them.
LEMMA AddedJoins ==
    ASSUME NEW t, NEW u, NEW n, NEW i, NEW h, NEW s, NEW p, NEW c, NEW f,
           Adds(t, u, n, i, h, s, p, c, f), NEW B, B = t[i].branch, NEW C, C = u[n].branch,
           NEW m, m = h.block_num + 1
    PROVE  Joins(Supporters(t, B), Supporters(u, C), m, c)
<1>1. PICK S, T : S = Supporters(t, B) /\ T = Supporters(u, C)
  OBVIOUS
<1>2. /\ C = B \cup {n} /\ u[n].hs = f /\ f.block_num = m /\ f.confirmed = c /\ f.producer = p
      /\ \A j \in B : u[j] = t[j]
  BY AddedBranch
<1>3. p \in Producer
  BY DEF Adds
<1>4. ASSUME NEW k \in Nat
      PROVE  /\ S[k] \in Nat /\ T[k] \in Nat /\ S[k] <= T[k]
             /\ k >= m - c /\ k <= m => S[k] + 1 <= T[k]
  <2>1. PICK A, E : A = Support(t, B, k) /\ E = Support(u, C, k)
    OBVIOUS
  <2>2. A \subseteq E
    BY <1>2, <2>1 DEF Support
  <2>3. /\ IsFiniteSet(A) /\ IsFiniteSet(E) /\ S[k] = Cardinality(A) /\ T[k] = Cardinality(E)
        /\ S[k] \in Nat /\ T[k] \in Nat
    BY <1>1, <2>1, SupportFinite
  <2>4. S[k] <= T[k]
    BY <2>2, <2>3, FS_Subset
  <2>5. ASSUME k >= m - c, k <= m
        PROVE  S[k] + 1 <= T[k]
    <3>1. k \in Confirmed(f)
      <4>1. c \in Nat /\ h.block_num \in Nat
        BY AddedBranch DEF Adds, HeaderOK, DposInv
      <4> QED
        BY <1>2, <2>5, <4>1 DEF Confirmed
    <3>2. p \in E
      BY <1>2, <1>3, <2>1, <3>1 DEF Support
    <3>3. p \notin A
      <4>1. PICK b : b = h.block_num
        OBVIOUS
      <4>2. b \in Nat /\ c \in Nat /\ m = b + 1
        BY <4>1, AddedBranch DEF Adds, HeaderOK, DposInv
      <4>3. k >= b + 1 - c
        BY <2>5, <4>2
      <4> QED
        BY <2>1, <4>1, <4>3, AddedNotBefore
    <3>4. A \cup {p} \in SUBSET E
      BY <2>2, <3>2
    <3>5. Cardinality(A \cup {p}) = Cardinality(A) + 1
      BY <2>3, <3>3, FS_AddElement
    <3>6. Cardinality(A \cup {p}) <= Cardinality(E)
      BY <2>3, <3>4, FS_Subset
    <3> QED
      BY <2>3, <3>5, <3>6
  <2> QED
    BY <2>3, <2>4, <2>5
<1>5. Joins(S, T, m, c)
  BY <1>4 DEF Joins
<1> QED
  BY <1>1, <1>5

\* What was agreed stays agreed.
LEMMA AddedAgreed ==
    ASSUME NEW t, NEW u, NEW n, NEW i, NEW h, NEW s, NEW p, NEW c, NEW f,
           Adds(t, u, n, i, h, s, p, c, f), NEW B, B = t[i].branch, NEW C, C = u[n].branch,
           NEW k \in Nat, Agreed(t, B, k)
    PROVE  Agreed(u, C, k)
<1>1. PICK S, T, m : S = Supporters(t, B) /\ T = Supporters(u, C) /\ m = h.block_num + 1
  OBVIOUS
<1>2. Joins(S, T, m, c)
  BY <1>1, AddedJoins
<1>3. S[k] \in Nat /\ T[k] \in Nat /\ S[k] <= T[k]
  BY <1>2 DEF Joins
<1>4. First(u) = First(t)
  BY AddedBranch
<1>5. Needed \in Nat
  <2>1. Len(Schedule) \in Nat
    BY ScheduleFacts
  <2> QED
    BY <2>1 DEF Needed, RequiredConfs
<1>6. CASE S[k] >= Needed
  <2>1. T[k] >= Needed
    BY <1>3, <1>5, <1>6
  <2> QED
    BY <1>1, <2>1 DEF Agreed
<1>7. CASE k <= First(t)
  BY <1>4, <1>7 DEF Agreed
<1> QED
  BY <1>1, <1>6, <1>7 DEF Agreed

\* The counters and the lib the new block proposes.
LEMMA AddedCountOK ==
    ASSUME NEW t, NEW u, NEW n, NEW i, NEW h, NEW s, NEW p, NEW c, NEW f,
           Adds(t, u, n, i, h, s, p, c, f)
    PROVE  CountOK(u, n) /\ Agreed(u, u[n].branch, f.proposed_lib)
<1>1. PICK B, C, S, T, b, m, r, old, conf :
         /\ B = t[i].branch /\ C = u[n].branch /\ S = Supporters(t, B) /\ T = Supporters(u, C)
         /\ b = h.block_num /\ m = h.block_num + 1 /\ r = Needed /\ old = h.confirm_count
         /\ conf = Confirm(h, c)
  OBVIOUS
<1>2. Joins(S, T, m, c)
  BY <1>1, AddedJoins
<1>3. HeaderOK(h) /\ HeaderOK(f) /\ u[n].hs = f /\ f.block_num = m
  BY <1>1, AddedBranch
<1>4. /\ CountOK(t, i) /\ AgreedOK(t, i) /\ h = t[i].hs /\ c \in Nat
      /\ p = ScheduledProducer(Schedule, s) /\ f = Child(h, s, c)
  BY DEF Adds, BlockOK
<1>5. Accounts(old, b, S, r)
  BY <1>1, <1>4 DEF CountOK
<1>6. DposInv(h) /\ h.active.producers = Schedule
  BY <1>3 DEF HeaderOK
<1>7. r \in Byte /\ r # 0
  <2>1. PICK l \in Nat : l = Len(Schedule) /\ l <= 125
    BY ScheduleFacts
  <2>2. r = RequiredConfs(l)
    BY <1>1, <2>1 DEF Needed
  <2>3. RequiredConfs(l) \in Byte
    BY <2>1, ConfirmationsFit
  <2>4. RequiredConfs(l) # 0
    BY DEF RequiredConfs
  <2> QED
    BY <2>2, <2>3, <2>4
<1>8. Needs(h, r)
  BY <1>1, <1>6, <1>7 DEF Needs, Needed
<1>9. BeforeNext(h, b, m, S, r, old)
  BY <1>1, <1>5, <1>6, <1>7, <1>8 DEF BeforeNext
<1>10. PICK q : q = h.proposed_lib /\ AccountsFor(conf, m, T, r, q)
  BY <1>1, <1>2, <1>4, <1>9, ConfirmAccounts
<1>11. f.proposed_lib = conf.proposed_lib /\ f.confirm_count = conf.confirm_count
  <2>1. Follows(f, h, p, c)
    BY AddedBranch
  <2>2. f.proposed_lib = Confirm(h, c).proposed_lib /\ f.confirm_count = Confirm(h, c).confirm_count
    BY <2>1 DEF Follows
  <2> QED
    BY <1>1, <2>2
<1>12. CountOK(u, n)
  BY <1>1, <1>3, <1>10, <1>11 DEF CountOK, AccountsFor
<1>13. CASE conf.proposed_lib = h.proposed_lib
  <2>1. Agreed(t, B, h.proposed_lib) /\ h.proposed_lib \in Nat
    BY <1>1, <1>4, <1>6 DEF AgreedOK, DposInv
  <2>2. Agreed(u, C, h.proposed_lib)
    BY <1>1, <2>1, AddedAgreed
  <2> QED
    BY <1>1, <1>11, <1>12, <1>13, <2>2
<1>14. CASE T[conf.proposed_lib] >= r
  BY <1>1, <1>11, <1>12, <1>14 DEF Agreed
<1> QED
  BY <1>10, <1>13, <1>14 DEF AccountsFor

\* The lib of the new block and what its producer implies.
LEMMA AddedAgreedOK ==
    ASSUME NEW t, NEW u, NEW n, NEW i, NEW h, NEW s, NEW p, NEW c, NEW f,
           Adds(t, u, n, i, h, s, p, c, f)
    PROVE  AgreedOK(u, n)
<1>1. PICK B, C, D, E, lib, irb, old :
         /\ B = t[i].branch /\ C = u[n].branch /\ D = DOMAIN h.implied_irb /\ E = {p} \cup D
         /\ lib = f.lib /\ irb = f.implied_irb /\ old = h.implied_irb
  OBVIOUS
<1>2. HeaderOK(h) /\ u[n].hs = f /\ First(u) \in Nat
  BY <1>1, AddedBranch
<1>3. /\ AgreedOK(t, i) /\ h = t[i].hs /\ c \in Nat
      /\ p = ScheduledProducer(Schedule, s) /\ f = Child(h, s, c)
  BY DEF Adds, BlockOK
<1>4. DposInv(h) /\ h.proposed_lib \in Nat /\ \A q \in D : old[q] \in Nat
  BY <1>1, <1>2 DEF HeaderOK, DposInv
<1>5. Agreed(u, C, h.proposed_lib)
  BY <1>1, <1>3, <1>4, AddedAgreed DEF AgreedOK
<1>6. ASSUME NEW q \in D
      PROVE  Agreed(u, C, old[q])
  <2>1. Agreed(t, B, old[q])
    BY <1>1, <1>3 DEF AgreedOK
  <2>2. PICK k \in Nat : k = old[q]
    BY <1>4
  <2>3. Agreed(t, B, k)
    BY <2>1, <2>2
  <2>4. Agreed(u, C, k)
    BY <1>1, <2>3, AddedAgreed
  <2> QED
    BY <2>2, <2>4
<1>7. /\ lib = CalcDposLastIrreversible(h, p)
      /\ irb = Renewed(old, E, p, h.proposed_lib, lib)
  <2>1. /\ f.lib = CalcDposLastIrreversible(h, p)
        /\ f.implied_irb =
             Renewed(h.implied_irb, {p} \cup DOMAIN h.implied_irb, p, h.proposed_lib, f.lib)
    <3>1. Follows(f, h, p, c)
      BY AddedBranch
    <3> QED
      BY <3>1 DEF Follows
  <2>2. E = {p} \cup DOMAIN h.implied_irb /\ old = h.implied_irb /\ irb = f.implied_irb /\ lib = f.lib
    BY <1>1
  <2> QED
    BY <2>1, <2>2
<1>8. lib = 0 \/ lib = h.proposed_lib \/ \E q \in D : lib = old[q]
  BY <1>1, <1>4, <1>7, CalcChooses
<1>9. Agreed(u, C, lib)
  <2>1. CASE lib = 0
    BY <1>2, <2>1 DEF Agreed
  <2>2. CASE lib = h.proposed_lib
    BY <1>5, <2>2
  <2>3. CASE \E q \in D : lib = old[q]
    BY <1>6, <2>3
  <2> QED
    BY <1>8, <2>1, <2>2, <2>3
<1>10. /\ DOMAIN irb = E
       /\ \A q \in E : irb[q] = IF q = p THEN h.proposed_lib
                                ELSE IF q \in DOMAIN old THEN old[q] ELSE lib
  BY <1>7, RenewedProperties
<1>11. ASSUME NEW q \in DOMAIN irb
       PROVE  Agreed(u, C, irb[q])
  BY <1>1, <1>5, <1>6, <1>9, <1>10
<1>12. Agreed(u, C, f.proposed_lib)
  BY <1>1, AddedCountOK
<1> QED
  BY <1>1, <1>2, <1>9, <1>11, <1>12 DEF AgreedOK

\* All that is known of the blocks of the tree is true of the new one.
LEMMA AddedBlockOK ==
    ASSUME NEW t, NEW u, NEW n, NEW i, NEW h, NEW s, NEW p, NEW c, NEW f,
           Adds(t, u, n, i, h, s, p, c, f)
    PROVE  BlockOK(u, n)
<1>1. BranchOK(u, n) /\ ProducedOK(u, n)
  BY AddedBranchOK, AddedProducedOK
<1>2. CountOK(u, n) /\ AgreedOK(u, n)
  BY AddedCountOK, AddedAgreedOK
<1> QED
  BY <1>1, <1>2 DEF BlockOK

-----------------------------------------------------------------------------
\* The system account's single confirmation is enough, so nothing is missing at
\* the root.
LEMMA RootWindow ==
    ASSUME NEW f, f = Child(Before, 0, 0)
    PROVE  f.confirm_count = << >> /\ f.block_num = 4
<1>1. PICK h, b, g, R, u : /\ h = Before /\ b = NextState(h, 0, 0) /\ g = GrownConfirmCount(h)
                           /\ R = Reached(g, 0) /\ u = Counted(g, 0)
  OBVIOUS
<1>2. f = Finished(b)
  BY <1>1 DEF Child
<1>3. h.block_num = 3 /\ h.confirm_count = << >> /\ h.active.producers = <<SystemAccount>>
  BY <1>1 DEF Before
<1>4. b.confirm_count = Confirm(h, 0).confirm_count /\ b.block_num = 4
  BY <1>1, <1>3, NextFields
<1>5. RequiredConfs(Len(h.active.producers)) = 1
  <2>1. Len(<<SystemAccount>>) = 1
    OBVIOUS
  <2> QED
    BY <1>3, <2>1 DEF RequiredConfs
<1>6. g = <<1>>
  <2>1. MaxTracked \in Nat /\ MaxTracked # 0 /\ Len(<< >>) = 0
    BY WidthAssumption
  <2>2. g = Append(<< >>, 1)
    BY <1>1, <1>3, <1>5, <2>1 DEF GrownConfirmCount
  <2> QED
    BY <2>2
<1>7. Len(g) = 1 /\ g[1] = 1
  BY <1>6
<1>8. Lowest(g, 0) = 1
  <2>1. Max({1, 1}) \in {1, 1}
    <3>1. 1 \in Int
      OBVIOUS
    <3> QED
      BY <3>1, MaxOfTwo
  <2> QED
    BY <1>7, <2>1 DEF Lowest
<1>9. Decrement8(1) = 0
  BY DEF Decrement8
<1>10. u[1] = 0
  BY <1>1, <1>7, <1>8, <1>9 DEF Counted
<1>11. R = {1}
  BY <1>1, <1>7, <1>8, <1>10 DEF Reached
<1>12. Max(R) = 1
  <2>1. IsFiniteSet({1}) /\ {1} # {} /\ {1} \in SUBSET Nat
    BY FS_Singleton
  <2> QED
    BY <1>11, <2>1, MaxOfFinite
<1>13. Confirm(h, 0).confirm_count = SubSeq(u, 2, 1)
  <2>1. Confirm(h, 0) = [proposed_lib  |-> h.block_num + 1 - (Len(g) - Max(R)),
                         confirm_count |-> SubSeq(u, Max(R) + 1, Len(g))]
    BY <1>1, <1>11, ConfirmLoop
  <2>2. Max(R) + 1 = 2
    BY <1>12
  <2> QED
    BY <1>7, <2>1, <2>2
<1>14. SubSeq(u, 2, 1) = << >>
  BY DEF SubSeq
<1>15. f.confirm_count = b.confirm_count /\ f.block_num = b.block_num
  BY <1>2, FinishedFields
<1> QED
  BY <1>4, <1>13, <1>14, <1>15

\* The root is the only block of the first number, and nothing above it is
\* proposed.
LEMMA RootBlockOK ==
    ASSUME NEW t, NEW f, f = Child(Before, 0, 0), t[Root].branch = {Root}, t[Root].hs = f
    PROVE  BlockOK(t, Root)
<1>1. HeaderOK(f) /\ f.producer \notin Producer /\ f.confirm_count = << >> /\ f.block_num = 4
  BY RootHeader, RootWindow
<1>2. First(t) = 4
  BY <1>1 DEF First
<1>3. Root \in 1 .. Root
  BY DEF Root
<1>4. BranchOK(t, Root)
  BY <1>1, <1>2, <1>3 DEF BranchOK
<1>5. ProducedOK(t, Root)
  BY <1>1 DEF ProducedOK
<1>6. CountOK(t, Root)
  <2>1. Len(<< >>) = 0
    OBVIOUS
  <2> QED
    BY <1>1, <2>1 DEF CountOK, Accounts
<1>7. AgreedOK(t, Root)
  <2>1. /\ f.proposed_lib <= 4 /\ f.lib <= 4
        /\ \A q \in DOMAIN f.implied_irb : f.implied_irb[q] <= 4
    <3>1. /\ f.proposed_lib \in Nat /\ f.lib \in Nat /\ f.proposed_lib <= 4 /\ f.lib < 4
          /\ \A q \in DOMAIN f.implied_irb :
                f.implied_irb[q] \in Nat /\ f.implied_irb[q] <= f.proposed_lib
      BY <1>1 DEF HeaderOK, DposInv
    <3> QED
      BY <3>1
  <2> QED
    BY <1>2, <2>1 DEF AgreedOK, Agreed
<1> QED
  BY <1>4, <1>5, <1>6, <1>7 DEF BlockOK

\* What is known of every block of the tree, and that few nodes restart.
AgreedInv == \A k \in 1 .. Len(blocks) : BlockOK(blocks, k)
FewRestarted ==
    /\ restarted \subseteq Producer /\ Cardinality(restarted) <= MaxRestarted
FinalInv == NetInv /\ AgreedInv /\ FewRestarted

\* There is only the root at the beginning, and no node has restarted.
LEMMA FinalInit == Init => FinalInv
<1> SUFFICES ASSUME Init
             PROVE  AgreedInv /\ FewRestarted
  BY NetInit DEF FinalInv
<1>1. PICK f, b : f = Child(Before, 0, 0) /\ b = [branch |-> {Root}, hs |-> f]
  OBVIOUS
<1>2. blocks = <<b>> /\ restarted = {}
  BY <1>1 DEF Init
<1>3. Len(blocks) = 1 /\ blocks[Root].branch = {Root} /\ blocks[Root].hs = f
  BY <1>1, <1>2 DEF Root
<1>4. BlockOK(blocks, Root)
  BY <1>1, <1>3, RootBlockOK
<1>5. AgreedInv
  BY <1>3, <1>4 DEF AgreedInv, Root
<1>6. FewRestarted
  BY <1>2, FS_EmptySet, NetworkAssumption DEF FewRestarted
<1> QED
  BY <1>5, <1>6

\* Signing a block: nothing that was known changes, and it is known of the new
\* block too.
LEMMA FinalProduce ==
    ASSUME NetInv, AgreedInv, NEW i \in DOMAIN blocks, Produce(i)
    PROVE  AgreedInv'
<1>1. PICK h, p, c, n, w, f, b, s, t, u :
         /\ h = blocks[i].hs /\ p = ScheduledProducer(h.active.producers, slot)
         /\ w = watermark[p].num /\ c = BlocksToConfirm(h, w) /\ n = Len(blocks) + 1
         /\ f = Child(h, slot, c) /\ b = [branch |-> blocks[i].branch \cup {n}, hs |-> f]
         /\ s = slot /\ t = blocks /\ u = blocks'
  OBVIOUS
<1>2. MayProduce(p, h) /\ ConfirmAccepted(h, p, c) /\ u = Append(t, b)
  BY <1>1 DEF Produce
<1>3. PICK S : t \in Seq(S)
  BY <1>1 DEF NetInv, TreeInv
<1>4. /\ Len(t) \in Nat /\ n \in Nat /\ n # 0 /\ DOMAIN t = 1 .. Len(t) /\ Len(t) = n - 1
  BY <1>1, <1>3, LenProperties
<1>5. i \in 1 .. n - 1 /\ \A j \in 1 .. n - 1 : HeaderOK(t[j].hs) /\ BlockOK(t, j)
  BY <1>1, <1>4 DEF NetInv, TreeInv, AgreedInv
<1>6. HeaderOK(h) /\ h = t[i].hs
  BY <1>1, <1>5
<1>7. s \in Nat /\ p = ScheduledProducer(Schedule, s) /\ p \in Producer
  BY <1>1, <1>6, ScheduleFacts DEF NetInv, WatermarkInv, HeaderOK
<1>8. w \in Nat /\ w <= h.block_num
  BY <1>1, <1>2, <1>7 DEF MayProduce, NetInv, WatermarkInv
<1>9. c \in Nat /\ h.block_num \in Nat /\ w < h.block_num + 1 - c
  BY <1>1, <1>6, <1>8, SignedAbove
<1>10. c <= h.block_num
  BY <1>8, <1>9
<1>11. Len(u) = n /\ u[n] = b /\ \A j \in 1 .. n - 1 : u[j] = t[j]
  <2>1. t \in Seq(S \cup {b}) /\ b \in S \cup {b}
    BY <1>3
  <2>2. u = Append(t, b)
    BY <1>2
  <2>3. Len(u) = Len(t) + 1 /\ u[Len(t) + 1] = b /\ \A j \in 1 .. Len(t) : u[j] = t[j]
    BY <2>1, <2>2, AppendProperties
  <2>4. Len(t) = n - 1 /\ n = Len(t) + 1
    BY <1>1, <1>4
  <2> QED
    BY <2>3, <2>4
<1>12. u[n].branch = t[i].branch \cup {n} /\ u[n].hs = f
  BY <1>1, <1>11
<1>13. Adds(t, u, n, i, h, s, p, c, f)
  BY <1>1, <1>2, <1>4, <1>5, <1>6, <1>7, <1>9, <1>10, <1>11, <1>12 DEF Adds
<1>14. BlockOK(u, n)
  BY <1>13, AddedBlockOK
<1>15. ASSUME NEW k \in 1 .. n - 1
       PROVE  BlockOK(u, k)
  <2>1. k \in Nat /\ k # 0 /\ \A j \in 1 .. k : j \in 1 .. n - 1
    BY <1>4
  <2>2. \A j \in 1 .. k : u[j] = t[j]
    BY <1>11, <2>1
  <2> QED
    BY <1>5, <2>1, <2>2, BlockKept
<1>16. \A k \in 1 .. n : k = n \/ k \in 1 .. n - 1
  BY <1>4
<1>17. \A k \in 1 .. Len(u) : BlockOK(u, k)
  BY <1>11, <1>14, <1>15, <1>16
<1> QED
  BY <1>1, <1>17 DEF AgreedInv

\* Only Produce changes the tree, and only Restart adds a node that has restarted.
LEMMA FinalNext == FinalInv /\ [Next]_vars => FinalInv'
<1> SUFFICES ASSUME FinalInv, [Next]_vars
             PROVE  AgreedInv' /\ FewRestarted'
  BY NetNext DEF FinalInv
<1>1. NetInv /\ AgreedInv /\ FewRestarted
  BY DEF FinalInv
<1>2. CASE \E i \in DOMAIN blocks : Produce(i)
  <2>1. PICK i \in DOMAIN blocks : Produce(i)
    BY <1>2
  <2>2. AgreedInv'
    BY <1>1, <2>1, FinalProduce
  <2>3. restarted' = restarted
    BY <2>1 DEF Produce
  <2> QED
    BY <1>1, <2>2, <2>3 DEF FewRestarted
<1>3. CASE Miss \/ UNCHANGED vars
  <2>1. UNCHANGED <<blocks, restarted>>
    BY <1>3 DEF Miss, vars
  <2> QED
    BY <1>1, <2>1 DEF AgreedInv, FewRestarted
<1>4. CASE \E p \in Producer : Restart(p)
  <2>1. PICK p \in Producer : Restart(p)
    BY <1>4
  <2>2. /\ restarted' = restarted \cup {p} /\ blocks' = blocks
        /\ Cardinality(restarted \cup {p}) <= MaxRestarted
    BY <2>1 DEF Restart
  <2> QED
    BY <1>1, <2>2 DEF AgreedInv, FewRestarted
<1> QED
  BY <1>2, <1>3, <1>4 DEF Next

-----------------------------------------------------------------------------
\* Any two sets of producers that are each enough to confirm a block have one in
\* common whose node has not restarted, when at most a third restart.
LEMMA QuorumsMeet ==
    ASSUME 3 * MaxRestarted <= Len(Schedule), FewRestarted,
           NEW A \in SUBSET Producer, NEW B \in SUBSET Producer,
           Cardinality(A) >= Needed, Cardinality(B) >= Needed
    PROVE  \E p \in A \cap B : p \notin restarted
<1>1. PICK a, b, d, e, l, m, r : /\ a = Cardinality(A) /\ b = Cardinality(B) /\ d = Cardinality(A \cup B)
                                 /\ e = Cardinality(A \cap B) /\ l = Len(Schedule) /\ m = MaxRestarted
                                 /\ r = Needed
  OBVIOUS
<1>2. IsFiniteSet(Producer) /\ Cardinality(Producer) = l /\ l \in Nat
  BY <1>1, ScheduleFacts, NetworkAssumption DEF Producer
<1>3. IsFiniteSet(A) /\ IsFiniteSet(B) /\ IsFiniteSet(A \cap B) /\ IsFiniteSet(restarted)
  <2>1. A \cap B \in SUBSET Producer /\ restarted \in SUBSET Producer
    BY DEF FewRestarted
  <2> QED
    BY <1>2, <2>1, FS_Subset
<1>4. a \in Nat /\ b \in Nat /\ d \in Nat /\ e \in Nat /\ d = a + b - e /\ d <= l
  <2>1. A \cup B \in SUBSET Producer
    OBVIOUS
  <2>2. IsFiniteSet(A \cup B) /\ d = a + b - e
    BY <1>1, <1>3, FS_Union
  <2>3. d <= l
    BY <1>1, <1>2, <2>1, FS_Subset
  <2> QED
    BY <1>1, <1>3, <2>2, <2>3, FS_CardinalityType
<1>5. m \in Nat
  BY <1>1, NetworkAssumption
<1>6. r \in Nat /\ 3 * r > 2 * l
  BY <1>1, <1>2 DEF Needed, RequiredConfs
<1>7. a >= r /\ b >= r /\ 3 * m <= l
  BY <1>1
<1>8. e > m
  BY <1>2, <1>4, <1>5, <1>6, <1>7
<1>9. SUFFICES ASSUME A \cap B \subseteq restarted
               PROVE  FALSE
  OBVIOUS
<1>10. e <= Cardinality(restarted) /\ Cardinality(restarted) \in Nat
  BY <1>1, <1>3, <1>9, FS_Subset, FS_CardinalityType
<1>11. Cardinality(restarted) <= m
  BY <1>1 DEF FewRestarted
<1> QED
  BY <1>4, <1>5, <1>8, <1>10, <1>11

\* BlockAt finds the block of a number on a branch: the root, up to its number.
LEMMA BlockAtFinds ==
    ASSUME NetInv, AgreedInv, NEW i \in 1 .. Len(blocks), NEW n \in Nat, n <= blocks[i].hs.block_num,
           NEW a, a = BlockAt(i, n), NEW x, x = blocks[a].hs.block_num
    PROVE  /\ a \in blocks[i].branch
           /\ \/ a = Root /\ x = First(blocks)
              \/ n = x /\ x > First(blocks)
<1>1. PICK r, m, B : r = First(blocks) /\ m = blocks[i].hs.block_num /\ B = blocks[i].branch
  OBVIOUS
<1>2. BranchOK(blocks, i) /\ HeaderOK(blocks[i].hs)
  BY DEF AgreedInv, BlockOK, NetInv, TreeInv
<1>3. /\ Root \in B /\ blocks[Root].hs.block_num = r /\ r \in r .. m
      /\ \A k, j \in B : blocks[k].hs.block_num = blocks[j].hs.block_num => k = j
      /\ \A y \in r .. m : \E j \in B : blocks[j].hs.block_num = y
  BY <1>1, <1>2 DEF BranchOK, First
<1>4. m \in Nat /\ r \in Int /\ r <= m
  BY <1>1, <1>2, <1>3 DEF HeaderOK, DposInv
<1>5. PICK y : y = Max({n, r})
  OBVIOUS
<1>6. y \in {n, r} /\ n <= y /\ r <= y
  <2>1. n \in Int /\ r \in Int
    BY <1>4
  <2>2. Max({n, r}) \in {n, r} /\ n <= Max({n, r}) /\ r <= Max({n, r})
    BY <2>1, MaxOfTwo
  <2> QED
    BY <1>5, <2>2
<1>7. y \in r .. m
  BY <1>1, <1>4, <1>6
<1>8. a = CHOOSE j \in B : blocks[j].hs.block_num = y
  BY <1>1, <1>5 DEF BlockAt, First
<1>9. a \in B /\ x = y
  BY <1>3, <1>7, <1>8
<1>10. CASE y = r
  BY <1>1, <1>3, <1>9, <1>10
<1>11. CASE y # r
  BY <1>1, <1>4, <1>6, <1>9, <1>11
<1> QED
  BY <1>1, <1>9, <1>10, <1>11

\* A block that is final at a number above the root's has enough producers.
LEMMA FinalIsAgreed ==
    ASSUME NetInv, AgreedInv, NEW i \in 1 .. Len(blocks), NEW a \in Final(i),
           NEW x, x = blocks[a].hs.block_num
    PROVE  /\ a \in blocks[i].branch
           /\ \/ a = Root
              \/ x \in Nat /\ x > First(blocks)
                 /\ Cardinality(Support(blocks, blocks[i].branch, x)) >= Needed
<1>1. PICK h, B, t : h = blocks[i].hs /\ B = blocks[i].branch /\ t = blocks
  OBVIOUS
<1>2. AgreedOK(t, i) /\ HeaderOK(h)
  BY <1>1 DEF AgreedInv, BlockOK, NetInv, TreeInv
<1>3. /\ h.lib \in Nat /\ h.proposed_lib \in Nat /\ h.lib <= h.block_num
      /\ h.proposed_lib <= h.block_num
  BY <1>2 DEF HeaderOK, DposInv
<1>4. Agreed(t, B, h.lib) /\ Agreed(t, B, h.proposed_lib)
  BY <1>1, <1>2 DEF AgreedOK
<1>5. PICK n \in {h.lib, h.proposed_lib} : a = BlockAt(i, n)
  BY <1>1 DEF Final, LibBlock
<1>6. n \in Nat /\ n <= h.block_num /\ Agreed(t, B, n)
  BY <1>3, <1>4, <1>5
<1>7. /\ a \in B
      /\ a = Root \/ (n = x /\ x > First(t))
  BY <1>1, <1>5, <1>6, BlockAtFinds
<1>8. CASE n = x /\ x > First(t)
  <2>1. First(t) \in Nat
    <3>1. Root \in 1 .. Len(blocks)
      BY DEF AgreedInv, BlockOK, BranchOK, Root, NetInv, TreeInv
    <3> QED
      BY <1>1, <3>1 DEF First, NetInv, TreeInv, HeaderOK, DposInv
  <2>2. Supporters(t, B)[x] >= Needed
    BY <1>6, <1>8, <2>1 DEF Agreed
  <2>3. Cardinality(Support(t, B, x)) >= Needed
    BY <1>6, <1>8, <2>2, SupportFinite
  <2> QED
    BY <1>1, <1>6, <1>7, <1>8, <2>3
<1> QED
  BY <1>1, <1>7, <1>8

\* Two branches that have a block signed by the same producer, which runs on,
\* for the same number, have that block in common and all that is before it.
LEMMA SameBlock ==
    ASSUME NetInv, AgreedInv, NEW p \in Producer \ restarted,
           NEW i \in 1 .. Len(blocks), NEW k \in 1 .. Len(blocks), NEW x \in Nat, x > First(blocks),
           p \in Support(blocks, blocks[i].branch, x), p \in Support(blocks, blocks[k].branch, x),
           NEW a \in blocks[i].branch, NEW b \in blocks[k].branch,
           x = blocks[a].hs.block_num, x = blocks[b].hs.block_num
    PROVE  a = b
<1>1. PICK B, C : B = blocks[i].branch /\ C = blocks[k].branch
  OBVIOUS
<1>2. BranchOK(blocks, i) /\ BranchOK(blocks, k)
  BY DEF AgreedInv, BlockOK
<1>3. PICK j \in B : blocks[j].hs.producer = p /\ x \in Confirmed(blocks[j].hs)
  BY <1>1 DEF Support
<1>4. PICK l \in C : blocks[l].hs.producer = p /\ x \in Confirmed(blocks[l].hs)
  BY <1>1 DEF Support
<1>5. j \in 1 .. Len(blocks) /\ l \in 1 .. Len(blocks)
  <2>1. B \subseteq 1 .. i /\ C \subseteq 1 .. k /\ Len(blocks) \in Nat
    BY <1>1, <1>2, LenProperties DEF BranchOK, NetInv, TreeInv
  <2> QED
    BY <1>3, <1>4, <2>1
<1>6. x \in Confirms(j) /\ x \in Confirms(l)
  BY <1>3, <1>4 DEF Confirms, Confirmed
<1>7. DisjointOf(p)
  BY DEF NetInv
<1>8. ~(j < l) /\ ~(l < j)
  BY <1>3, <1>4, <1>5, <1>6, <1>7 DEF DisjointOf
<1>9. j = l
  BY <1>5, <1>8
<1>10. blocks[j].branch \subseteq B /\ blocks[j].branch \subseteq C
  BY <1>1, <1>2, <1>4, <1>9 DEF BranchOK
<1>11. BranchOK(blocks, j) /\ HeaderOK(blocks[j].hs)
  BY <1>5 DEF AgreedInv, BlockOK, NetInv, TreeInv
<1>12. PICK r, m : r = First(blocks) /\ m = blocks[j].hs.block_num
  OBVIOUS
<1>13. x \in r .. m
  <2>1. m \in Nat /\ blocks[j].hs.confirmed \in Nat
    BY <1>11, <1>12 DEF HeaderOK, DposInv
  <2>2. x <= m
    BY <1>3, <1>12, <2>1 DEF Confirmed
  <2>3. r \in Int
    <3>1. Root \in 1 .. j
      BY <1>11 DEF BranchOK
    <3>2. Root \in 1 .. Len(blocks)
      BY <1>5, <3>1 DEF Root
    <3> QED
      BY <1>12, <3>2 DEF First, NetInv, TreeInv, HeaderOK, DposInv
  <2>4. r <= x
    <3>1. x > r
      BY <1>12
    <3> QED
      BY <2>3, <3>1
  <2> QED
    BY <2>1, <2>2, <2>3, <2>4
<1>14. PICK e \in blocks[j].branch : blocks[e].hs.block_num = x
  BY <1>11, <1>12, <1>13 DEF BranchOK
<1>15. a = e
  <2>1. \A c, d \in B : blocks[c].hs.block_num = blocks[d].hs.block_num => c = d
    BY <1>1, <1>2 DEF BranchOK
  <2>2. a \in B /\ e \in B /\ blocks[a].hs.block_num = blocks[e].hs.block_num
    BY <1>1, <1>10, <1>14
  <2> QED
    BY <2>1, <2>2, Zenon
<1>16. b = e
  <2>1. \A c, d \in C : blocks[c].hs.block_num = blocks[d].hs.block_num => c = d
    BY <1>1, <1>2 DEF BranchOK
  <2>2. b \in C /\ e \in C /\ blocks[b].hs.block_num = blocks[e].hs.block_num
    BY <1>1, <1>10, <1>14
  <2> QED
    BY <2>1, <2>2, Zenon
<1> QED
  BY <1>15, <1>16

\* Whatever branches blocks are on, what they propose or make irreversible at
\* one number is one block, for any number of producers of which at most a third
\* restart: more than two thirds confirm each, and a producer whose node runs on
\* confirms a number once (next() of block_header_state.cpp, start_block of
\* producer_plugin.cpp).
THEOREM NetworkFinalByNumber ==
    ASSUME 3 * MaxRestarted <= Len(Schedule)
    PROVE  Spec => []FinalByNumber
<1>1. FinalInv => FinalByNumber
  <2> SUFFICES ASSUME FinalInv, NEW i \in DOMAIN blocks, NEW k \in DOMAIN blocks,
                      NEW a \in Final(i), NEW b \in Final(k),
                      blocks[a].hs.block_num = blocks[b].hs.block_num
               PROVE  a = b
    BY DEF FinalByNumber
  <2>1. NetInv /\ AgreedInv /\ FewRestarted
    BY DEF FinalInv
  <2>2. i \in 1 .. Len(blocks) /\ k \in 1 .. Len(blocks)
    BY <2>1, LenProperties DEF NetInv, TreeInv
  <2>3. PICK x, A, B : /\ x = blocks[a].hs.block_num
                       /\ A = Support(blocks, blocks[i].branch, x)
                       /\ B = Support(blocks, blocks[k].branch, x)
    OBVIOUS
  <2>4. /\ a \in blocks[i].branch
        /\ a = Root \/ (x \in Nat /\ x > First(blocks) /\ Cardinality(A) >= Needed)
    BY <2>1, <2>2, <2>3, FinalIsAgreed
  <2>5. /\ b \in blocks[k].branch
        /\ b = Root \/ (x \in Nat /\ x > First(blocks) /\ Cardinality(B) >= Needed)
    BY <2>1, <2>2, <2>3, FinalIsAgreed
  <2>6. First(blocks) \in Nat
    <3>1. Root \in blocks[i].branch /\ blocks[i].branch \subseteq 1 .. i
      BY <2>1, <2>2 DEF AgreedInv, BlockOK, BranchOK
    <3>2. Root \in 1 .. Len(blocks)
      BY <2>2, <3>1 DEF Root
    <3> QED
      BY <2>1, <3>2 DEF First, NetInv, TreeInv, HeaderOK, DposInv
  <2>7. CASE a = Root \/ b = Root
    BY <2>3, <2>4, <2>5, <2>6, <2>7 DEF First
  <2>8. CASE a # Root /\ b # Root
    <3>1. A \in SUBSET Producer /\ B \in SUBSET Producer
      BY <2>3 DEF Support
    <3>2. PICK p \in A \cap B : p \notin restarted
      BY <2>1, <2>4, <2>5, <2>8, <3>1, QuorumsMeet
    <3>3. p \in Producer \ restarted
      BY <3>1, <3>2
    <3> QED
      BY <2>1, <2>2, <2>3, <2>4, <2>5, <2>8, <3>2, <3>3, SameBlock
  <2> QED
    BY <2>7, <2>8
<1> QED
  BY <1>1, FinalInit, FinalNext, PTL DEF Spec
=============================================================================
