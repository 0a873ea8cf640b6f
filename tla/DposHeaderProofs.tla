-------------------------- MODULE DposHeaderProofs --------------------------
(***************************************************************************)
(* What block_header_state::next and finish_next preserve, whatever the    *)
(* header before, the slot and the confirmations: the facts the proofs     *)
(* about a branch of headers and about a network of producers share.       *)
(***************************************************************************)
EXTENDS DposHeader, NaturalSets, SequenceTheorems

\* The uint8_t counters of confirm_count.
Byte == 0 .. 255

\* The numbers of a header, finished or being built.  The window of blocks
\* that miss confirmations does not reach below the proposed lib.
DposInv(h) ==
    /\ h.block_num \in Nat /\ h.proposed_lib \in Nat /\ h.lib \in Nat
    /\ h.confirm_count \in Seq(Byte) /\ Len(h.confirm_count) <= MaxTracked
    /\ Len(h.confirm_count) <= h.block_num - h.proposed_lib
    /\ IsFiniteSet(DOMAIN h.implied_irb)
    /\ h.implied_irb \in [DOMAIN h.implied_irb -> Nat]
    /\ \A q \in DOMAIN h.implied_irb : h.implied_irb[q] <= h.proposed_lib
    /\ h.lib <= h.proposed_lib /\ h.proposed_lib <= h.block_num /\ h.lib < h.block_num

-----------------------------------------------------------------------------
\* Position k of the sorted values has a value: the least v with more than k
\* values up to it.
LEMMA NthElementProperties ==
    ASSUME NEW D, IsFiniteSet(D), NEW f \in [D -> Nat],
           NEW k \in Nat, k < Cardinality(D)
    PROVE  /\ \E q \in D : NthElement(f, k) = f[q]
           /\ Cardinality({q \in D : f[q] < NthElement(f, k)}) <= k
           /\ Cardinality({q \in D : f[q] <= NthElement(f, k)}) > k
<1> DEFINE Below(v) == {q \in D : f[q] < v}
           UpTo(v)  == {q \in D : f[q] <= v}
           V        == {v \in Nat : Cardinality(UpTo(v)) > k}
           Nth(v)   == Cardinality(Below(v)) <= k /\ Cardinality(UpTo(v)) > k
<1>1. \A v : Cardinality(Below(v)) \in Nat /\ Cardinality(UpTo(v)) \in Nat
  <2> TAKE v
  <2>1. Below(v) \in SUBSET D /\ UpTo(v) \in SUBSET D
    OBVIOUS
  <2> HIDE DEF Below, UpTo
  <2> QED
    BY <2>1, FS_Subset, FS_CardinalityType
<1>2. V \in SUBSET Nat /\ V # {}
  <2>1. f = [q \in D |-> f[q]] /\ {f[q] : q \in D} \in SUBSET Nat
    OBVIOUS
  <2>2. IsFiniteSet({f[q] : q \in D})
    BY <2>1, FiniteImage
  <2>3. PICK n \in Nat : \A x \in {f[q] : q \in D} : x <= n
    BY <2>1, <2>2, FiniteIsBounded
  <2>4. UpTo(n) = D
    BY <2>3
  <2>5. Cardinality(UpTo(n)) > k
    <3>1. Cardinality(D) \in Nat
      BY FS_CardinalityType
    <3> HIDE DEF UpTo
    <3> QED
      BY <2>4, <3>1
  <2> HIDE DEF UpTo
  <2> QED
    BY <2>5
<1>3. PICK v \in V : \A w \in V : v <= w
  <2> HIDE DEF V
  <2> QED
    BY <1>2, LeastNatural
<1>4. Cardinality(Below(v)) <= k
  <2>1. CASE v = 0
    <3>1. Below(v) = {}
      BY <2>1
    <3> QED
      BY <3>1, FS_EmptySet
  <2>2. CASE v # 0
    <3>1. v - 1 \in Nat /\ v - 1 \notin V
      BY <2>2, <1>3
    <3>2. Below(v) = UpTo(v - 1)
      BY <2>2
    <3>3. ~(Cardinality(UpTo(v - 1)) > k) /\ Cardinality(UpTo(v - 1)) \in Nat
      <4> HIDE DEF UpTo
      <4> QED
        BY <3>1, <1>1
    <3> HIDE DEF UpTo, Below
    <3> QED
      BY <3>2, <3>3
  <2> QED
    BY <2>1, <2>2
<1>5. v \in Range(f)
  <2> SUFFICES ASSUME \A q \in D : f[q] # v
               PROVE  FALSE
    BY DEF Range
  <2>1. UpTo(v) = Below(v)
    OBVIOUS
  <2>2. Cardinality(UpTo(v)) > k
    OBVIOUS
  <2> HIDE DEF UpTo, Below, V
  <2> QED
    BY <2>1, <2>2, <1>1, <1>4
<1>6. v \in Range(f) /\ Nth(v)
  BY <1>4, <1>5
<1>7. NthElement(f, k) = CHOOSE w \in Range(f) : Nth(w)
  BY DEF NthElement
<1>8. NthElement(f, k) \in Range(f) /\ Nth(NthElement(f, k))
  <2> HIDE DEF Nth
  <2> QED
    BY <1>6, <1>7
<1> QED
  BY <1>8 DEF Range

-----------------------------------------------------------------------------
\* The producers whose values are below v, and those whose values are up to v.
Below(irb, v) == {q \in DOMAIN irb : irb[q] < v}
UpTo(irb, v)  == {q \in DOMAIN irb : irb[q] <= v}

\* The values calc_dpos_last_irreversible sorts for a block of p.
Raised(h, p) == [q \in DOMAIN h.implied_irb |->
                    IF q = p THEN h.proposed_lib ELSE h.implied_irb[q]]

\* Less than a third of the producers are behind v.
Supported(irb, v) == 3 * Cardinality(Below(irb, v)) < Cardinality(DOMAIN irb)

\* The sets of producers are finite.
LEMMA BelowIsFinite ==
    ASSUME NEW irb, IsFiniteSet(DOMAIN irb), NEW v
    PROVE  /\ IsFiniteSet(Below(irb, v)) /\ Cardinality(Below(irb, v)) \in Nat
           /\ IsFiniteSet(UpTo(irb, v)) /\ Cardinality(UpTo(irb, v)) \in Nat
           /\ Cardinality(DOMAIN irb) \in Nat
<1>1. Below(irb, v) \in SUBSET DOMAIN irb /\ UpTo(irb, v) \in SUBSET DOMAIN irb
  BY DEF Below, UpTo
<1> QED
  BY <1>1, FS_Subset, FS_CardinalityType

\* calc_dpos_last_irreversible chooses one of the producers' values (after p's
\* is renewed): at most a third of the values are below it, and more are not above.
LEMMA CalcProperties ==
    ASSUME NEW h, DposInv(h), NEW p, NEW D, D = DOMAIN h.implied_irb,
           NEW lib, lib = CalcDposLastIrreversible(h, p)
    PROVE  /\ lib \in Nat /\ lib <= h.proposed_lib
           /\ D = {} => lib = 0
           /\ D # {} => /\ Cardinality(Below(Raised(h, p), lib)) <= (Cardinality(D) - 1) \div 3
                        /\ Cardinality(UpTo(Raised(h, p), lib)) > (Cardinality(D) - 1) \div 3
<1>1. PICK irb : irb = Raised(h, p)
  OBVIOUS
<1> DEFINE k == (Cardinality(D) - 1) \div 3
<1>2. /\ irb \in [D -> Nat] /\ IsFiniteSet(D) /\ \A q \in D : irb[q] <= h.proposed_lib
      /\ DOMAIN irb = D
  BY <1>1 DEF DposInv, Raised
<1>3. lib = IF D = {} THEN 0 ELSE NthElement(irb, k)
  BY <1>1 DEF CalcDposLastIrreversible, Raised
<1>4. Cardinality(D) \in Nat /\ (D # {} => Cardinality(D) # 0)
  BY <1>2, FS_CardinalityType, FS_EmptySet
<1>5. h.proposed_lib \in Nat
  BY DEF DposInv
<1>6. CASE D = {}
  BY <1>3, <1>5, <1>6
<1>7. CASE D # {}
  <2>1. k \in Nat /\ k < Cardinality(D)
    BY <1>4, <1>7
  <2> HIDE DEF k
  <2>2. lib = NthElement(irb, k)
    BY <1>3, <1>7
  <2>3. /\ \E q \in D : lib = irb[q]
        /\ Cardinality({q \in D : irb[q] < lib}) <= k
        /\ Cardinality({q \in D : irb[q] <= lib}) > k
    BY <1>2, <2>1, <2>2, NthElementProperties
  <2>4. lib \in Nat /\ lib <= h.proposed_lib
    BY <1>2, <2>3
  <2>5. Cardinality(Below(irb, lib)) <= k /\ Cardinality(UpTo(irb, lib)) > k
    BY <1>2, <2>3 DEF Below, UpTo
  <2> QED
    BY <1>1, <1>7, <2>4, <2>5 DEF k
<1> QED
  BY <1>6, <1>7

\* If the lib is supported, no block's calculation goes below it: the values of
\* the producers only rise.
LEMMA CalcRises ==
    ASSUME NEW h, DposInv(h), NEW p, Supported(h.implied_irb, h.lib)
    PROVE  h.lib <= CalcDposLastIrreversible(h, p)
<1>1. PICK D, old, irb, lib, b, u, n :
         /\ D = DOMAIN h.implied_irb /\ old = h.implied_irb /\ irb = Raised(h, p)
         /\ lib = CalcDposLastIrreversible(h, p) /\ n = Cardinality(D)
         /\ b = Cardinality(Below(old, h.lib)) /\ u = Cardinality(UpTo(irb, lib))
  OBVIOUS
<1>2. IsFiniteSet(D) /\ DOMAIN old = D /\ DOMAIN irb = D
  BY <1>1 DEF DposInv, Raised
<1>3. \A q \in D : irb[q] \in Nat /\ old[q] \in Nat /\ old[q] <= irb[q]
  BY <1>1 DEF DposInv, Raised
<1>4. n \in Nat /\ b \in Nat /\ u \in Nat
  BY <1>1, <1>2, BelowIsFinite
<1>5. 3 * b < n
  BY <1>1 DEF Supported
<1>6. D # {}
  <2>1. n # 0
    BY <1>4, <1>5
  <2> QED
    BY <1>1, <2>1, FS_EmptySet
<1>7. lib \in Nat /\ u > (n - 1) \div 3
  BY <1>1, <1>6, CalcProperties
<1>8. h.lib \in Nat
  BY DEF DposInv
<1> SUFFICES ASSUME lib < h.lib
             PROVE  FALSE
  BY <1>1, <1>7, <1>8
<1>9. UpTo(irb, lib) \in SUBSET Below(old, h.lib)
  <2> SUFFICES ASSUME NEW q \in D, irb[q] <= lib
               PROVE  old[q] < h.lib
    BY <1>2 DEF UpTo, Below
  <2> QED
    BY <1>3, <1>7, <1>8
<1>10. u <= b
  BY <1>1, <1>2, <1>9, BelowIsFinite, FS_Subset
<1> QED
  BY <1>4, <1>5, <1>7, <1>10

-----------------------------------------------------------------------------
\* Decrementing one that is not zero.
LEMMA DecrementByte ==
    ASSUME NEW x \in Byte
    PROVE  Decrement8(x) \in Byte /\ (x # 0 => Decrement8(x) = x - 1)
<1>1. CASE x = 0
  BY <1>1 DEF Decrement8, Byte
<1>2. CASE x # 0
  BY <1>2 DEF Decrement8, Byte
<1> QED
  BY <1>1, <1>2

\* A window with a new last entry, the others of which were in the old window.
Continues(g, cc) == \A i \in 1 .. Len(g) - 1 : \E j \in 1 .. Len(cc) : g[i] = cc[j]

\* confirm_count with an entry more: it does not outgrow the number tracked.
LEMMA GrownProperties ==
    ASSUME NEW h, NEW cc \in Seq(Byte), cc = h.confirm_count, Len(cc) <= MaxTracked,
           NEW r \in Byte, r = RequiredConfs(Len(h.active.producers)),
           NEW g, g = GrownConfirmCount(h)
    PROVE  /\ g \in Seq(Byte) /\ Len(g) \in 1 .. MaxTracked /\ g[Len(g)] = r
           /\ Len(g) = IF Len(cc) < MaxTracked THEN Len(cc) + 1 ELSE Len(cc)
           /\ Continues(g, cc)
<1>1. MaxTracked \in Nat \ {0} /\ Len(cc) \in Nat
  BY WidthAssumption, LenProperties
<1>2. g = Append(IF Len(cc) < MaxTracked THEN cc ELSE Tail(cc), r)
  BY DEF GrownConfirmCount
<1>3. CASE Len(cc) < MaxTracked
  <2>1. g = Append(cc, r)
    BY <1>2, <1>3
  <2>2. /\ g \in Seq(Byte) /\ Len(g) = Len(cc) + 1
        /\ \A i \in 1 .. Len(cc) : g[i] = cc[i]
        /\ g[Len(cc) + 1] = r
    BY <2>1, AppendProperties
  <2>3. \A i \in 1 .. Len(g) - 1 : \E j \in 1 .. Len(cc) : g[i] = cc[j]
    BY <2>2, <1>1
  <2>4. Continues(g, cc)
    BY <2>3 DEF Continues
  <2> QED
    BY <2>2, <2>4, <1>1, <1>3
<1>4. CASE ~(Len(cc) < MaxTracked)
  <2> DEFINE t == Tail(cc)
  <2>1. g = Append(t, r)
    BY <1>2, <1>4
  <2>2. Len(cc) = MaxTracked
    BY <1>1, <1>4
  <2>3. cc # << >>
    BY <2>2, <1>1, EmptySeq
  <2>4. /\ t \in Seq(Byte) /\ Len(t) = Len(cc) - 1
        /\ \A i \in 1 .. Len(t) : t[i] = cc[i + 1]
    BY <2>3, HeadTailProperties
  <2> HIDE DEF t
  <2>5. /\ g \in Seq(Byte) /\ Len(g) = Len(t) + 1
        /\ \A i \in 1 .. Len(t) : g[i] = t[i]
        /\ g[Len(t) + 1] = r
    BY <2>1, <2>4, AppendProperties
  <2>6. Len(g) = Len(cc) /\ g[Len(g)] = r
    BY <2>4, <2>5, <1>1
  <2>7. \A i \in 1 .. Len(g) - 1 : \E j \in 1 .. Len(cc) : g[i] = cc[j]
    <3> TAKE i \in 1 .. Len(g) - 1
    <3>1. i \in 1 .. Len(t) /\ i + 1 \in 1 .. Len(cc)
      BY <2>4, <2>6, <1>1
    <3>2. g[i] = cc[i + 1]
      BY <3>1, <2>4, <2>5
    <3> QED
      BY <3>1, <3>2
  <2>8. Continues(g, cc)
    BY <2>7 DEF Continues
  <2> QED
    BY <2>2, <2>5, <2>6, <2>8, <1>1
<1> QED
  BY <1>3, <1>4

\* The counters of a window are above zero and at most m.
Within(window, m) == \A i \in 1 .. Len(window) : window[i] \in 1 .. m

\* The new entry is, so the window that has grown is too.
LEMMA GrownWithin ==
    ASSUME NEW h, NEW cc \in Seq(Byte), cc = h.confirm_count, Len(cc) <= MaxTracked,
           NEW r \in Byte, r = RequiredConfs(Len(h.active.producers)),
           NEW g, g = GrownConfirmCount(h), NEW m, r \in 1 .. m, Within(cc, m)
    PROVE  Within(g, m)
<1>1. PICK l, k : l = Len(g) /\ k = Len(cc)
  OBVIOUS
<1>2. l \in Nat /\ g[l] = r /\ \A i \in 1 .. l - 1 : \E j \in 1 .. k : g[i] = cc[j]
  <2>1. g \in Seq(Byte) /\ g[Len(g)] = r /\ Continues(g, cc)
    BY GrownProperties
  <2> QED
    BY <1>1, <2>1, LenProperties DEF Continues
<1>3. ASSUME NEW i \in 1 .. l
      PROVE  g[i] \in 1 .. m
  <2>1. CASE i = l
    BY <1>2, <2>1
  <2>2. CASE i # l
    <3>1. l \in Nat /\ i # l
      BY <1>2, <2>2
    <3>2. i \in 1 .. l - 1
      BY <3>1
    <3>3. PICK j \in 1 .. k : g[i] = cc[j]
      BY <1>2, <3>2
    <3> QED
      BY <1>1, <3>3 DEF Within
  <2> QED
    BY <2>1, <2>2
<1> QED
  BY <1>1, <1>3 DEF Within

\* The counters after the loop of next() over the last c + 1 of them, and those
\* that the loop brings to zero.
Lowest(g, c)  == Max({1, Len(g) - c})
Counted(g, c) == [i \in 1 .. Len(g) |-> IF i >= Lowest(g, c) THEN Decrement8(g[i]) ELSE g[i]]
Reached(g, c) == {i \in Lowest(g, c) .. Len(g) : Counted(g, c)[i] = 0}

\* They stay in the range of uint8_t, and above zero unless reached.
LEMMA CountedProperties ==
    ASSUME NEW g \in Seq(Byte), Len(g) # 0, NEW c \in Nat
    PROVE  /\ Counted(g, c) \in Seq(Byte) /\ Len(Counted(g, c)) = Len(g)
           /\ Reached(g, c) \in SUBSET (1 .. Len(g)) /\ IsFiniteSet(Reached(g, c))
           /\ Reached(g, c) = {} => Decrement8(g[Len(g)]) # 0
           /\ \A m \in Nat : \A i \in 1 .. Len(g) :
                g[i] \in 1 .. m /\ i \notin Reached(g, c) => Counted(g, c)[i] \in 1 .. m
<1>1. Len(g) \in Nat \ {0} /\ \A i \in 1 .. Len(g) : g[i] \in Byte
  BY ElementOfSeq, LenProperties
<1>2. Lowest(g, c) \in 1 .. Len(g)
  <2>1. Lowest(g, c) \in {1, Len(g) - c} /\ 1 <= Lowest(g, c)
    <3> DEFINE d == Len(g) - c
    <3>1. d \in Int /\ 1 \in Int
      BY <1>1
    <3> HIDE DEF d
    <3>2. Max({1, d}) \in {1, d} /\ 1 <= Max({1, d})
      BY <3>1, MaxOfTwo
    <3> QED
      BY <3>2 DEF Lowest, d
  <2> QED
    BY <2>1, <1>1
<1>3. ASSUME NEW i \in 1 .. Len(g)
      PROVE  /\ Counted(g, c)[i] \in Byte
             /\ i >= Lowest(g, c) => Counted(g, c)[i] = Decrement8(g[i])
             /\ ~(i >= Lowest(g, c)) => Counted(g, c)[i] = g[i]
  BY <1>1, DecrementByte DEF Counted
<1>4. Counted(g, c) \in [1 .. Len(g) -> Byte]
  <2>1. Counted(g, c) = [i \in 1 .. Len(g) |-> Counted(g, c)[i]]
    BY DEF Counted
  <2> QED
    BY <2>1, <1>3
<1>5. Counted(g, c) \in Seq(Byte) /\ Len(Counted(g, c)) = Len(g)
  BY <1>1, <1>4, IsASeq, LenProperties
<1>6. Reached(g, c) \in SUBSET (1 .. Len(g)) /\ IsFiniteSet(Reached(g, c))
  <2>1. Reached(g, c) \in SUBSET (1 .. Len(g))
    BY <1>1, <1>2 DEF Reached
  <2>2. IsFiniteSet(1 .. Len(g))
    BY <1>1, FS_Interval
  <2>3. IsFiniteSet(Reached(g, c))
    BY <2>1, <2>2, FS_Subset
  <2> QED
    BY <2>1, <2>3
<1>7. ASSUME Reached(g, c) = {}
      PROVE  Decrement8(g[Len(g)]) # 0
  <2>1. Len(g) \in Lowest(g, c) .. Len(g) /\ Len(g) \in 1 .. Len(g) /\ Len(g) >= Lowest(g, c)
    BY <1>1, <1>2
  <2>2. Counted(g, c)[Len(g)] # 0
    BY <1>7, <2>1 DEF Reached
  <2> QED
    BY <2>1, <2>2, <1>3
<1>8. ASSUME NEW m \in Nat, NEW i \in 1 .. Len(g), g[i] \in 1 .. m, i \notin Reached(g, c)
      PROVE  Counted(g, c)[i] \in 1 .. m
  <2>1. g[i] \in Byte /\ g[i] # 0 /\ m \in Nat /\ g[i] \in Nat
    BY <1>1, <1>8 DEF Byte
  <2>2. CASE i >= Lowest(g, c)
    <3>1. Counted(g, c)[i] = g[i] - 1
      BY <2>1, <2>2, <1>3, DecrementByte
    <3>2. Counted(g, c)[i] # 0
      <4>1. i \in Lowest(g, c) .. Len(g)
        BY <2>2, <1>1, <1>2
      <4> QED
        BY <4>1, <1>8 DEF Reached
    <3> QED
      BY <3>1, <3>2, <2>1, <1>8
  <2>3. CASE ~(i >= Lowest(g, c))
    BY <2>3, <1>3, <1>8
  <2> QED
    BY <2>2, <2>3
<1> QED
  BY <1>5, <1>6, <1>7, <1>8

\* The proposed lib only rises, and stays the number of the last block before
\* the window.
LEMMA ConfirmProperties ==
    ASSUME NEW h, DposInv(h), NEW r \in Byte, r = RequiredConfs(Len(h.active.producers)),
           NEW c \in Nat, NEW g, g = GrownConfirmCount(h),
           NEW lib, lib = Confirm(h, c).proposed_lib, NEW cc, cc = Confirm(h, c).confirm_count
    PROVE  /\ lib \in Nat /\ h.proposed_lib <= lib /\ lib <= h.block_num + 1
           /\ cc \in Seq(Byte) /\ Len(cc) <= MaxTracked /\ Len(cc) <= h.block_num + 1 - lib
           /\ \/ Len(cc) = h.block_num + 1 - lib
              \/ lib = h.proposed_lib /\ Len(cc) = Len(g) /\ Decrement8(r) # 0
           /\ \A m \in Nat : Within(g, m) => Within(cc, m)
<1> DEFINE size == Len(g)
           n    == h.block_num
           old  == h.proposed_lib
<1>1. /\ n \in Nat /\ old \in Nat /\ old <= n /\ MaxTracked \in Nat
      /\ h.confirm_count \in Seq(Byte) /\ Len(h.confirm_count) <= MaxTracked
      /\ Len(h.confirm_count) \in Nat /\ Len(h.confirm_count) <= n - old
  BY WidthAssumption, LenProperties DEF DposInv
<1>2. /\ g \in Seq(Byte) /\ size \in 1 .. MaxTracked /\ g[size] = r
      /\ size = IF Len(h.confirm_count) < MaxTracked
                THEN Len(h.confirm_count) + 1 ELSE Len(h.confirm_count)
  BY <1>1, GrownProperties
<1>3. size \in Nat /\ size # 0 /\ size <= n + 1 - old /\ size <= MaxTracked
  <2> DEFINE l == Len(h.confirm_count)
  <2>1. n \in Nat /\ old \in Nat /\ l \in Nat /\ l <= n - old /\ l <= MaxTracked
    BY <1>1
  <2>2. MaxTracked \in Nat /\ size \in 1 .. MaxTracked
    BY <1>1, <1>2
  <2>3. size = IF l < MaxTracked THEN l + 1 ELSE l
    BY <1>2
  <2> HIDE DEF size, n, old, l
  <2> QED
    BY <2>1, <2>2, <2>3
<1>4. Confirm(h, c) = IF Reached(g, c) = {}
                      THEN [proposed_lib |-> h.proposed_lib, confirm_count |-> Counted(g, c)]
                      ELSE [proposed_lib  |-> n + 1 - (size - Max(Reached(g, c))),
                            confirm_count |-> SubSeq(Counted(g, c), Max(Reached(g, c)) + 1, size)]
  BY DEF Confirm, Reached, Counted, Lowest
<1>5. /\ Counted(g, c) \in Seq(Byte) /\ Len(Counted(g, c)) = size
      /\ Reached(g, c) \in SUBSET (1 .. size) /\ IsFiniteSet(Reached(g, c))
      /\ Reached(g, c) = {} => Decrement8(g[size]) # 0
      /\ \A m \in Nat : \A i \in 1 .. size :
                g[i] \in 1 .. m /\ i \notin Reached(g, c) => Counted(g, c)[i] \in 1 .. m
  BY <1>2, <1>3, CountedProperties
<1> HIDE DEF size, n, old
<1>6. CASE Reached(g, c) = {}
  <2>1. lib = old /\ cc = Counted(g, c)
    BY <1>4, <1>6 DEF old
  <2>2. Len(cc) = size /\ cc \in Seq(Byte) /\ Decrement8(r) # 0
    BY <2>1, <1>2, <1>5, <1>6
  <2>3. lib \in Nat /\ old <= lib /\ lib <= n + 1 /\ Len(cc) <= MaxTracked
        /\ Len(cc) <= n + 1 - lib
    BY <2>1, <2>2, <1>1, <1>3
  <2>4. ASSUME NEW m \in Nat, \A i \in 1 .. size : g[i] \in 1 .. m
        PROVE  \A i \in 1 .. Len(cc) : cc[i] \in 1 .. m
    BY <2>4, <2>1, <2>2, <1>5, <1>6
  <2>5. \A m \in Nat : Within(g, m) => Within(cc, m)
    BY <2>4 DEF Within, size
  <2> QED
    BY <2>1, <2>2, <2>3, <2>5 DEF old, n, size
<1>7. CASE Reached(g, c) # {}
  <2> DEFINE z == Max(Reached(g, c))
  <2>1. z \in Reached(g, c) /\ \A x \in Reached(g, c) : x <= z
    <3>1. Reached(g, c) \in SUBSET Nat
      BY <1>5, <1>3
    <3> QED
      BY <3>1, <1>5, <1>7, MaxOfFinite
  <2>2. z \in 1 .. size
    BY <2>1, <1>5
  <2>3. lib = n + 1 - (size - z) /\ cc = SubSeq(Counted(g, c), z + 1, size)
    <3> DEFINE x == n + 1 - (size - z)
               y == SubSeq(Counted(g, c), z + 1, size)
    <3>1. Confirm(h, c) = [proposed_lib  |-> x, confirm_count |-> y]
      BY <1>4, <1>7
    <3> HIDE DEF x, y
    <3>2. lib = x /\ cc = y
      BY <3>1
    <3> QED
      BY <3>2 DEF x, y
  <2> HIDE DEF z
  <2>4. \A i \in z + 1 .. size : Counted(g, c)[i] \in Byte
    <3>1. \A i \in 1 .. size : Counted(g, c)[i] \in Byte
      BY <1>5, ElementOfSeq
    <3> QED
      BY <3>1, <2>2, <1>3
  <2>5. /\ cc \in Seq(Byte)
        /\ Len(cc) = IF z + 1 <= size THEN size - (z + 1) + 1 ELSE 0
        /\ \A i \in 1 .. size - (z + 1) + 1 : cc[i] = Counted(g, c)[z + 1 + i - 1]
    BY <2>2, <2>3, <2>4, <1>3, SubSeqProperties
  <2>6. Len(cc) = size - z /\ \A i \in 1 .. size - z : cc[i] = Counted(g, c)[z + i]
    <3>1. z \in Nat /\ z <= size
      BY <2>2, <1>3
    <3>2. Len(cc) = size - z
      BY <3>1, <2>5, <1>3
    <3>3. ASSUME NEW i \in 1 .. size - z
          PROVE  cc[i] = Counted(g, c)[z + i]
      <4>1. i \in 1 .. size - (z + 1) + 1 /\ z + 1 + i - 1 = z + i
        BY <3>1, <1>3
      <4> QED
        BY <4>1, <2>5
    <3> QED
      BY <3>2, <3>3
  <2>7. /\ lib \in Nat /\ old <= lib /\ lib <= n + 1 /\ Len(cc) = n + 1 - lib
        /\ Len(cc) <= MaxTracked
    <3>1. z \in Nat /\ z <= size /\ 1 <= z
      BY <2>2, <1>3
    <3>2. lib = n + 1 - (size - z) /\ Len(cc) = size - z
      BY <2>3, <2>6
    <3> QED
      BY <3>1, <3>2, <1>1, <1>3
  <2>8. ASSUME NEW m \in Nat, \A i \in 1 .. size : g[i] \in 1 .. m
        PROVE  \A i \in 1 .. Len(cc) : cc[i] \in 1 .. m
    <3> TAKE i \in 1 .. Len(cc)
    <3>1. z \in Nat /\ z <= size
      BY <2>2, <1>3
    <3>2. z + i \in 1 .. size /\ ~(z + i <= z) /\ i \in 1 .. size - z
      BY <3>1, <2>6, <1>3
    <3>3. z + i \notin Reached(g, c)
      BY <3>2, <2>1
    <3>4. Counted(g, c)[z + i] \in 1 .. m
      BY <3>2, <3>3, <2>8, <1>5
    <3> QED
      BY <3>2, <3>4, <2>6
  <2>9. Len(cc) <= n + 1 - lib
    <3>1. n \in Nat /\ lib \in Nat
      BY <2>7, <1>1
    <3>2. Len(cc) = n + 1 - lib
      BY <2>7
    <3> QED
      BY <3>1, <3>2
  <2>10. \A m \in Nat : Within(g, m) => Within(cc, m)
    BY <2>8 DEF Within, size
  <2> QED
    BY <2>5, <2>7, <2>9, <2>10 DEF old, n, size
<1> QED
  BY <1>6, <1>7

-----------------------------------------------------------------------------
\* A slot belongs to a producer of the schedule.
LEMMA ScheduledProducerIsListed ==
    ASSUME NEW P, NEW schedule \in Seq(P), schedule # << >>, NEW slot \in Nat
    PROVE  \E i \in 1 .. Len(schedule) : ScheduledProducer(schedule, slot) = schedule[i]
<1> DEFINE n == Len(schedule)
           r == ProducerRepetitions
           x == slot % (n * r)
           k == x \div r
<1>1. n \in Nat \ {0} /\ r \in Nat \ {0}
  BY WidthAssumption, EmptySeq, LenProperties
<1>2. ScheduledProducer(schedule, slot) = schedule[k + 1]
  BY DEF ScheduledProducer
<1> HIDE DEF n, r
<1>3. n * r \in Nat \ {0}
  BY <1>1
<1>4. x \in Nat /\ x < n * r
  <2> DEFINE m == n * r
  <2>1. m \in Nat \ {0}
    BY <1>3
  <2> HIDE DEF m
  <2>2. slot % m \in 0 .. m - 1
    BY <2>1
  <2>3. slot % m \in Nat /\ slot % m < m
    BY <2>1, <2>2
  <2> QED
    BY <2>3 DEF m
<1> HIDE DEF x
<1>5. k \in Nat /\ k < n
  BY <1>1, <1>4
<1> HIDE DEF k
<1>6. k + 1 \in 1 .. n
  BY <1>1, <1>5
<1> QED
  BY <1>2, <1>6 DEF n

\* A schedule lists finitely many producers.
LEMMA RangeOfSchedule ==
    ASSUME NEW P, NEW schedule \in Seq(P)
    PROVE  /\ IsFiniteSet(Range(schedule)) /\ Range(schedule) \subseteq P
           /\ \A i \in 1 .. Len(schedule) : schedule[i] \in Range(schedule)
<1>1. /\ DOMAIN schedule = 1 .. Len(schedule) /\ Len(schedule) \in Nat
      /\ schedule \in [1 .. Len(schedule) -> P]
  BY LenProperties
<1>2. Range(schedule) = {schedule[i] : i \in 1 .. Len(schedule)}
  BY <1>1 DEF Range
<1>3. IsFiniteSet(1 .. Len(schedule))
  BY <1>1, FS_Interval
<1>4. schedule = [i \in 1 .. Len(schedule) |-> schedule[i]]
  BY <1>1
<1>5. IsFiniteSet(Range(schedule))
  BY <1>2, <1>3, <1>4, FiniteImage
<1> QED
  BY <1>1, <1>2, <1>5

-----------------------------------------------------------------------------
\* The members of the pending_block_header_state next() returns.
LEMMA NextFields ==
    ASSUME NEW h, NEW slot, NEW c, NEW b, b = NextState(h, slot, c)
    PROVE  /\ b.block_num = h.block_num + 1 /\ b.slot = slot /\ b.confirmed = c
           /\ b.producer = ScheduledProducer(h.active.producers, slot)
           /\ b.lib = CalcDposLastIrreversible(h, b.producer)
           /\ b.proposed_lib = Confirm(h, c).proposed_lib
           /\ b.confirm_count = Confirm(h, c).confirm_count
           /\ b.was_pending_promoted = ScheduleMatures(h, b.lib)
           /\ b.was_pending_rate_promoted = RateMatures(h, b.lib)
           /\ b.prev_pending = h.pending /\ b.prev_pending_rate = h.pending_rate
           /\ b.new_schedule = {} /\ b.new_rate = {}
<1> DEFINE p   == ScheduledProducer(h.active.producers, slot)
           lib == CalcDposLastIrreversible(h, p)
<1>1. /\ b.block_num = h.block_num + 1 /\ b.slot = slot /\ b.confirmed = c
      /\ b.producer = p /\ b.lib = lib
      /\ b.proposed_lib = Confirm(h, c).proposed_lib
      /\ b.confirm_count = Confirm(h, c).confirm_count
  BY DEF NextState
<1>2. /\ b.was_pending_promoted = ScheduleMatures(h, lib)
      /\ b.was_pending_rate_promoted = RateMatures(h, lib)
      /\ b.prev_pending = h.pending /\ b.prev_pending_rate = h.pending_rate
      /\ b.new_schedule = {} /\ b.new_rate = {}
  BY DEF NextState
<1> HIDE DEF p, lib
<1> QED
  BY <1>1, <1>2 DEF p, lib

\* Its maps and schedules, which depend on whether the pending schedule or rate
\* becomes active: the last irreversible blocks the producers imply,
LEMMA NextImplied ==
    ASSUME NEW h, NEW slot, NEW c, NEW b, b = NextState(h, slot, c),
           NEW D, D = IF ScheduleMatures(h, b.lib) THEN Range(h.pending.producers)
                      ELSE {b.producer} \cup DOMAIN h.implied_irb
    PROVE  b.implied_irb = Renewed(h.implied_irb, D, b.producer, h.proposed_lib, b.lib)
  BY DEF NextState

\* the last blocks they have produced,
LEMMA NextProduced ==
    ASSUME NEW h, NEW slot, NEW c, NEW b, b = NextState(h, slot, c),
           NEW D, D = {b.producer} \cup (IF ScheduleMatures(h, b.lib)
                                         THEN Range(h.pending.producers)
                                         ELSE DOMAIN h.last_produced)
    PROVE  b.last_produced = Renewed(h.last_produced, D, b.producer, b.block_num, b.lib)
  BY DEF NextState

\* and what is active.
LEMMA NextActive ==
    ASSUME NEW h, NEW slot, NEW c, NEW b, b = NextState(h, slot, c)
    PROVE  /\ ScheduleMatures(h, b.lib) => /\ b.active.version = h.pending.version
                                           /\ b.active.producers = h.pending.producers
           /\ ~ScheduleMatures(h, b.lib) => b.active = h.active
           /\ RateMatures(h, b.lib) => /\ b.active_rate.version = h.pending_rate.version
                                       /\ b.active_rate.rate = h.pending_rate.rate
           /\ ~RateMatures(h, b.lib) => b.active_rate = h.active_rate
  BY DEF NextState

\* The members of a map that Renewed returns.
LEMMA RenewedProperties ==
    ASSUME NEW map, NEW members, NEW p, NEW v, NEW lib,
           NEW r, r = Renewed(map, members, p, v, lib)
    PROVE  /\ DOMAIN r = members /\ r = [q \in members |-> r[q]]
           /\ \A q \in members :
                r[q] = IF q = p THEN v ELSE IF q \in DOMAIN map THEN map[q] ELSE lib
  BY DEF Renewed

\* Whatever the slot and the confirmations, next() keeps the numbers in order.
LEMMA NextDpos ==
    ASSUME NEW h, DposInv(h), RequiredConfs(Len(h.active.producers)) \in Byte,
           IsFiniteSet(Range(h.pending.producers)),
           NEW slot, NEW c \in Nat, NEW b, b = NextState(h, slot, c)
    PROVE  DposInv(b) /\ b.lib <= h.proposed_lib /\ h.proposed_lib <= b.proposed_lib
<1> DEFINE D == IF ScheduleMatures(h, b.lib) THEN Range(h.pending.producers)
                ELSE {b.producer} \cup DOMAIN h.implied_irb
<1>1. /\ b.block_num = h.block_num + 1
      /\ b.lib = CalcDposLastIrreversible(h, b.producer)
      /\ b.proposed_lib = Confirm(h, c).proposed_lib
      /\ b.confirm_count = Confirm(h, c).confirm_count
      /\ b.implied_irb = Renewed(h.implied_irb, D, b.producer, h.proposed_lib, b.lib)
  <2>1. /\ b.block_num = h.block_num + 1
        /\ b.lib = CalcDposLastIrreversible(h, b.producer)
        /\ b.proposed_lib = Confirm(h, c).proposed_lib
        /\ b.confirm_count = Confirm(h, c).confirm_count
    BY NextFields
  <2>2. b.implied_irb = Renewed(h.implied_irb, D, b.producer, h.proposed_lib, b.lib)
    <3> HIDE DEF D
    <3> QED
      BY NextImplied DEF D
  <2> QED
    BY <2>1, <2>2
<1>2. h.block_num \in Nat /\ h.proposed_lib \in Nat /\ h.proposed_lib <= h.block_num
  BY DEF DposInv
<1>3. b.lib \in Nat /\ b.lib <= h.proposed_lib
  BY <1>1, CalcProperties
<1>4. /\ b.proposed_lib \in Nat /\ h.proposed_lib <= b.proposed_lib
      /\ b.proposed_lib <= h.block_num + 1
      /\ b.confirm_count \in Seq(Byte) /\ Len(b.confirm_count) <= MaxTracked
      /\ Len(b.confirm_count) <= h.block_num + 1 - b.proposed_lib
  BY <1>1, ConfirmProperties
<1>5. /\ DOMAIN b.implied_irb = D /\ b.implied_irb = [q \in D |-> b.implied_irb[q]]
      /\ \A q \in D : b.implied_irb[q] = IF q = b.producer THEN h.proposed_lib
                                         ELSE IF q \in DOMAIN h.implied_irb
                                              THEN h.implied_irb[q] ELSE b.lib
  <2> HIDE DEF D
  <2> QED
    BY <1>1, RenewedProperties
<1>6. IsFiniteSet(D)
  <2>1. IsFiniteSet(DOMAIN h.implied_irb)
    BY DEF DposInv
  <2>2. IsFiniteSet({b.producer} \cup DOMAIN h.implied_irb)
    BY <2>1, FS_Singleton, FS_Union
  <2> QED
    BY <2>2
<1> HIDE DEF D
<1>7. \A q \in DOMAIN h.implied_irb :
        h.implied_irb[q] \in Nat /\ h.implied_irb[q] <= h.proposed_lib
  BY DEF DposInv
<1>8. \A q \in D : b.implied_irb[q] \in Nat /\ b.implied_irb[q] <= h.proposed_lib
  BY <1>2, <1>3, <1>5, <1>7
<1>9. b.implied_irb \in [D -> Nat] /\ \A q \in D : b.implied_irb[q] <= b.proposed_lib
  <2>1. b.implied_irb \in [D -> Nat]
    BY <1>5, <1>8
  <2>2. \A q \in D : b.implied_irb[q] <= b.proposed_lib
    <3> TAKE q \in D
    <3>1. b.implied_irb[q] \in Nat /\ b.implied_irb[q] <= h.proposed_lib
      BY <1>8
    <3>2. h.proposed_lib \in Nat /\ b.proposed_lib \in Nat /\ h.proposed_lib <= b.proposed_lib
      BY <1>2, <1>4
    <3> QED
      BY <3>1, <3>2
  <2> QED
    BY <2>1, <2>2
<1>10. /\ b.block_num \in Nat /\ b.lib <= b.proposed_lib
       /\ b.proposed_lib <= b.block_num /\ b.lib < b.block_num
       /\ Len(b.confirm_count) <= b.block_num - b.proposed_lib
  <2> DEFINE n == h.block_num  m == b.block_num  old == h.proposed_lib
             new == b.proposed_lib  lib == b.lib  len == Len(b.confirm_count)
  <2>1. m = n + 1 /\ n \in Nat /\ old \in Nat /\ old <= n
    BY <1>1, <1>2
  <2>2. lib \in Nat /\ lib <= old /\ new \in Nat /\ old <= new /\ new <= n + 1
        /\ len <= n + 1 - new
    BY <1>3, <1>4
  <2> HIDE DEF n, m, old, new, lib, len
  <2>3. m \in Nat /\ lib <= new /\ new <= m /\ lib < m /\ len <= m - new
    BY <2>1, <2>2
  <2> QED
    BY <2>3 DEF n, m, old, new, lib, len
<1> QED
  BY <1>3, <1>4, <1>5, <1>6, <1>9, <1>10 DEF DposInv

\* More than two thirds of the producers are not behind v.
LEMMA SupportedBy ==
    ASSUME NEW irb, IsFiniteSet(DOMAIN irb), irb \in [DOMAIN irb -> Nat], NEW v \in Nat,
           NEW S, S = {q \in DOMAIN irb : irb[q] >= v}
    PROVE  Supported(irb, v) <=> 3 * Cardinality(S) > 2 * Cardinality(DOMAIN irb)
<1>1. PICK D, x, b, n : /\ D = DOMAIN irb /\ x = Cardinality(S)
                        /\ b = Cardinality(Below(irb, v)) /\ n = Cardinality(D)
  OBVIOUS
<1>2. b \in Nat /\ n \in Nat
  BY <1>1, BelowIsFinite
<1>3. \A q \in D : irb[q] \in Nat
  BY <1>1
<1>4. S = D \ Below(irb, v) /\ D \cap Below(irb, v) = Below(irb, v)
  BY <1>1, <1>3 DEF Below
<1>5. x = n - b
  <2>1. Cardinality(D \ Below(irb, v)) = Cardinality(D) - Cardinality(D \cap Below(irb, v))
    BY <1>1, FS_Difference
  <2> QED
    BY <1>1, <1>4, <2>1
<1>6. 3 * b < n <=> 3 * x > 2 * n
  BY <1>2, <1>5
<1> QED
  BY <1>1, <1>6 DEF Supported

\* The lib of a new block is supported, unless the block makes a schedule active
\* that tolerates fewer missing producers than the one before.
LEMMA NextSupported ==
    ASSUME NEW h, DposInv(h), NEW slot, NEW c, NEW b, b = NextState(h, slot, c),
           NEW n, n = Cardinality(DOMAIN h.implied_irb),
           NEW L, L = Range(h.pending.producers), IsFiniteSet(L),
           ScheduleMatures(h, b.lib) =>
             L # {} /\ (n # 0 => (n - 1) \div 3 <= (Cardinality(L) - 1) \div 3)
    PROVE  Supported(b.implied_irb, b.lib)
<1> DEFINE s == ScheduleMatures(h, b.lib)
<1>1. PICK D, E, old, irb, new, lib, p, x, y :
         /\ D = DOMAIN h.implied_irb /\ old = h.implied_irb
         /\ p = b.producer /\ lib = b.lib /\ irb = Raised(h, p) /\ new = b.implied_irb
         /\ E = IF s THEN L ELSE {p} \cup D
         /\ x = Cardinality(E) /\ y = Cardinality(Below(new, lib))
  OBVIOUS
<1>2. b.lib = CalcDposLastIrreversible(h, b.producer)
  BY NextFields
<1>3. /\ lib \in Nat /\ lib <= h.proposed_lib
      /\ D # {} => Cardinality(Below(irb, lib)) <= (n - 1) \div 3
  BY <1>1, <1>2, CalcProperties
<1>4. h.proposed_lib \in Nat /\ IsFiniteSet(D) /\ D = DOMAIN irb /\ \A q \in D : old[q] \in Nat
  BY <1>1 DEF DposInv, Raised
<1>5. IsFiniteSet({p} \cup D) /\ Cardinality({p} \cup D) \in Nat /\ n \in Nat
  <2>1. IsFiniteSet({p} \cup D)
    BY <1>4, FS_Singleton, FS_Union
  <2> QED
    BY <1>1, <1>4, <2>1, FS_CardinalityType
<1>6. /\ DOMAIN new = E
      /\ \A q \in E : new[q] = IF q = p THEN h.proposed_lib
                               ELSE IF q \in DOMAIN old THEN old[q] ELSE lib
  <2>1. new = Renewed(old, E, p, h.proposed_lib, lib)
    BY <1>1, NextImplied
  <2> QED
    BY <2>1, RenewedProperties
<1>7. IsFiniteSet(E) /\ E # {}
  BY <1>1, <1>5
<1>8. x \in Nat /\ x # 0 /\ y \in Nat /\ Cardinality(Below(irb, lib)) \in Nat
  BY <1>1, <1>4, <1>6, <1>7, FS_CardinalityType, FS_EmptySet, BelowIsFinite
<1>9. Below(new, lib) \in SUBSET Below(irb, lib)
  <2> SUFFICES ASSUME NEW q \in E, new[q] < lib
               PROVE  q \in D /\ irb[q] < lib
    BY <1>4, <1>6 DEF Below
  <2>1. q # p
    BY <1>3, <1>4, <1>6
  <2>2. q \in D
    <3>1. q \notin D => new[q] = lib
      BY <1>1, <1>6, <2>1
    <3> QED
      BY <1>3, <3>1
  <2>3. irb[q] = new[q]
    BY <1>1, <1>6, <2>1, <2>2 DEF Raised
  <2> QED
    BY <2>2, <2>3
<1>10. y <= Cardinality(Below(irb, lib))
  BY <1>1, <1>4, <1>9, BelowIsFinite, FS_Subset
<1>11. 3 * y < x
  <2>1. CASE D = {}
    <3>1. Below(irb, lib) = {}
      BY <1>4, <2>1 DEF Below
    <3>2. Cardinality(Below(irb, lib)) = 0
      BY <3>1, FS_EmptySet
    <3> QED
      BY <1>8, <1>10, <3>2
  <2>2. CASE D # {}
    <3>1. y <= (n - 1) \div 3 /\ n # 0
      <4>1. n # 0
        BY <1>1, <1>4, <2>2, FS_EmptySet
      <4>2. (n - 1) \div 3 \in Nat
        BY <1>5, <4>1
      <4> QED
        BY <1>3, <1>8, <1>10, <2>2, <4>1, <4>2
    <3>2. CASE s
      <4>1. E = L /\ (n - 1) \div 3 <= (x - 1) \div 3
        BY <1>1, <3>1, <3>2
      <4> QED
        BY <1>5, <1>8, <3>1, <4>1
    <3>3. CASE ~s
      <4>1. D \in SUBSET E
        BY <1>1, <3>3
      <4>2. n <= x
        BY <1>1, <1>7, <4>1, FS_Subset
      <4> QED
        BY <1>5, <1>8, <3>1, <4>2
    <3> QED
      BY <3>2, <3>3
  <2> QED
    BY <2>1, <2>2
<1> QED
  BY <1>1, <1>6, <1>11 DEF Supported

\* finish_next leaves the numbers and maps as they are.
LEMMA FinishedFields ==
    ASSUME NEW b, NEW f, f = Finished(b)
    PROVE  /\ f.block_num = b.block_num /\ f.slot = b.slot /\ f.producer = b.producer
           /\ f.confirmed = b.confirmed /\ f.proposed_lib = b.proposed_lib /\ f.lib = b.lib
           /\ f.confirm_count = b.confirm_count /\ f.last_produced = b.last_produced
           /\ f.implied_irb = b.implied_irb /\ f.active = b.active
           /\ f.active_rate = b.active_rate
  BY DEF Finished

\* It makes the header's new schedule pending, if there is one,
LEMMA FinishedNewSchedule ==
    ASSUME NEW b, NEW f, f = Finished(b), NEW x, b.new_schedule = {x}, ~b.was_pending_promoted
    PROVE  /\ f.pending.version = x.version /\ f.pending.producers = x.producers
           /\ f.pending.lib_num = b.block_num
<1>1. PendingProducers(b) = x
  BY DEF PendingProducers
<1> QED
  BY <1>1 DEF Finished

\* and otherwise leaves what is pending, or was promoted,
LEMMA FinishedOldSchedule ==
    ASSUME NEW b, NEW f, f = Finished(b), b.new_schedule = {}
    PROVE  /\ f.pending.version = b.prev_pending.version
           /\ f.pending.lib_num = b.prev_pending.lib_num
           /\ f.pending.producers = IF b.was_pending_promoted THEN << >>
                                    ELSE b.prev_pending.producers
<1>1. PendingProducers(b) = b.prev_pending
  BY DEF PendingProducers
<1> QED
  BY <1>1 DEF Finished

\* and the same for the rate.
LEMMA FinishedNewRate ==
    ASSUME NEW b, NEW f, f = Finished(b), NEW x, b.new_rate = {x}, ~b.was_pending_rate_promoted
    PROVE  /\ f.pending_rate.version = x.version /\ f.pending_rate.rate = x.rate
           /\ f.pending_rate.lib_num = b.block_num
<1>1. PendingRate(b) = x
  BY DEF PendingRate
<1> QED
  BY <1>1 DEF Finished

\* Without a new rate the old one stays pending, or was promoted.
LEMMA FinishedOldRate ==
    ASSUME NEW b, NEW f, f = Finished(b), b.new_rate = {}
    PROVE  /\ f.pending_rate.version = b.prev_pending_rate.version
           /\ f.pending_rate.lib_num = b.prev_pending_rate.lib_num
           /\ f.pending_rate.rate = IF b.was_pending_rate_promoted THEN 0
                                    ELSE b.prev_pending_rate.rate
<1>1. PendingRate(b) = b.prev_pending_rate
  BY DEF PendingRate
<1> QED
  BY <1>1 DEF Finished

\* A producer confirms only blocks above its watermark that are not irreversible.
LEMMA ConfirmsReversible ==
    ASSUME NEW h, NEW n \in Nat, n = h.block_num, h.lib \in Nat, NEW w \in Nat,
           NEW c, c = BlocksToConfirm(h, w)
    PROVE  /\ c \in Int /\ c <= n - h.lib
           /\ c <= IF w > 0 /\ w < n THEN n - w ELSE 0
           /\ h.lib <= n => c \in Nat
<1>1. PICK x, y : x = (IF w > 0 /\ w < n THEN n - w ELSE 0) /\ y = n - h.lib
  OBVIOUS
<1>2. x \in Int /\ y \in Int
  BY <1>1
<1>3. c = Min({x, y})
  BY <1>1 DEF BlocksToConfirm
<1>4. c \in {x, y} /\ c <= x /\ c <= y
  BY <1>2, <1>3, MinOfTwo
<1> QED
  BY <1>1, <1>2, <1>4

-----------------------------------------------------------------------------
\* What the counters stand for: the producers that have confirmed each block.

\* calc_dpos_last_irreversible returns the proposed lib or some producer's value,
\* or nothing for a map without producers.
LEMMA CalcChooses ==
    ASSUME NEW h, DposInv(h), NEW p, NEW D, D = DOMAIN h.implied_irb,
           NEW lib, lib = CalcDposLastIrreversible(h, p)
    PROVE  lib = 0 \/ lib = h.proposed_lib \/ \E q \in D : lib = h.implied_irb[q]
<1>1. PICK irb, k : irb = Raised(h, p) /\ k = (Cardinality(D) - 1) \div 3
  OBVIOUS
<1>2. irb \in [D -> Nat] /\ IsFiniteSet(D) /\ DOMAIN irb = D
  BY <1>1 DEF DposInv, Raised
<1>3. lib = IF D = {} THEN 0 ELSE NthElement(irb, k)
  BY <1>1 DEF CalcDposLastIrreversible, Raised
<1>4. CASE D = {}
  BY <1>3, <1>4
<1>5. CASE D # {}
  <2>1. PICK n : n = Cardinality(D)
    OBVIOUS
  <2>2. n \in Nat /\ n # 0
    BY <1>2, <1>5, <2>1, FS_CardinalityType, FS_EmptySet
  <2>3. k = (n - 1) \div 3
    BY <1>1, <2>1
  <2>4. k \in Nat /\ k < n
    BY <2>2, <2>3
  <2>5. PICK q \in D : NthElement(irb, k) = irb[q]
    BY <1>2, <2>1, <2>4, NthElementProperties
  <2>6. irb[q] = IF q = p THEN h.proposed_lib ELSE h.implied_irb[q]
    BY <1>1 DEF Raised
  <2> QED
    BY <1>3, <1>5, <2>5, <2>6
<1> QED
  BY <1>4, <1>5

\* The confirmations the block after h requires.
Needs(h, r) == r \in Byte /\ r = RequiredConfs(Len(h.active.producers))

\* The window that has grown to g ends with r, after the last entries of cc.
Shifted(g, cc, d, r) ==
    /\ g \in Seq(Byte) /\ Len(g) # 0 /\ g[Len(g)] = r /\ d \in {0, 1} /\ d = Len(cc) + 1 - Len(g)
    /\ \A i \in 1 .. Len(g) - 1 : i + d \in 1 .. Len(cc) /\ g[i] = cc[i + d]

\* Where the entries of the old window are in the one that has grown.
LEMMA GrownPlaces ==
    ASSUME NEW h, NEW cc \in Seq(Byte), cc = h.confirm_count, Len(cc) <= MaxTracked,
           NEW r, Needs(h, r), NEW g, g = GrownConfirmCount(h)
    PROVE  \E d : Shifted(g, cc, d, r)
<1> USE DEF Needs
<1> DEFINE d == Len(cc) + 1 - Len(g)
<1>0. g \in Seq(Byte) /\ Len(g) # 0 /\ g[Len(g)] = r
  BY GrownProperties, WidthAssumption
<1>. SUFFICES d \in {0, 1} /\ \A i \in 1 .. Len(g) - 1 : i + d \in 1 .. Len(cc) /\ g[i] = cc[i + d]
  BY <1>0 DEF Shifted
<1>1. MaxTracked \in Nat \ {0} /\ Len(cc) \in Nat
  BY WidthAssumption, LenProperties
<1>2. g = Append(IF Len(cc) < MaxTracked THEN cc ELSE Tail(cc), r)
  BY DEF GrownConfirmCount
<1>3. CASE Len(cc) < MaxTracked
  <2>1. g = Append(cc, r)
    BY <1>2, <1>3
  <2>2. Len(g) = Len(cc) + 1 /\ \A i \in 1 .. Len(cc) : g[i] = cc[i]
    BY <2>1, AppendProperties
  <2>3. d = 0 /\ Len(g) - 1 = Len(cc)
    BY <1>1, <2>2
  <2>4. \A i \in 1 .. Len(cc) : i + 0 = i
    BY <1>1
  <2> QED
    BY <2>2, <2>3, <2>4
<1>4. CASE ~(Len(cc) < MaxTracked)
  <2>1. PICK t : t = Tail(cc)
    OBVIOUS
  <2>2. g = Append(t, r)
    BY <1>2, <1>4, <2>1
  <2>3. cc # << >>
    BY <1>1, <1>4, EmptySeq
  <2>4. t \in Seq(Byte) /\ Len(t) = Len(cc) - 1 /\ \A i \in 1 .. Len(t) : t[i] = cc[i + 1]
    BY <2>1, <2>3, HeadTailProperties
  <2>5. Len(g) = Len(t) + 1 /\ \A i \in 1 .. Len(t) : g[i] = t[i]
    BY <2>2, <2>4, AppendProperties
  <2>6. d = 1 /\ Len(g) - 1 = Len(t)
    BY <1>1, <2>4, <2>5
  <2>7. \A i \in 1 .. Len(t) : i + 1 \in 1 .. Len(cc)
    BY <1>1, <2>4
  <2> QED
    BY <2>4, <2>5, <2>6, <2>7
<1> QED
  BY <1>3, <1>4

\* Each counter of the window that ends with block n, together with the s[k]
\* producers that have confirmed its block k, makes up what is required.
Accounts(cc, n, s, r) ==
    \A i \in 1 .. Len(cc) : cc[i] # 0 /\ cc[i] + s[n - Len(cc) + i] >= r

\* The producers t[k] after block n is confirmed, with the c blocks before it, by
\* a producer who has confirmed none of them before, when they were s[k].
Joins(s, t, n, c) ==
    \A k \in Nat : /\ s[k] \in Nat /\ t[k] \in Nat /\ s[k] <= t[k]
                   /\ k >= n - c /\ k <= n => s[k] + 1 <= t[k]

\* The new entry of the window needs everything.
LEMMA GrownAccounts ==
    ASSUME NEW cc \in Seq(Byte), NEW r \in Nat, r # 0, NEW g, NEW d, Shifted(g, cc, d, r),
           NEW n \in Nat, NEW m \in Nat, m = n + 1, Len(cc) <= n,
           NEW s, s[m] \in Nat, Accounts(cc, n, s, r)
    PROVE  Accounts(g, m, s, r) /\ Len(g) <= m
<1>1. PICK size, l : size = Len(g) /\ l = Len(cc)
  OBVIOUS
<1>2. g \in Seq(Byte) /\ size # 0 /\ g[size] = r
  BY <1>1 DEF Shifted
<1>3. size \in Nat /\ l \in Nat
  BY <1>1, <1>2, LenProperties
<1>4. d \in {0, 1} /\ d = l + 1 - size
  BY <1>1 DEF Shifted
<1>5. \A i \in 1 .. size - 1 : i + d \in 1 .. l /\ g[i] = cc[i + d]
  BY <1>1 DEF Shifted
<1>6. size <= m
  BY <1>1, <1>3, <1>4
<1>7. ASSUME NEW i \in 1 .. size
      PROVE  g[i] # 0 /\ g[i] + s[m - size + i] >= r
  <2>1. CASE i = size
    <3>1. m - size + i = m
      BY <1>3, <2>1
    <3> QED
      BY <1>2, <2>1, <3>1
  <2>2. CASE i # size
    <3>1. i \in 1 .. size - 1
      BY <1>3, <2>2
    <3>2. PICK e : e = i + d
      OBVIOUS
    <3>3. e \in 1 .. l /\ g[i] = cc[e]
      BY <1>5, <3>1, <3>2
    <3>4. cc[e] # 0 /\ cc[e] + s[n - l + e] >= r
      BY <1>1, <3>3 DEF Accounts
    <3>5. n - l + e = m - size + i
      BY <1>3, <1>4, <3>2
    <3> QED
      BY <3>3, <3>4, <3>5
  <2> QED
    BY <2>1, <2>2
<1> QED
  BY <1>1, <1>6, <1>7 DEF Accounts

\* The same after the loop has reached R: these may be zero.
CountedDown(u, size, R, n, t, r) ==
    \A i \in 1 .. size : u[i] + t[n - size + i] >= r /\ (i \notin R => u[i] # 0)

\* The loop of next() takes one from the counters of the blocks it confirms.
LEMMA CountedAccounts ==
    ASSUME NEW g \in Seq(Byte), NEW size \in Nat, size = Len(g), size # 0,
           NEW n \in Nat, size <= n, NEW c \in Nat, NEW r \in Nat, NEW s, NEW t,
           Joins(s, t, n, c), Accounts(g, n, s, r),
           NEW u, u = Counted(g, c), NEW R, R = Reached(g, c)
    PROVE  CountedDown(u, size, R, n, t, r)
<1>1. PICK low : low = Lowest(g, c)
  OBVIOUS
<1>2. low \in Int /\ low >= size - c /\ low >= 1 /\ low <= size
  <2>1. PICK e \in Int : e = size - c
    <3>1. size - c \in Int
      OBVIOUS
    <3> QED
      BY <3>1
  <2>2. Max({1, e}) \in {1, e} /\ 1 <= Max({1, e}) /\ e <= Max({1, e})
    <3>1. 1 \in Int
      OBVIOUS
    <3> QED
      BY <3>1, MaxOfTwo
  <2>3. low = Max({1, e})
    BY <1>1, <2>1 DEF Lowest
  <2> QED
    BY <2>1, <2>2, <2>3
<1>3. ASSUME NEW i \in 1 .. size
      PROVE  u[i] + t[n - size + i] >= r /\ (i \notin R => u[i] # 0)
  <2>1. PICK k \in Nat : k = n - size + i
    <3>1. n - size + i \in Nat
      OBVIOUS
    <3> QED
      BY <3>1
  <2>2. PICK a \in Nat : a = g[i]
    <3>1. g[i] \in Byte
      BY ElementOfSeq
    <3> QED
      BY <3>1 DEF Byte
  <2>3. a # 0 /\ a + s[k] >= r /\ a \in Byte
    <3>1. g[i] \in Byte
      BY ElementOfSeq
    <3> QED
      BY <2>1, <2>2, <3>1 DEF Accounts
  <2>4. PICK x \in Nat, y \in Nat : x = s[k] /\ y = t[k]
    BY DEF Joins
  <2>5. x <= y /\ (k >= n - c /\ k <= n => x + 1 <= y)
    BY <2>4 DEF Joins
  <2>6. u[i] = IF i >= low THEN Decrement8(a) ELSE a
    BY <1>1, <2>2 DEF Counted
  <2>7. CASE i >= low
    <3>1. u[i] = a - 1
      BY <2>3, <2>6, <2>7, DecrementByte
    <3>2. k >= n - c /\ k <= n
      BY <1>2, <2>1, <2>7
    <3>3. a + x >= r
      BY <2>3, <2>4
    <3>4. (a - 1) + y >= r
      BY <2>5, <3>2, <3>3
    <3>5. i \notin R => u[i] # 0
      <4>1. i \in low .. size
        BY <1>2, <2>7
      <4> QED
        BY <1>1, <4>1 DEF Reached
    <3> QED
      BY <2>1, <2>4, <3>1, <3>4, <3>5
  <2>8. CASE ~(i >= low)
    <3>1. u[i] = a /\ a + x >= r
      BY <2>3, <2>4, <2>6, <2>8
    <3>2. a + y >= r
      BY <2>5, <3>1
    <3> QED
      BY <2>1, <2>3, <2>4, <3>1, <3>2
  <2> QED
    BY <2>7, <2>8
<1> QED
  BY <1>3 DEF CountedDown

\* What is left of them after the last block that needs no more, block x, which
\* has all its confirmations.
LEMMA KeptAccounts ==
    ASSUME NEW u \in Seq(Byte), NEW size \in Nat, size = Len(u), NEW z \in 1 .. size,
           NEW n \in Nat, size <= n, NEW r \in Nat, NEW t, NEW cc, cc = SubSeq(u, z + 1, size),
           NEW R, CountedDown(u, size, R, n, t, r), z \in R, \A k \in R : k <= z, u[z] = 0,
           NEW x, x = n - (size - z), t[x] \in Nat
    PROVE  Accounts(cc, n, t, r) /\ t[x] >= r
<1>1. \A i \in z + 1 .. size : u[i] \in Byte
  BY ElementOfSeq
<1>2. /\ Len(cc) = IF z + 1 <= size THEN size - (z + 1) + 1 ELSE 0
      /\ \A i \in 1 .. size - (z + 1) + 1 : cc[i] = u[z + 1 + i - 1]
  BY <1>1, SubSeqProperties
<1>3. Len(cc) = size - z
  BY <1>2
<1> USE DEF CountedDown
<1>4. ASSUME NEW i \in 1 .. size - z
      PROVE  cc[i] # 0 /\ cc[i] + t[n - (size - z) + i] >= r
  <2>1. PICK j \in 1 .. size : j = z + i
    OBVIOUS
  <2>2. i \in 1 .. size - (z + 1) + 1 /\ z + 1 + i - 1 = j
    BY <2>1
  <2>3. cc[i] = u[j]
    BY <1>2, <2>2
  <2>4. ~(j <= z) /\ n - (size - z) + i = n - size + j
    BY <2>1
  <2> QED
    BY <2>3, <2>4
<1>5. t[x] >= r
  <2>1. n - size + z = x
    OBVIOUS
  <2>2. u[z] + t[x] >= r
    BY <2>1
  <2> QED
    BY <2>2
<1> QED
  BY <1>3, <1>4, <1>5 DEF Accounts

\* The loop over the window g of the block n, which leaves u and reaches R; x is
\* the last block reached, and y what follows it.
Loop(g, size, n, c, u, R, z, x, y) ==
    /\ g \in Seq(Byte) /\ size \in Nat /\ size = Len(g) /\ size # 0 /\ size <= n
    /\ u = Counted(g, c) /\ R = Reached(g, c) /\ z = Max(R)
    /\ x = n - (size - z) /\ y = SubSeq(u, z + 1, size)

\* The window after the loop, if nothing is reached, or what follows the last
\* block that is.
LEMMA LeftAccounts ==
    ASSUME NEW n \in Nat, NEW c \in Nat, NEW r \in Nat, NEW s, NEW t,
           NEW g, NEW size, NEW u, NEW R, NEW z, NEW x, NEW y, Loop(g, size, n, c, u, R, z, x, y),
           Joins(s, t, n, c), Accounts(g, n, s, r)
    PROVE  /\ R = {} => Accounts(u, n, t, r)
           /\ R # {} => Accounts(y, n, t, r) /\ t[x] >= r /\ z \in Nat
<1>0. /\ g \in Seq(Byte) /\ size \in Nat /\ size = Len(g) /\ size # 0 /\ size <= n
      /\ u = Counted(g, c) /\ R = Reached(g, c) /\ z = Max(R)
      /\ x = n - (size - z) /\ y = SubSeq(u, z + 1, size)
  BY DEF Loop
<1>1. CountedDown(u, size, R, n, t, r)
  BY <1>0, CountedAccounts, Zenon
<1>2. u \in Seq(Byte) /\ Len(u) = size /\ R \in SUBSET (1 .. size) /\ IsFiniteSet(R)
  BY <1>0, CountedProperties
<1>3. CASE R = {}
  BY <1>1, <1>2, <1>3 DEF Accounts, CountedDown
<1>4. CASE R # {}
  <2>1. z \in R /\ \A k \in R : k <= z
    <3>1. R \in SUBSET Nat
      BY <1>2
    <3> QED
      BY <1>0, <1>2, <1>4, <3>1, MaxOfFinite
  <2>2. z \in 1 .. size /\ u[z] = 0
    BY <1>0, <1>2, <2>1 DEF Reached
  <2>3. size = Len(u)
    BY <1>2
  <2>4. t[x] \in Nat
    <3>1. size \in Nat /\ size <= n /\ x = n - (size - z) /\ z \in 1 .. size
      BY <1>0, <2>2
    <3>2. x \in Nat
      BY <3>1
    <3> QED
      BY <3>2 DEF Joins
  <2>5. Accounts(y, n, t, r) /\ t[x] >= r
    BY <1>0, <1>1, <1>2, <2>1, <2>2, <2>3, <2>4, KeptAccounts, Zenon
  <2> QED
    BY <1>4, <2>2, <2>5
<1> QED
  BY <1>3, <1>4

\* What next() makes of the confirmations, in terms of the loop.
LEMMA ConfirmLoop ==
    ASSUME NEW h, NEW c, NEW g, g = GrownConfirmCount(h)
    PROVE  Confirm(h, c) = IF Reached(g, c) = {}
                           THEN [proposed_lib |-> h.proposed_lib, confirm_count |-> Counted(g, c)]
                           ELSE [proposed_lib  |-> h.block_num + 1 - (Len(g) - Max(Reached(g, c))),
                                 confirm_count |-> SubSeq(Counted(g, c), Max(Reached(g, c)) + 1, Len(g))]
  BY DEF Confirm, Reached, Counted, Lowest

\* A header h of number b, and what the next block, of number n, finds there: the
\* window old, which accounts for the s[k], and the confirmations r it requires.
BeforeNext(h, b, n, s, r, old) ==
    /\ DposInv(h) /\ Needs(h, r) /\ r # 0
    /\ b = h.block_num /\ n = h.block_num + 1 /\ old = h.confirm_count
    /\ Accounts(old, b, s, r)

\* The new counters account for the t[k], and the lib that is proposed with them
\* is the old one, q, or has all its confirmations.
AccountsFor(conf, n, t, r, q) ==
    /\ Accounts(conf.confirm_count, n, t, r)
    /\ conf.proposed_lib = q \/ t[conf.proposed_lib] >= r

\* next() keeps the counters up to date, when the producer has not confirmed the
\* blocks before, and the lib it proposes anew has all the confirmations.
LEMMA ConfirmAccounts ==
    ASSUME NEW h, NEW b, NEW n, NEW s, NEW t, NEW r, NEW old, BeforeNext(h, b, n, s, r, old),
           NEW c \in Nat, Joins(s, t, n, c), NEW conf, conf = Confirm(h, c),
           NEW q, q = h.proposed_lib
    PROVE  AccountsFor(conf, n, t, r, q)
<1>1. PICK l : l = Len(old)
  OBVIOUS
<1>2. /\ b \in Nat /\ q \in Nat /\ old \in Seq(Byte) /\ l <= MaxTracked /\ l <= b - q /\ l \in Nat
  BY <1>1, LenProperties DEF BeforeNext, DposInv
<1>3. n \in Nat /\ n = b + 1 /\ l <= b /\ r \in Nat /\ r # 0
  <2>1. n = b + 1 /\ r \in Byte /\ r # 0
    BY DEF BeforeNext, Needs
  <2> QED
    BY <1>2, <2>1 DEF Byte
<1>4. s[n] \in Nat
  BY <1>3 DEF Joins
<1>5. PICK g : g = GrownConfirmCount(h)
  OBVIOUS
<1>6. Needs(h, r) /\ old = h.confirm_count /\ Len(old) <= MaxTracked /\ Accounts(old, b, s, r)
  BY <1>1, <1>2 DEF BeforeNext
<1>7. PICK d : Shifted(g, old, d, r)
  BY <1>2, <1>5, <1>6, GrownPlaces, Zenon
<1>8. Accounts(g, n, s, r) /\ Len(g) <= n
  BY <1>1, <1>2, <1>3, <1>4, <1>6, <1>7, GrownAccounts
<1>9. g \in Seq(Byte) /\ Len(g) \in Nat /\ Len(g) # 0
  <2>1. g \in Seq(Byte) /\ Len(g) # 0
    BY <1>7 DEF Shifted
  <2> QED
    BY <2>1, LenProperties
<1>10. PICK size, u, R, z, x, y :
         /\ size = Len(g) /\ u = Counted(g, c) /\ R = Reached(g, c)
         /\ z = Max(R) /\ x = n - (size - z) /\ y = SubSeq(u, z + 1, size)
  OBVIOUS
<1>11. Loop(g, size, n, c, u, R, z, x, y)
  BY <1>8, <1>9, <1>10 DEF Loop
<1>12. /\ R = {} => Accounts(u, n, t, r)
       /\ R # {} => Accounts(y, n, t, r) /\ t[x] >= r /\ z \in Nat
  BY <1>3, <1>8, <1>11, LeftAccounts, Zenon
<1>13. n = h.block_num + 1
  BY DEF BeforeNext
<1>14. conf = IF R = {} THEN [proposed_lib |-> q, confirm_count |-> u]
                        ELSE [proposed_lib |-> x, confirm_count |-> y]
  <2>1. Confirm(h, c) = IF Reached(g, c) = {}
                        THEN [proposed_lib |-> h.proposed_lib, confirm_count |-> Counted(g, c)]
                        ELSE [proposed_lib  |-> h.block_num + 1 - (Len(g) - Max(Reached(g, c))),
                              confirm_count |-> SubSeq(Counted(g, c), Max(Reached(g, c)) + 1, Len(g))]
    BY <1>5, ConfirmLoop
  <2>2. Confirm(h, c) = IF R = {}
                        THEN [proposed_lib |-> q, confirm_count |-> u]
                        ELSE [proposed_lib  |-> n - (size - z), confirm_count |-> SubSeq(u, z + 1, size)]
    <3>1. size = Len(g) /\ u = Counted(g, c) /\ R = Reached(g, c) /\ z = Max(R)
      BY <1>1, <1>10
    <3>2. Confirm(h, c) = IF R = {}
                          THEN [proposed_lib |-> q, confirm_count |-> u]
                          ELSE [proposed_lib  |-> h.block_num + 1 - (size - Max(R)),
                                confirm_count |-> SubSeq(u, Max(R) + 1, size)]
      BY <2>1, <3>1
    <3>3. CASE R = {}
      BY <3>2, <3>3
    <3>4. CASE R # {}
      <4>1. Confirm(h, c) = [proposed_lib  |-> h.block_num + 1 - (size - Max(R)),
                             confirm_count |-> SubSeq(u, Max(R) + 1, size)]
        BY <3>2, <3>4
      <4>2. Confirm(h, c) = [proposed_lib  |-> n - (size - z), confirm_count |-> SubSeq(u, z + 1, size)]
        <5>1. z = Max(R)
          BY <3>1
        <5>2. n = h.block_num + 1
          BY <1>13
        <5>3. n - (size - z) = h.block_num + 1 - (size - Max(R))
          <6>1. h.block_num = b /\ b \in Nat /\ size \in Nat /\ z \in Nat /\ n = b + 1
            BY <1>2, <1>3, <1>9, <1>10, <1>12, <3>4 DEF BeforeNext
          <6>2. n - (size - z) = b + 1 - (size - z)
            BY <6>1
          <6> QED
            BY <5>1, <6>1, <6>2
        <5>4. SubSeq(u, z + 1, size) = SubSeq(u, Max(R) + 1, size)
          BY <5>1
        <5>5. PICK v, w : v = n - (size - z) /\ w = SubSeq(u, z + 1, size)
          OBVIOUS
        <5>6. Confirm(h, c) = [proposed_lib |-> v, confirm_count |-> w]
          BY <4>1, <5>3, <5>4, <5>5
        <5> QED
          BY <5>5, <5>6
      <4> QED
        BY <3>4, <4>2
    <3> QED
      BY <3>3, <3>4
  <2> QED
    BY <1>10, <2>2
<1>15. CASE R = {}
  <2>1. conf.proposed_lib = q /\ conf.confirm_count = u
    BY <1>14, <1>15
  <2> QED
    BY <1>12, <1>15, <2>1, Zenon DEF AccountsFor
<1>16. CASE R # {}
  <2>1. conf.proposed_lib = x /\ conf.confirm_count = y
    BY <1>14, <1>16
  <2> QED
    BY <1>12, <1>16, <2>1, Zenon DEF AccountsFor
<1> QED
  BY <1>15, <1>16, Zenon
=============================================================================
